CONSTANTS
    N = 2
    Detector = "CSPEC"
    EventModes = {"p", "pp", "other"}
    SilentFailures = {}
    MaxRows = 1
SPECIFICATION Spec
INVARIANT DocumentedModesRun
