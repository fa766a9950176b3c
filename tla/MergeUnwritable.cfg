CONSTANTS
    N = 2
    Detector = "CSPEC"
    EventModes = {"p", "pp", "other"}
    SilentFailures = {"output"}
    MaxRows = 1
SPECIFICATION Spec
INVARIANT NoRowLost
