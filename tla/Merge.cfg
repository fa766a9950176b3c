\* Three processes; any may fail or be killed at any moment.
CONSTANTS
    N = 3
    Detector = "CSPEC"
    EventModes = {"p", "pp", "other"}
    SilentFailures = {}
    MaxRows = 2
SPECIFICATION FairSpec
INVARIANTS TypeOK NoRowLost MergedInOrder MergedIsAll ReadsClosedFiles
PROPERTY MergeEnds
