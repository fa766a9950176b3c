\* The EFU may close the connection; every thread starts.
CONSTANTS
    MaxAnswers = 0
    ThreadsMayFail = FALSE
    Levels = {}
    Verbosities = {}
SPECIFICATION FairSpec
PROPERTY ShutdownReturns
