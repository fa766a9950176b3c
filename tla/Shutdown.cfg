\* An EFU that answers up to twice; threads may fail to start.
CONSTANTS
    MaxAnswers = 2
    ThreadsMayFail = TRUE
    Levels = {"silent", "errors"}
    Verbosities = {1}
SPECIFICATION FairSpec
INVARIANTS TypeOK EntriesPresent NoThreadAtClose WakeupPending
PROPERTIES ImplementsCommand ReturnsOrStuck
