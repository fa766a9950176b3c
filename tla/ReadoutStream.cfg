\* The network is switched while readouts are buffered.
CONSTANTS
    Ticks = 6
    Word = 32
    Nps = 7
    MaxDataSize = 70
    BufferSize = 120
    Detectors = {"CSPEC"}
    PeriodUnits = 3
    Tofs = {1}
    Calls = {"readout_add", "addReadout", "readout_send", "readout_setPulseTime", "readout_disable_network", "readout_enable_network"}
    FileFaults = FALSE
    StartClock = 7
    ClockSteps = {4}
    StepBacks = {}
    MaxClock = 11
    MaxAdds = 2
    MaxDraw = 3
    MaxSeq = 7
SPECIFICATION FairSpec
PROPERTIES ImplementsStream BufferedIsSent
