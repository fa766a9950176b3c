CONSTANTS
    Ticks = 6
    Word = 32
    Nps = 7
    MaxDataSize = 70
    BufferSize = 120
    Detectors = {"CSPEC"}
    PeriodUnits = 3
    Tofs = {1, 9}
    Calls = {"readout_add", "addReadout", "readout_send"}
    FileFaults = FALSE
    StartClock = 7
    ClockSteps = {1, 4, 18}
    StepBacks = {}
    MaxClock = 34
    MaxAdds = 1
    MaxDraw = 3
    MaxSeq = 6
SPECIFICATION SpecChoice
PROPERTY OneChoicePerReadout
