\* The clock is set back, files fail, the detector may be one without readouts.
CONSTANTS
    Ticks = 6
    Word = 32
    Nps = 7
    MaxDataSize = 40
    BufferSize = 120
    Detectors = {"DREAM", "MAGIC", "Reserved"}
    PeriodUnits = 3
    Tofs = {9}
    Calls = {"readout_add", "addReadout", "readout_newPacket", "readout_setPulseTime", "readout_dump_to", "readout_disable_network", "readout_enable_network"}
    FileFaults = TRUE
    StartClock = 7
    ClockSteps = {5}
    StepBacks = {6}
    MaxClock = 13
    MaxAdds = 2
    MaxDraw = 1
    MaxSeq = 5
SPECIFICATION Spec
INVARIANTS TofRecoverable WireOrdered RowsMirrorCalls
