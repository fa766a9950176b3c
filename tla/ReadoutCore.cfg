\* A program that adds readouts and sends: time stamps, packets, pulses.
CONSTANTS
    Ticks = 6
    Word = 32
    Nps = 7
    MaxDataSize = 70
    BufferSize = 120
    Detectors = {"CSPEC"}
    PeriodUnits = 3
    Tofs = {1, 9}
    Calls = {"readout_add", "addReadout", "readout_send"}
    FileFaults = FALSE
    StartClock = 7
    ClockSteps = {1, 4, 18}
    StepBacks = {}
    MaxClock = 34
    MaxAdds = 2
    MaxDraw = 3
    MaxSeq = 6
SPECIFICATION Spec
INVARIANTS TypeOK PacketSound TofRecoverable WireOrdered PulseGapBounded PrevPulseIsReal NeverThrows
PROPERTY PulseIsFresh
