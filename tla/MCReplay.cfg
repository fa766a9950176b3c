\* Every argument from -3 to 3, files of up to four events, the second of
\* which is noise; a packet is full with two CAEN records.
CONSTANTS
    Giga = 4
    UIntWord = 16
    SizeWord = 256
    ElementSize = 40
    MaxEvents = 4
    MaxArgument = 3
    Files <- MCFiles
    Counts <- MCArguments
    Firsts <- MCArguments
    Everys <- MCArguments
    MaxDataSize = 70
    BufferSize = 93
    Noise = {2}
    MaxCopies = 3
SPECIFICATION WireSpec
INVARIANTS WireTypeOK OnlyAsked AsAsked LegalReplayRuns WaysAgree WireIsReplay ReplayPacketsFit
