CONSTANTS
    Giga = 4
    UIntWord = 16
    SizeWord = 256
    ElementSize = 40
    MaxEvents = 1
    MaxArgument = 1
    Files <- MCFiles
    Counts <- MCArguments
    Firsts = {0}
    Everys = {1}
    MaxDataSize = 70
    BufferSize = 93
    Noise = {2}
    MaxCopies = 3
SPECIFICATION WireSpec
INVARIANT NoCountReplaysAll
