\* One call of a library function: words of eight bits, lines of two machine words.
SPECIFICATION SpecCall
CONSTANTS
    Bits = 8
    EchoLen = 3
    AddressLimit = 64
    LineSize = 8
    WordSize = 4
    CacheSize = 32
    WordLimit = 256
    US = 12
    PerUs = 5
    RegBits = 5
    Prints <- MCPrints
    Clocks <- MCClocks
    Exceptions <- MCExceptions
    Resets <- MCResets
INVARIANTS
    PrintsArguments
    FlushCovers
    StartsFresh
    TimeKept
    EmulatesInstructions
CHECK_DEADLOCK FALSE
