CONSTANTS
    null = null
    uart = uart
    zip = zip
    NoDev = NoDev
    ALT_MAX_FD = 5
    Device = {null, uart}
    FileSystem = {zip}
    DevNull = null
    Name <- MCName
    NameOf <- MCNameOf
    Callbacks <- MCCallbacks
    OpenArgs <- MCOpenArgs
    SetflArgs <- MCSetflArgs
SPECIFICATION Spec
INVARIANTS OneOwner
PROPERTIES NoOpenWhileLocked FailureUndone LockOverlooksHighest
