SPECIFICATION Spec
CONSTANTS
    out = out
    err = err
    Stream = {out, err}
    MaxOutput = 3
    PipeCap = 2
    ChunkCap = 2
    MaxWritten = 4
    Continuation <- MCContinuation
    Trail <- MCTrail
INVARIANTS
    TypeOK
    BoundedOutput
    PrefixOfEachStream
    NothingLostBelowCeiling
PROPERTIES
    AnswersGrow
    WritersUnblocked
    OutputCompletes
CHECK_DEADLOCK FALSE
