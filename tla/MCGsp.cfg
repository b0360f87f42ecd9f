\* The memory glue, the core in the machine, and the core under the trace bench.
\* A run of the bench ends, and so does a list of requests.
SPECIFICATION Spec
CHECK_DEADLOCK FALSE
CONSTANTS
    VramWords = 32
    SrtRow = 4
    ExpRow = 16
    PalSize = 2
    Piece = 2
    InitVram <- Distinct
    InitWord <- NewWord
    Requests <- AllRequests
    Programs <- AllPrograms
    Rows <- FiveRows
    HandlerRow = 9
    Scratch = 5
    HostWords <- LastWord
    IoReg = 7
    WSTART = 1
    WEND = 3
    MaxEvents = 2
    HWRAP = 4
    MaxEntries = 9
INVARIANTS OldOrNew BlitsWhole HostNext TraceVerdictRight
PROPERTIES ServesGspMemory RequestsAnswered ServesHostPort
