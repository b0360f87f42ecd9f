\* Clients that never pause, and read bursts over the words they write.
SPECIFICATION BSpec
CONSTANTS
    tRCD = 2
    tRP = 2
    tRAS = 5
    tRC = 6
    tRFC = 7
    tWR = 2
    NCLI = 3
    Loader = 2
    Sim = 9
    CYCLES_PER_REFRESH = 12
    STARTUP_CYCLES = 34
    REFRESH_MAX = 63
    BURST_CHUNK = 2
    AddrSize = 4
    RowLen = 2
    rd_late = TRUE
    burst_slow = FALSE
    Val = {0, 1, 2, 3, 5}
    InitMem <- OwnAddress
    RowData <- Undriven
    Requests <- InTheBurst
    Bursts <- ReadBursts
    MaxLen = 3
    Resets = FALSE
    Bench = TRUE
INVARIANTS NobodyPassedTwice NoComplaint ShadowIsChip
