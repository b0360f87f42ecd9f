\* Read bursts, with machine resets that strike in the middle of them.
SPECIFICATION WSpec
CONSTANTS
    tRCD = 2
    tRP = 2
    tRAS = 5
    tRC = 6
    tRFC = 7
    tWR = 2
    NCLI = 2
    Loader = 1
    Sim = 9
    CYCLES_PER_REFRESH = 40
    STARTUP_CYCLES = 34
    REFRESH_MAX = 127
    BURST_CHUNK = 2
    AddrSize = 4
    RowLen = 4
    rd_late = TRUE
    burst_slow = FALSE
    Val = {0,1,2,3,4,5,6,7,10,11,12,13,14,15}
    InitMem <- OwnAddress
    RowData <- TenPlus
    Requests <- OwnWord
    Bursts <- ReadBursts
    MaxLen = 3
    Resets = TRUE
    Bench = FALSE
INVARIANTS BurstComplete
