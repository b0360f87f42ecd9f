\* Read and write bursts across chunks and rows, beside two clients with a word each.
SPECIFICATION WSpec
CONSTANTS
    tRCD = 2
    tRP = 2
    tRAS = 5
    tRC = 6
    tRFC = 7
    tWR = 2
    NCLI = 2
    Loader = 1
    Sim = 9
    CYCLES_PER_REFRESH = 50
    STARTUP_CYCLES = 34
    REFRESH_MAX = 127
    BURST_CHUNK = 2
    AddrSize = 8
    RowLen = 4
    rd_late = FALSE
    burst_slow = TRUE
    Val = {0,1,2,3,4,5,6,7,10,11,12,13,14,15}
    InitMem <- OwnAddress
    RowData <- TenPlus
    Requests <- OwnWord
    Bursts <- MixedBursts
    MaxLen = 5
    Resets = FALSE
    Bench = FALSE
INVARIANTS TypeOK ChipTimingMet RefreshBounded BurstComplete AtMostTwoChunks
