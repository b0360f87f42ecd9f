\* The ADSP is reset alone, by the 68k, while a read waits for its word.
SPECIFICATION Spec
CONSTANTS
    PageSize = 2
    Pages = 3
    End = 4
    Image <- DistinctBytes
    PastEnd <- FF
    Rest = 2
    Resets = "adsp"
INVARIANTS PendingTogether
