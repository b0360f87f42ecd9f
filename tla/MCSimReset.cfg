\* The watchdog: a machine reset of one clock, while an access is under way.
SPECIFICATION Spec
CONSTANTS
    PageSize = 2
    Pages = 3
    End = 4
    Image <- DistinctBytes
    PastEnd <- FF
    Rest = 2
    Resets = "watchdog"
INVARIANTS BufferTrue
