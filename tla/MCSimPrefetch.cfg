\* The serial ROM: two pages of two words and one past the end; long resets.
SPECIFICATION FairSpec
CONSTANTS
    PageSize = 2
    Pages = 3
    End = 4
    Image <- DistinctBytes
    PastEnd <- FF
    Rest = 2
    Resets = "long"
INVARIANTS BufferTrue SimCheckSilent
PROPERTIES StreamsInOrder ReadsAnswered
