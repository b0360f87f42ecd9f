\* One latch each way: a hold of 2 cycles, a timeout just beyond the slowest reader.
SPECIFICATION RFairSpec
CONSTANTS
    Cycle = 3
    GUARD = 2
    HOLD = 2
    STALL = 25
    Latency = 4
    GAP = 1
    RESP = 3
    MaxDue = 1
    Command = {c1}
    Answer = {answer}
    Empty = empty
INVARIANTS NeverDeaf
PROPERTIES EveryCommandHeard NoAnswerLost NeverWedged CommandsTaken
