\* Lines whose first pixel changes parity.
SPECIFICATION Spec
CONSTANTS
    RowWords = 3
    LineWords = 2
    MinLine = 1
    MaxPiece = 2
    Lines <- BothParities
    Pieces <- ReadAndWrite
INVARIANTS ParityOfShown
