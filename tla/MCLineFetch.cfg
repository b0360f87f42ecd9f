\* Lines of two words in rows of three, pieces of one and two words, late fetches.
SPECIFICATION FairSpec
CONSTANTS
    RowWords = 3
    LineWords = 2
    MinLine = 1
    MaxPiece = 2
    Lines <- EveryStart
    Pieces <- ReadAndWrite
INVARIANTS ShownLineTrue PieceTrue OnePieceFirst
PROPERTIES BurstsServed
