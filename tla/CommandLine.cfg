SPECIFICATION FairSpec
CONSTANTS
    Chars <- Letters
    Texts <- Lines
    Commands <- AllCommands
    DmaRx = 3
    DmaTx = 2
    RxRing = 4
    TxRing = 3
    LineSize = 4
    NoLine = NoLine
CHECK_DEADLOCK FALSE
INVARIANTS   AnswersInFull
PROPERTIES EverythingMoves
