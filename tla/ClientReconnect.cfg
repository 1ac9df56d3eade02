SPECIFICATION FairSpec
CONSTANTS
    Pcbs = {p1, p2}
    NULL = NULL
PROPERTY Reconnects
