SPECIFICATION FairSpec
CONSTANTS
    Pcbs = {p1, p2}
    NULL = NULL
INVARIANTS PcbOwned ConnectedTruth BufferOwned
 
