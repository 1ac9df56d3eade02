SPECIFICATION FairSpec
CONSTANTS
    Word = 2
    SectorSize = 4
    Sectors = 2
    a = a
    b = b
    Byte = {a, b}
    Erased = Erased
    Garbage = Garbage
    Lengths = {0, 1, 4}
    Datas <- MCDatas
    MaxCalls = 2
CHECK_DEADLOCK FALSE
INVARIANTS WriteExact Contained  ChecksumOfFlash
 
