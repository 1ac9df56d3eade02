SPECIFICATION FairSpec
CONSTANTS
    Conns = {c1, c2}
    m = m
    fill = fill
    a = a
    b = b
    one = one
    three = three
    first = c1
    Units <- MCUnits
    Magic = m
    Fill = fill
    SizeOf <- MCSizeOf
    CrcOf <- MCCrcOf
    Script <- TwoImages
    Sector = 2
    Sectors = 2
    StreamLength = 4
    MaxSegment = 3
    Erased = Erased
    NULL = NULL
CHECK_DEADLOCK FALSE
INVARIANTS Bookkeeping VerifiedBeforeReboot FaithfulImage
 
