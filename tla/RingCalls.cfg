SPECIFICATION FairSpec
CONSTANTS
    Size = 2
    Byte = {b1}
    MaxLen = 2
    Writers = {w1}
    Readers = {r1}
    Observers = {o1}
    Clearers = {c1}
    NoTask = NoTask
    Uint16 = 65536
    Reload = FALSE
INVARIANTS FifoIntact FullFlagExact 
PROPERTY CallsReturn
