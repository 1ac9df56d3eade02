SPECIFICATION FairSpec
CONSTANTS
    K = 3
    RingSize = 7
    QueueLength = 1
    FifoDepth = 2
    MaxFrames = 3
CHECK_DEADLOCK FALSE
 
PROPERTIES  Served
