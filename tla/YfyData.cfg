SPECIFICATION Spec
CONSTANTS
    MODULE_NUM = 2
    GROUP_MODULE_NUM = 2
    BROADCAST_ADDR = 63
    GROUP_DEVICE_ID = 11
    Info <- Tables
    Frames <- TestFrames
    Clock = 7
    Interval = 2
    Offline = 3
    MaxGap = 1
INVARIANTS OnlineIsRight 
