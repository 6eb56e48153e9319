\* Three goroutines, three calls between them, every call returns.
SPECIFICATION FairSpec
CONSTANTS
    t1 = t1  t2 = t2  t3 = t3
    NoThread = NoThread
    Threads <- MCThree
    SafeModes = {"PAUSED", "OBSERVE"}
    MaxCalls = 3
INVARIANTS TypeOK WriteAllowedOrDoomed
PROPERTIES NoWriteAcrossTheGate ReturnedPauseHolds CallsReturn
CHECK_DEADLOCK FALSE
