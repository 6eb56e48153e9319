\* A pause between the epoch check and the opening.
SPECIFICATION Spec
CONSTANTS
    t1 = t1  t2 = t2  t3 = t3
    NoThread = NoThread
    Threads <- MCTwo
    SafeModes = {"PAUSED"}
    MaxCalls = 2
INVARIANT OpenIsAuthorized
CHECK_DEADLOCK FALSE
