\* A configured attempt limit above the one the audit assumes.
SPECIFICATION Spec
CONSTANTS
    x1 = x1  x2 = x2  raw = raw  made = made  o1 = o1  o2 = o2
    NoOrder = NoOrder  NoSettlement = NoSettlement  NoSaga = NoSaga
    NoExecution = NoExecution  NoCheckpoint = NoCheckpoint
    Executions <- MCOneExecution
    Items <- MCItems
    Orders = {o1, o2}
    Plans <- MCDirectFlip
    MaxStepAttempts = 4
    ObservedOutcomes <- MCFewOutcomes
    ObservedSettlements <- MCOneSettlement
    ObservedInventories <- MCOneInventory
    Times = {1}
    MaxActions = 3
    MaxRestarts = 1
INVARIANT AuditReadsCheckpoints
CHECK_DEADLOCK FALSE
