\* One execution of a contact barter, one restart.
SPECIFICATION Spec
CONSTANTS
    x1 = x1  x2 = x2  raw = raw  made = made  o1 = o1  o2 = o2
    NoOrder = NoOrder  NoSettlement = NoSettlement  NoSaga = NoSaga
    NoExecution = NoExecution  NoCheckpoint = NoCheckpoint
    Executions <- MCOneExecution
    Items <- MCItems
    Orders = {o1, o2}
    Plans <- MCContactBarter
    MaxStepAttempts = 2
    ObservedOutcomes <- MCBarterOutcomes
    ObservedSettlements <- MCSettlements
    ObservedInventories <- MCInventories
    Times = {1}
    MaxActions = 4
    MaxRestarts = 1
INVARIANTS TypeOK BudgetCoversCost FailedSpentNothing ClosedTradeIsWhole
CHECK_DEADLOCK FALSE
