\* Two executions one after the other, two monetary actions between them.
SPECIFICATION Spec
CONSTANTS
    x1 = x1  x2 = x2  raw = raw  made = made  o1 = o1  o2 = o2
    NoOrder = NoOrder  NoSettlement = NoSettlement  NoSaga = NoSaga
    NoExecution = NoExecution  NoCheckpoint = NoCheckpoint
    Executions <- MCExecutions
    Items <- MCItems
    Orders = {o1, o2}
    Plans <- MCDirectFlip
    MaxStepAttempts = 1
    ObservedOutcomes <- MCFewOutcomes
    ObservedSettlements <- MCOneSettlement
    ObservedInventories <- MCOneInventory
    Times = {1}
    MaxActions = 2
    MaxRestarts = 1
INVARIANTS OneActiveSaga HoldingsInInventory
PROPERTIES TerminalIsFinal DurableHistory
SYMMETRY Symmetry
CHECK_DEADLOCK FALSE
