\* One execution of a direct flip, partial steps included, a clock that moves.
SPECIFICATION Spec
CONSTANTS
    x1 = x1  x2 = x2  raw = raw  made = made  o1 = o1  o2 = o2
    NoOrder = NoOrder  NoSettlement = NoSettlement  NoSaga = NoSaga
    NoExecution = NoExecution  NoCheckpoint = NoCheckpoint
    Executions <- MCOneExecution
    Items <- MCItems
    Orders = {o1, o2}
    Plans <- MCDirectFlip
    MaxStepAttempts = 2
    ObservedOutcomes <- MCFlipOutcomes
    ObservedSettlements <- MCSettlements
    ObservedInventories <- MCOneInventory
    Times = {1, 2}
    MaxActions = 4
    MaxRestarts = 0
INVARIANTS FactsExplainSaga AnswerIsNew CheckpointsReplay
CHECK_DEADLOCK FALSE
