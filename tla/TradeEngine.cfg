\* Two executions, each a direct flip or a contact barter; two crashes, three requests for TRADE.
SPECIFICATION Spec
CONSTANTS
    x1 = x1  x2 = x2  raw = raw  made = made  o1 = o1
    NoOrder = NoOrder  NoSettlement = NoSettlement  NoTrade = NoTrade  NoEvent = NoEvent
    Executions <- MCExecutions
    Items <- MCItems
    Orders = {o1}
    Plans <- MCBoth
    BarterOutcomes <- MCExchange
    ListingFees = {1}
    Sales <- MCBothSales
    MaxStepAttempts = 2
    Times = {1}
    MaxActions = 4
    MaxCrashes = 2
    MaxRequests = 3
INVARIANTS TypeOK OneUnfinishedCheckpoint
PROPERTIES BlockIsForever NothingAfterMismatch OnceAndAccounted BlockedSendsNothing
SYMMETRY Symmetry
CHECK_DEADLOCK FALSE
