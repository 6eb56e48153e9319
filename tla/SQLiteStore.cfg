SPECIFICATION Spec
CONSTANTS
    Callers = {c1, c2}
    Units <- MCUnits
    Nobody = Nobody
    NoUnit = NoUnit
    Filters <- MCFilters
    HasPrefix <- MCHasPrefix
    Like <- MCLike
    MaxCalls = 3
    MaxFaults = 1
    MaxCrashes = 1
INVARIANTS QueriesAgree CheckpointMatchesExecution AcknowledgedIsDurable
PROPERTIES ImplementsMemory EveryCallReturns
CHECK_DEADLOCK FALSE
