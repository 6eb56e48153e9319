SPECIFICATION Spec
CONSTANTS
    Inputs <- MCInputs
    NumItems = 4
    MaxInt = 63
    MaxDepth = 3
    MaxExpansions = 8
    QuoteTTL = 3
    EvaluatedAt = 2
    MaxTime = 4
    NoQuote = NoQuote
    NoPlan = NoPlan
    NoAmount = NoAmount
INVARIANTS AmountsAreExact PlansAreExecutable MultistepIsCheapest BegunWithinLimits
CHECK_DEADLOCK FALSE
