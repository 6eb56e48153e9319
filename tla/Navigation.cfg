\* A navigation or a purchase over three screens; one retry, two drifts.
SPECIFICATION Spec
CONSTANTS
    Screens = {"stash", "market", "lot"}
    Values = {1, 2}
    Unknown = Unknown
    Nothing = Nothing
    MaxDrifts = 2
    Graphs <- MCGraphs
    Target = "lot"
    Classes = {"NAVIGATION", "PURCHASE"}
    Agreed = 1
    MaxFrames = 3
INVARIANTS ShortestSafeRoute OneInputPerTransition MoneyOnAcceptedValues StopsMidSequence SuccessIsComplete
CHECK_DEADLOCK FALSE
