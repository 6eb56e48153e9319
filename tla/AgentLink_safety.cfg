\* Three requests on two connections over two actions; the agent remembers one.
SPECIFICATION Spec
CONSTANTS
    IDs = {a1, a2}
    Bodies = {b1}
    Calls = {k1, k2, k3}
    FilterClass <- MCDistinct
    MaxTombstones = 1
    MaxResults = 1
    Stoppers = {}
    MaxFailures = 4
    MaxConns = 2
    MaxWaiting = 1
    Nothing = Nothing
INVARIANTS MemoryIsSound ClickedOnce AnswersAreTrue
SYMMETRY MCSymmetry
VIEW MCView
CHECK_DEADLOCK FALSE
