\* One request or remote stop; the user, the controller or one failure stop the agent.
SPECIFICATION Spec
CONSTANTS
    IDs = {a1}
    Bodies = {b1}
    Calls = {k1}
    FilterClass <- MCDistinct
    MaxTombstones = 1
    MaxResults = 1
    Stoppers = {"user", "controller"}
    MaxFailures = 1
    MaxConns = 2
    MaxWaiting = 1
    Nothing = Nothing
PROPERTY StopIsHeeded
CHECK_DEADLOCK FALSE
