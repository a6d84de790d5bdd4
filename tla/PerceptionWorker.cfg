SPECIFICATION MCSpec
CONSTANTS
    Addrs = {a1, a2}
    NoSource = NoSource
    MaxRestarts = 1
    MaxFailures = 2
    Finite = TRUE
    Fleet <- MCFleet
    MaxWindows = 2
    MaxReports = 1
    Turns = 4
    Nothing = 0
INVARIANTS LoopIsOwned EditIsHeeded StateIsTrue LifespanIsOrderly
PROPERTIES StopsEnd FaultsHeal
\* A backend that has closed, or could not open, stays so.
CHECK_DEADLOCK FALSE
