SPECIFICATION MCSpec
CONSTANTS
    Keys = {cam, site}
    MaxWindows = 3
    LastWindow = 3
    MaxSetBacks = 1
    MaxStarts = 2
    Processes = {1, 2}
    Cameras = {1, 2}
    UnhealthyRestart = 2
    CameraGrace = 2
    CameraRetryEvery = 2
    MaxMoves = 2
INVARIANTS RowsAreRight
PROPERTIES KeepsTheLedger WorkIsResumed ProcessesAreKept
\* A supervisor that was stopped may stay so, and so may a recorder.
CHECK_DEADLOCK FALSE
