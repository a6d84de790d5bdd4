\* The script's own times, in rounds of 15 s, and one camera more than rounds
\* between two retries of one.
SPECIFICATION Spec
CONSTANTS
    Processes = {1}
    Cameras = {1, 2, 3, 4, 5}
    UnhealthyRestart = 3
    CameraGrace = 3
    CameraRetryEvery = 4
    MaxMoves = 0
PROPERTY EveryCameraIsRetried
CHECK_DEADLOCK FALSE
