SPECIFICATION MCSpec
CONSTANTS
    TrackCount = 2
    Zones = {"queue", "hall"}
    Queue = "queue"
    AtCounter = "counter"
    InLine = "line"
    Window = 3
    Grace = 2
    MaxGap = 6
    Overlap = 1
    Slack = 1
    Never = Never
    DefaultActive = 1
    TotalCounters = 1
    MaxTime = 6
    LineTime = 4
    EditTime = 1
    MaxSpacing = 2
    MaxSessions = 2
    Unmeasured = Unmeasured
    MaxEdits = 2
INVARIANT ZonesAreCounted
PROPERTIES QueueIsMeasured FiguresAreExplained
CHECK_DEADLOCK FALSE
