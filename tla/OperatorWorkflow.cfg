SPECIFICATION MCSpec
CONSTANTS
    EscalateWindows = 2
    DeEscalateWindows = 3
    RecoveryWindows = 3
    Scenes <- MCScenes
    Said <- MCSaid
    Interval = 2
    Filling = 1
    Total = 3
    Arrivals = {0, 1, 3, 7}
    Abandonments = {0, 1}
    PerCounter = 2
    MaxQueue = 20
    Horizon = 5
    Target = 5
    CloseTarget = 3
    Ahead <- MCAhead
    MaxJitter = 1
    MaxMinutes = 5
    Never = Never
INVARIANTS PhaseIsSound PanelAgrees GuidanceStands PlansHold
PROPERTIES ChangesAreEarned ReportsAreEarned WorkflowCatchesUp
