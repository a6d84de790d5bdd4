SPECIFICATION MCSpec
CONSTANTS
    MaxId = 3
    Urls = {"a", "b"}
    Unset = "none"
    Primary = 1
    SeedUrl <- MCSeedUrl
    MaxEdits = 2
    MaxFailedSaves = 1
    MaxRestarts = 2
    Unreadable = Unreadable
    MaxDocumentEdits = 4
    MaxCrashes = 3
    Local = "usb"
    MaxMoves = 2
    Watched = {1, 2}
    StaleAfter = 1
    LateAfter = 1
    OfflineAfter = 2
    MaxSetBack = 1
    Names = {"desk", "gate"}
    Defaults <- MCDefaults
    Writes <- MCWrites
    Keep = 0
    MeasuredRate = 3
    MaxZoneEdits = 3
    Drawable = {"desk", "door"}
    Readings <- MCReadings
    MinRate = 1
    Unknown = Unknown
    Users = {ann, bob}
    Browsers = {desk, tablet}
    Ttl = 2
    CacheFor = 1
    MaxFailures = 2
    Lockout = 2
    MaxTrying = 2
    MaxSessions = 2
    Budgets <- MCBudgets
    Nothing = Nothing
INVARIANTS BookIsKept CamerasAreReported AccountsAreKept
PROPERTIES StreamsFollow DocumentIsKept HealthIsOfNow
CHECK_DEADLOCK FALSE
