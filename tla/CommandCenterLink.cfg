SPECIFICATION MCSpec
CONSTANTS
  Phases = {"monitoring", "observing"}
  Monitoring = "monitoring"
  Healths = {"healthy", "warning"}
  SnapshotLimit = 1
  MaxEntries = 2
  MaxBacklog = 2
  Sequence <- MCSequence
  Areas = {"hall", "gate"}
  People = {p1, p2}
  MaxAge = 1
  RaiseAfter = 2
  ResolveAfter = 3
  Nothing = Nothing
  MaxStep = 2
  MaxTime = 5
INVARIANTS ClientAgrees FiguresAreWhole
PROPERTIES ShowsWhatLasts TimelineIsEarned
