SPECIFICATION MCSpec
CONSTANTS
  MaxAttempts = 3
  MaxDelay = 2
  StaleAfter = 2
  DeadAfter = 4
  Analyses <- MCAnalyses
  Interval = 2
  MaxBacklog = 2
INVARIANTS ConnectionIsSound DisplayIsHonest BoardIsTrue
PROPERTIES KeepsTrying BoardCatchesUp
