SPECIFICATION Spec
CONSTANTS
  NoFrame = NoFrame
  MaxSessions = 3
  MaxSeq = 1
  MaxSources = 2
  MaxSkip = 1
INVARIANTS SessionsStayApart
PROPERTIES ShowsWhatItHolds OperatorReturns
CHECK_DEADLOCK FALSE
