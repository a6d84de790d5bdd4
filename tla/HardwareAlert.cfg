\* The durations are the code's, scaled: a tick is a second, the keepalive two,
\* and the link timeout the least that the keepalive's assumption allows.
SPECIFICATION Spec
CONSTANTS
  Levels = {"CRITICAL"}
  NO_DATA = "NO_DATA"
  Tests = {"TEST_GREEN"}
  None = "None"
  LinkTimeout = 6
  BootTime = 1
  Keepalive = 2
  Reconnect = 2
  ReadyTimeout = 2
  AckTimeout = 1
  TickSeconds = 1
  TestMax = 2
  OpenMax = 1
  WriteMax = 1
  MaxLines = 2
  Scenarios = {{"link", "reset", "crash", "stop"}, {"reset", "crash", "stop", "test"}}
INVARIANTS ClaimIsFresh BoardIsKept
