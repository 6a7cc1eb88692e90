SPECIFICATION Spec
CONSTANTS
  Sockets = {s1}
  Producers = {p1, p2}
  MaxEvents = 5
  MaxMessages = 1
  MaxMishaps = 1
  Logs <- MCLogs
SYMMETRY StreamSymmetry
INVARIANTS
  ReplayMeetsLive
  LiveInProducerOrder
  OpenTabsAreServed
  SettledStays
  CaughtUpDrawsTheLog
CHECK_DEADLOCK FALSE
