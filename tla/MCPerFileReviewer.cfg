SPECIFICATION FairSpec
CONSTANTS
  Files = {f1, f2, f3, f4}
  MAX_FILES_PER_AGENT = 3
  MAX_CONCURRENT_FILES_PER_AGENT = 2
INVARIANTS
  NoPermitIsLost
  IndicesFollowCompletion
  CountersAgree
PROPERTIES
  PassReturns
CHECK_DEADLOCK FALSE
