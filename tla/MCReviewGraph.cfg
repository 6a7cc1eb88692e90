SPECIFICATION FairSpec
CONSTANTS
  MAX_CYCLES = 3
  Checkpointer = TRUE
  Roles = {dependency, injection, owasp}
INVARIANTS
  LoopIsBounded
  RerunsAreAskedFor
  ReportCoversScope
  AmbiguityWasAsked
PROPERTIES
  ComesToRest
  ImplementsContract
CHECK_DEADLOCK FALSE
