SPECIFICATION Spec
CONSTANTS
  Requests = {r1, r2}
  Findings = {f1, f2, f3}
  Others = {minor}
  MAX_EXPLOIT_PROPOSALS = 2
  MaxPosts = 4
  MaxSaves = 1
SYMMETRY RequestSymmetry
INVARIANTS
  ServedInSequence
  OverrunIsBounded
PROPERTIES
  NoLostUpdate
CHECK_DEADLOCK FALSE
