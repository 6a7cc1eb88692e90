SPECIFICATION Spec
CONSTANTS
  MAX_CYCLES = 2
  Checkpointer = TRUE
  Resumes = {resume1, resume2}
  OneAtATime = TRUE
  MaxCrashes = 0
  NoTask = NoTask
SYMMETRY ResumeSymmetry
INVARIANTS
  EveryPassReadsCode
CHECK_DEADLOCK FALSE
