SPECIFICATION Spec
CONSTANTS
  MAX_CYCLES = 2
  Checkpointer = TRUE
  Resumes = {resume1, resume2}
  OneAtATime = FALSE
  MaxCrashes = 0
  NoTask = NoTask
SYMMETRY ResumeSymmetry
INVARIANTS
  ResumeIsPersisted
CHECK_DEADLOCK FALSE
