SPECIFICATION Spec
CONSTANTS
  Threads = {t1, t2}
  NoThread = NoThread
  Retries = 2
  MaxSelections = 3
  MaxShots = 2
  MaxErrors = 1
SYMMETRY ThreadSymmetry
INVARIANTS
  PageIsTrue
CHECK_DEADLOCK FALSE
