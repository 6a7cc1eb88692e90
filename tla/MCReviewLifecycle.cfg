SPECIFICATION FairSpec
CONSTANTS
  MAX_CYCLES = 3
  Checkpointer = TRUE
  Resumes = {resume1, resume2}
  OneAtATime = TRUE
  MaxCrashes = 1
  NoTask = NoTask
INVARIANTS
  RegistryTracksTask
  SnapshotLifetime
  TerminalEnvelopes
  ReportIsDelivered
  NoticesAreTrue
  
PROPERTIES
  EveryTaskEnds
  ThreadImplementsContract
CHECK_DEADLOCK FALSE
