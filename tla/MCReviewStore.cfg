SPECIFICATION FairSpec
CONSTANTS
  f = f
  g = g
  Blank = Blank
  Tasks = {k1, k2}
  Readers = {r1}
  Threads = {t1, t2}
  Findings = {f, g, Blank}
  States <- MCStates
  PoolSize = 2
  BatchSize = 2
  NoOne = NoOne
  NoVector = NoVector
INVARIANTS
  VectorsAreOwn
  ReadsOneSave
PROPERTIES
  SavesAreAtomic
  EveryoneIsServed
CHECK_DEADLOCK FALSE
