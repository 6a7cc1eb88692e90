SPECIFICATION FairSpec
CONSTANTS
  p1 = p1
  p2 = p2
  p3 = p3
  v1 = v1
  v2 = v2
  Packages = {p1, p2, p3}
  Advisories = {v1, v2}
  NoScore = NoScore
  Score <- MCScore
  MaxManifests = 2
  Contents <- MCContents
  Answers <- MCAnswers
  BatchSize = 2
INVARIANTS
  FindingsAreExact
  VerdictIsEarned
PROPERTY PassEnds
CHECK_DEADLOCK FALSE
