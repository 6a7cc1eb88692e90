SPECIFICATION TrailSpec
CONSTANTS
  Requests <- MCRequests
  Answers <- MCAnswers
  MAX_FILES_PER_AGENT = 2
  MAX_REPO_FILES_HARD = 4
  MAX_CYCLES = 2
  MAX_EXPLOIT_PROPOSALS = 2
  MaxPosts = 3
INVARIANTS
  ReportAndRowAgree
  PanelIsServed
  TldrIsGrounded
  RefusalsMatchScope
  EveryFileIsAccountedFor
CHECK_DEADLOCK FALSE
