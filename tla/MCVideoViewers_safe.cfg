SPECIFICATION FairVideoSpec
CONSTANTS
  Conns = {c1}
  Tokens = {t1}
  Methods <- MCMethods
  TrialContext <- MCTrial
  FullContext <- MCFull
  MaxUnits = 1
  None = None
  Viewers = {v1}
  MaxStreams = 1
  MaxPosted = 1
INVARIANTS GrantsAreEntitled ClosedSessionsRaced OnlyLateViewersLinger
PROPERTY ClosedViewersLeave
CHECK_DEADLOCK FALSE
