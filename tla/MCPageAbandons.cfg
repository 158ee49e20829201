SPECIFICATION DirectorySpec
CONSTANTS
  Session = {p, t, u}
  Workspace = {v, w}
  None = none
  Durable = p
  Opened = v
  Earlier = {t}
  MaxMoves = 4
  MaxRequests = 2
  Hot = {a, b}
  Nothing = Nothing
  Happens = {}
  MaxControl = 4
  MaxAhead = 1
  MaxAttempts = 2
  MaxBudget = 3
  MaxGeneration = 2
  MaxRevision = 3
PROPERTY AbandonsUntouched
CHECK_DEADLOCK FALSE
