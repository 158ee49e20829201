SPECIFICATION MCSpec
CONSTANTS
  Handle = {p, c}
  Runtime = {a, b}
  None = None
  First = p
  FirstRuntime = a
  ReplayLimit = 1
  Happens = {}
  MaxSeq = 2
  MaxGeneration = 2
  MaxRevision = 1
  MaxInbox = 2
  MaxBuffer = 2
INVARIANTS ViewsExact LeasesExact FollowerServed
CHECK_DEADLOCK FALSE
