SPECIFICATION MCSpec
CONSTANTS
    MaxStarts = 2
    MaxItem = 3
    Recoverable = FALSE
    Command = {c1, c2}
    Dialog = {d1}
    Nobody = Nobody
    MaxPending = 2
    MaxQueue = 1
    MaxGeneration = 2
    Query = {r1}
    Probe = p
    MaxLine = 2
INVARIANTS KeepingExact CleanStart OperationsExact ProcessExact
PROPERTIES StopEnds DispatchCurrent CommitsCurrent TurnsReleased EndIsReported
CHECK_DEADLOCK FALSE
