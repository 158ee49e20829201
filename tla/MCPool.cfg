SPECIFICATION MCSpec
CONSTANTS
    Task = {t1, t2}
    Closer = closer
    Handle = {h1, h2}
    Runtime = {r1, r2}
    None = None
    MaxHot = 1
    MaxRetained = 1
    Persisted = {h1}
    Requests = {"fork", "delete"}
SYMMETRY Symmetry
INVARIANTS WorkspaceReserved ProcessesTracked AdmittedWithinCap AwaitsAreAnswered
PROPERTY StopsLoseNothing
