SPECIFICATION GivenSpec
CONSTANTS
    Task = {t1, t2}
    Closer = closer
    Handle = {h1}
    Runtime = {r1, r2}
    None = None
    MaxHot = 1
    MaxRetained = 1
    Persisted = {h1}
    Requests = {"view", "delete"}
SYMMETRY Symmetry
INVARIANT NoneOpensDeleted
