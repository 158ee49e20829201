\* One Session with two runtimes, and two Sessions that one process forks between.
CONSTANTS
    Handle = {h1, h2}
    Conn = {c1, c2}
    Runtime = {r1, r2}
    None = None
    MaxRevision = 4
    MaxGeneration = 2
    MaxToken = 3
    MaxForkToken = 2
SPECIFICATION MCSpec
SYMMETRY Symmetry
INVARIANTS LeaseInv SpentStaysSpent DisconnectReleasesAll
PROPERTIES RevisionOrdersOwners TakeoverReplacesObserved ImplementsRegister
CHECK_DEADLOCK FALSE
