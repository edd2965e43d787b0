SPECIFICATION Spec
CONSTANTS
    Exec = {e1, e2}
    Task = {t1, t2}
    Project = {p1, p2}
    Scope = {"a", "b", "c"}
    p1 = p1
    p2 = p2
    t1 = t1
    t2 = t2
    t3 = t3
    Home <- MCHome
    Manifest <- MCManifest
    Concurrency = 2
    FixedCost = 0
    HardCap = 0
    AttemptCap = 0
    MaxTurns = 1
    MaxFaults = 1
    Stoppable = {p1}
    Stallable = {}
    None = None
INVARIANTS NoOrphanRow
\* Execution identifiers run out.
CHECK_DEADLOCK FALSE
