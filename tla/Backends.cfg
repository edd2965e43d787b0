SPECIFICATION BackendsSpec
CONSTANTS
    Exec = {e1, e2}
    Task = {t2, t3}
    QueueTasks = {t1, t2, t3}
    Project = {p1, p2}
    Scope = {"a", "b", "c"}
    p1 = p1
    p2 = p2
    t1 = t1
    t2 = t2
    t3 = t3
    Home <- MCHome
    Manifest <- MCManifest
    Concurrency = 2
    FixedCost = 1
    HardCap = 2
    AttemptCap = 3
    MaxTurns = 2
    MaxFaults = 0
    Stoppable = {p1}
    Stallable = {}
    None = None
    Driver = {d1}
    Operator = {o1}
    High = {h1}
    Fp = {f1}
    MaxRounds = 2
    SameLimit = 1
    MaxOrders = 1
    MaxErrors = 1
INVARIANT NoOrphanRow
PROPERTIES LedgerIsSound QueueMoves DriveEnds
\* Execution identifiers run out, and so do the operators' orders.
CHECK_DEADLOCK FALSE
