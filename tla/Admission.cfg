SPECIFICATION AdmissionSpec
CONSTANTS
    Exec = {e1, e2, e3}
    Task = {t1, t3}
    Project = {p1, p2}
    Scope = {"a", "b", "c"}
    p1 = p1
    p2 = p2
    t1 = t1
    t2 = t2
    t3 = t3
    Home <- MCHome
    Manifest <- MCManifest
    Concurrency = 2
    FixedCost = 0
    HardCap = 0
    AttemptCap = 0
    MaxTurns = 1
    MaxFaults = 1
    Stoppable = {p1}
    Stallable = {p2}
    None = None
    Unset = unset
    Nobody = nobody
    HasTeam = TRUE
    Engines = {g1, g2}
    Rotation <- MCRotation
    Subscriptions <- MCSubscriptions
    ZeroCost = {g2}
    Cap <- MCCap
    MaxLosses = 1
    g1 = g1
    g2 = g2
    MinRun = 2
    MinSamples = 3
    WeightSamples = 2
    MaxSlots = 4
    Window = 1
    MaxDay = 2
    MaxRows = 3
    Tasks = {h1}
    Workers = {w1, w2}
    Consoles = {n1, n2}
    MaxDeaths = 1
    MaxCommands = 2
    NoCaller = nocaller
    Callers = {c1, c2}
    k1 = k1
    k2 = k2
    Keys = {k1, k2}
    Route <- MCRoute
    MaxAttempts = 2
    Cooldown = 1
    MaxTime = 2
    MaxDamages = 1
SYMMETRY Interchangeable
INVARIANTS NoDoubleMerge CallsAreSafe
PROPERTIES HandoverIsSafe KeepsPromise LimitsKept
\* Execution identifiers run out, and so do days.
CHECK_DEADLOCK FALSE
