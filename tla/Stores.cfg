SPECIFICATION StoresSpec
CONSTANTS
    Runs = {e1, e2}
    Hosts = {h1, h2}
    Tasks = {t3}
    None = None
    Capacity = 2
    MaxFaults = 1
    Daemon = d
    Users = {u}
    t1 = t1
    t2 = t2
    MaxLines = 3
    MaxAsks = 1
    MaxLosses = 1
INVARIANTS WorkersAccounted WritesAreCurrent
PROPERTIES CancellationStops Converges
\* Identities of executions run out, and so do requests to append.
CHECK_DEADLOCK FALSE
