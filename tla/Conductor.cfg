SPECIFICATION FairSpec
CONSTANTS
    Task = {t1, t2}
    Capped = {t1}
    Timed = {t1}
    Fp = {"a"}
    MaxRetries = 1
    MaxTotal = 2
    MaxExec = 2
    MaxHead = 1
    MaxFaults = 1
    None = None
    t1 = t1
    t2 = t2
INVARIANTS WorkersAreFenced BillStopsTask
PROPERTIES RunEnds
