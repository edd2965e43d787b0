SPECIFICATION DrivesSpec
CONSTANTS
    Driver = {d1, d2}
    Operator = {o1}
    High = {h1, h2}
    Fp = {f1}
    MaxRounds = 2
    SameLimit = 2
    MaxOrders = 2
    MaxFaults = 1
    None = None
    Hosts = {e1, e2}
    Bases = {b1, b2}
    Torn = torn
    MaxCommits = 1
    MaxLosses = 1
    Steps = 2
    MaxWork = 2
    MaxMain = 1
    MaxEvents = 2
SYMMETRY Interchangeable
INVARIANTS HighRiskApproved ProgressIsBacked CompletionIsOwn DoneIsProven
PROPERTY SavedIsJudged
\* An ended run, with the operators' orders spent, does nothing more.
CHECK_DEADLOCK FALSE
