SPECIFICATION BothSpec
CONSTANTS
    Problems = {p1, p2}
    Manual = manual
    Nothing = nothing
    NoProgressLimit = 2
    SupplementLimit = 2
    MaxScore = 0
    Cooldown = 2
    MaxMoment = 3
    MaxIncidents = 1
    CI_SHARDS = 2
    Suites <- MCSuites
    MaxRuns = 1
    MaxChanges = 1
INVARIANTS SuiteIsReal
PROPERTIES LedgerIsTrue AutopilotCycleEnds
