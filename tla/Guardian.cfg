SPECIFICATION BothSpec
CONSTANTS
    Daemons = {d1}
    Watchers = {grd}
    None = None
    Bare = bare
    Stale = 0
    Watchdog = 1
    Grace = 1
    HardCap = 0
    MaxAge = 1
    MaxFaults = 1
    MaxEvents = 1
    Retries = 1
    Configs = {"trusted", "custom"}
    Custom = {"custom"}
    MaxChanges = 2
    MaxAccidents = 1
INVARIANT EvidenceIsReal
PROPERTIES PausedIsIdle ProtectedSpared
