SPECIFICATION DaemonsSpec
CONSTANTS
    Proc = {p1, p2, p3}
    MaxFaults = 2
    None = None
    Bare = bare
    Daemons = {d1, d2}
    Watchers = {w1}
    Stale = 0
    Watchdog = 1
    Grace = 2
    HardCap = 1
    MaxAge = 2
    MaxLosses = 1
    Sups = {s1, s2}
    Byhand = hand
    MaxStarts = 3
    MaxDeaths = 2
INVARIANTS MarkersHold OneDaemonWorks OneRun
PROPERTIES IsExclusiveLock LeaseIsTaken Recovers
