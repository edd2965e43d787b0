SPECIFICATION Spec
CONSTANTS
    Problems = {p1, p2}
    Manual = manual
    None = None
    NoProgressLimit = 2
    SupplementLimit = 2
    MaxScore = 0
    Cooldown = 2
    MaxTime = 3
    MaxFaults = 2
PROPERTIES ManualKept
