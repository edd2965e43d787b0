SPECIFICATION GithubSpec
CONSTANTS
    None = None
    Publish = TRUE
    AltRetry = TRUE
    MaxRuns = 2
    MaxControl = 2
    MaxReads = 2
    MaxChanges = 3
    MaxOps = 2
    MaxFaults = 2
    MaxRepo = 4
    Busy = {1, 2, 4}
    Churn = {1, 4}
    MaxLosses = 3
INVARIANTS WorkStartsClean PrVerified
PROPERTIES IssueRests EachServed
\* An issue that is at rest stays there when no more operators come.
CHECK_DEADLOCK FALSE
