\* Calm behaviours, and those with two requests at once and cycles that may
\* outlast the join.
SPECIFICATION FairSpec
CONSTANTS
    Requests = {r1, r2}
    Threads = {t1, t2}
    Period = 1
    JoinTimeout = 3
    MaxCycle = 3
    CalmCycle = 2
    None = None
INVARIANTS
    CalmIsSafe
PROPERTIES
    CommitWhenStopped
    NoBurst
    RequestsEnd
