\* Overlapping PUTs with the signals alone; and, with the backstop, everything
\* that may go wrong. Both services may be left with nothing to do.
SPECIFICATION FairSpec
CHECK_DEADLOCK FALSE
CONSTANTS
    Kinds <- BothKinds
    Requests = {r1, r2}
    Flaws = {"none", "raw", "core"}
    MaxPut = 2
    MaxFault = 1
    Worlds = {{"overlap", "controller_crash"},
              {"backstop", "lose", "session", "unreachable", "core_crash", "controller_crash"}}
    None = None
INVARIANTS
    CoreAgrees
    LastKnownGood
PROPERTY
    Converges
