\* One class over restarts and broker outages on both sides, with late messages.
SPECIFICATION FairSpec
CONSTANTS
    Mitigations = {}
    SafeClasses = {"battery"}
    MaxVal = 1
    MaxAge = 1
    Timeout = 2
    CycleMax = 1
    ControlPeriod = 1
    Transit = 0
    Faults = {"pause", "delay", "linkdown", "broker", "controller_restart", "core_restart"}
    MaxSeq = 1
    MaxRuns = 1
    MaxNet = 2
    None = None
INVARIANTS
    HandoverIsBounded
PROPERTIES
    SilenceEndsSafe
