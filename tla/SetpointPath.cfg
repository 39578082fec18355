\* Two classes; the controller may fall silent, core may restart, messages are lost and late.
SPECIFICATION Spec
CONSTANTS
    Mitigations = {"flexible_load"}
    SafeClasses = {"battery", "flexible_load"}
    MaxVal = 1
    MaxAge = 1
    Timeout = 2
    CycleMax = 1
    ControlPeriod = 1
    Transit = 0
    Faults = {"pause", "loss", "delay", "core_restart"}
    MaxSeq = 4
    MaxRuns = 1
    MaxNet = 2
    None = None
INVARIANTS
    TrippedIsSafe
PROPERTIES
    WritesAreRecent
    TripNeedsSilence
    DeadManSwitch
