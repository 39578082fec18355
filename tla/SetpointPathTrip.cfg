\* After a trip the flexible load stays shed.
SPECIFICATION Spec
CONSTANTS
    Mitigations = {"flexible_load"}
    SafeClasses = {"battery", "flexible_load"}
    MaxVal = 1
    MaxAge = 1
    Timeout = 2
    CycleMax = 1
    ControlPeriod = 1
    Transit = 0
    Faults = {"pause"}
    MaxSeq = 3
    MaxRuns = 0
    MaxNet = 2
    None = None
INVARIANTS
    Agreement
