\* The controller publishes every period over a network that delivers in time; the bounded run ends when MaxSeq messages are out.
SPECIFICATION Spec
CONSTANTS
    Mitigations = {"flexible_load"}
    SafeClasses = {"battery", "flexible_load"}
    MaxVal = 1
    MaxAge = 1
    Timeout = 3
    CycleMax = 1
    ControlPeriod = 1
    Transit = 0
    Faults = {"dup"}
    MaxSeq = 5
    MaxRuns = 0
    MaxNet = 2
    None = None
INVARIANTS
    Agreement
PROPERTIES
    LiveLoopIsHeard
CHECK_DEADLOCK FALSE
