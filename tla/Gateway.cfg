\* Three kinds of behaviour: an external EMS that may fall silent; one that keeps
\* its period while POSTs fail, hang or are served late and the controller
\* restarts; silence with lost messages, refused POSTs and gateway restarts.
SPECIFICATION FairSpec
CONSTANTS
    Values = {v1, v2}
    SelfKw = self
    ConfigKw = cfg
    Timeout = 9
    Interval = 1
    PostTimeout = 2
    NetDelay = 2
    Period = 6
    MaxNet = 2
    Scenarios = {{"silent"}, {"refuse", "late", "restart"}, {"silent", "lose", "refuse", "crash"}}
    None = None
INVARIANTS
    FollowsInTime
    TakesOverInTime
    UndisturbedInForce
PROPERTIES
    NoFalseTakeover
    SilenceEndsSelf
