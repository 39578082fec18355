\* The ladder and the cycle over readable, unusable and unreadable data.
SPECIFICATION FairSpec
CONSTANTS
    MaxKw = 2
    MaxKvar = 1
    Step = 1
    Full = 1
    HoldMax = 2
    Period = 1
    None = None
INVARIANTS
    WireAgrees
    SafeReleases
PROPERTIES
    SlewLimited
    NoNewCommandOnBadData
    FrozenCommandBounded
    FreshEndsRun
    BadDataEndsSafe
