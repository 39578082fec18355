\* Setpoints, drops, restores, profiles, the slider and transients in any order; the bridge may end.
SPECIFICATION Spec
CONSTANTS
    Radix = 256
    MinSf = 0
    One = 2
    Base <- MCBase
    MaxCharge = 3
    MaxDischarge = 3
    MinSoc = 1
    MaxSoc = 3
    Socs = {1, 3}
    Setpoints <- MCSetpoints
    Factors = {1, 2}
    Irradiances = {1}
    Demands = {4}
    Disturbances = 3
    Nan = Nan
    None = None
INVARIANTS
    SignsAgree
    Served
    
CHECK_DEADLOCK FALSE
