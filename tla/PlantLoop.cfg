\* Powers in 25 kW (battery 500 kW, feed limit 300 kW, slew 200 kW/s), Kp = Ki = 0.5.
SPECIFICATION FairSpec
CONSTANTS
    Gain = 2
    KpN = 1
    KiN = 1
    Period = 1
    SlewStep = 8
    MaxCharge = 20
    MaxDischarge = 20
    MinSoc = 10
    MaxSoc = 190
    MinWarn = 50
    MaxWarn = 170
    One = 1000
    Deadband = 10
    LoadMinDerate = 300
    PvMinDerate = 0
    MaxFeed = 12
    Capacity = 200
    Peak = 40
    MaxKva = 40
    Sky = 4
    Loads = {4, 28}
    Irradiances = {0, 4}
    Targets <- Setpoints
    Energies = {40, 160}
    Fs <- Frequencies
    DPs <- Corrections
    Freqs = {500, 504}
    TrackPct = 100
    Tolerance = 1
    Modes = {"HOLD", "SAFE"}
    Disturbances = 2
INVARIANTS
    NoWindup
    OutsideIsBrief
PROPERTIES
    Settles
    ExportHeld
