\* The real catalog, in words of eleven bits: enough for the model ids, and an
\* int16 is -1024 .. 1023, an int32 -2^21 .. 2^21 - 1, the end model is 2047.
SPECIFICATION MapSpec
CONSTANTS
    Radix = 2048
    MinSf <- Lowest
    MapBase = 1
    EndId = 2047
    MaxModels = 5
    Devices <- AsBuilt
    Values <- Sent
    Absent = Absent
INVARIANTS
    WalkRecovers
    Verdict
    CommandUnderstood
CHECK_DEADLOCK FALSE
