SPECIFICATION Spec
CONSTANTS
    Name = {"foo", "bar"}
    Version = {"v1", "v2"}
    Ref = {"r"}
    Value = {"p"}
    Releases <- MCTwoVersions
    Shoots <- MCShoots
    MaxEdits = 2
    MaxFaults = 0
CHECK_DEADLOCK FALSE
INVARIANT ConfiguredPacksInstalled
