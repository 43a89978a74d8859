SPECIFICATION Spec
CONSTANTS
    Name = {"foo", "bar"}
    Version = {"v1", "v2"}
    Ref = {"r"}
    Value = {"p"}
    Releases <- MCDropsPack
    Shoots <- MCShoots
    MaxEdits = 3
    MaxFaults = 1
CHECK_DEADLOCK FALSE
INVARIANT DeleteWithdrawsAll
