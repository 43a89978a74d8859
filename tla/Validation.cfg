SPECIFICATION Spec
CONSTANTS
    Name = {"foo", "bar"}
    Version = {"v1", "v2"}
    Ref = {"r"}
    MaxPacks = 3
    Configs <- AllConfigs
CHECK_DEADLOCK FALSE
INVARIANTS
    TypeOK
    LoopComputesErrors
    AcceptedIsWellFormed
