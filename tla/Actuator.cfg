SPECIFICATION FairSpec
CONSTANTS
    Name = {"foo", "bar"}
    Version = {"v1", "v2"}
    Ref = {"r"}
    Value = {"p"}
    Releases <- MCReleases
    Shoots <- MCAllShoots
    MaxEdits = 3
    MaxFaults = 2
CHECK_DEADLOCK FALSE
INVARIANTS
    TypeOK
    Inductive
    DeliverBeforeWithdraw
    SuccessWithdrawsTheRest
    DeleteWithdrawsAll
    GoneMeansWithdrawn
    LiveHasData
PROPERTY
    TakenDownOnRequest Converges DeletionCompletes MigrationCompletes ImplementsPackStore
