SPECIFICATION RepFairSpec
CONSTANTS
    Name = {"foo", "bar"}
    Version = {"v1", "v2"}
    Ref = {"r"}
    Value = {"p"}
    Releases <- MCReleases
    Shoots <- MCShoots
    MaxEdits = 2
    MaxFaults = 1
    Sound = {1, 2}
    LeaderElection = TRUE
    MaxRestarts = 2
CHECK_DEADLOCK FALSE
PROPERTY
    RepConverges ImplementsActuator
INVARIANT RepTypeOK
