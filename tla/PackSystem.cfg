SPECIFICATION SysFairSpec
CONSTANTS
    Name = {"foo", "bar"}
    Version = {"v1", "v2", "v9"}
    Ref = {"r"}
    Value = {"p"}
    Releases <- MCTwoReleases
    Shoots <- MCShoots
    MaxEdits = 3
    MaxFaults = 2
CHECK_DEADLOCK FALSE
INVARIANTS
    RejectsOnlySkewed NeverLockedOut
PROPERTY InstallsWhatWasAdmitted RunsLatestBuild
