SPECIFICATION Spec
CONSTANTS
    Version = {"v1", "v2"}
    File = {"a", "b"}
    Nested = {"n"}
    Content = {"x", "y"}
    Desc = {"d", "e", ""}
    Specs <- MCSpecs
    MaxEdits = 2
    MaxFails = 1
CHECK_DEADLOCK FALSE
INVARIANTS
    TypeOK
    ReleasedIsBuilt
    RebuildHeals
