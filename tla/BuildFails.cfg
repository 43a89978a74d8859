SPECIFICATION Spec
CONSTANTS
    Version = {"v1", "v2"}
    File = {"a", "b"}
    Nested = {"n"}
    Content = {"x", "y"}
    Desc = {"d", "e", ""}
    Specs <- MCFlatSpecs
    MaxEdits = 0
    MaxFails = 1
CHECK_DEADLOCK FALSE
INVARIANT BuiltMeansPackaged
