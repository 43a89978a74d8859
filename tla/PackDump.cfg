SPECIFICATION Spec
CONSTANTS
    Version = {"v1", "v2"}
    File = {"a", "b", "kustomization.yaml"}
    Nested = {"n"}
    Content = {"x", "y"}
    Desc = {"d"}
    KFile = "kustomization.yaml"
    Trees <- MCTrees
    MaxRuns = 2
CHECK_DEADLOCK FALSE
INVARIANTS
    TypeOK
    ListedIsThere
    DumpedIsPack
    ChecksumsFit
