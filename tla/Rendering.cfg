SPECIFICATION Spec
CONSTANTS
    Word = {"patch", "ref", "a", "b", "c", "ns", "dep", "svc"}
    Ref <- MCRef
    Key <- MCKey
    Kind = {"Namespace", "Deployment", "Service"}
    ObjName = {"a", "b"}
    Field <- MCField
    Val = {"pack", "one", "two", "ours"}
    Ours = "ours"
    Inputs <- MCInputs
CHECK_DEADLOCK FALSE
INVARIANTS
    TypeOK
    HasAllPatchesIfNamesDiffer
    DeliversPatchedPack
