----------------------------- MODULE MCPackDump -----------------------------
(* PackDump from releases that keep, change, add and drop resources, sign    *)
(* them wrongly, or have a resource named like the kustomization.            *)
EXTENDS PackDump, FiniteSets

\* A directory with the given resources and their checksums.
Built(files) ==
    LET res == {f \in File : files[f] # None}
        order == CHOOSE s \in [1..Cardinality(res) -> res] :
                    \A x, y \in DOMAIN s : x # y => s[x] # s[y]
    IN  [files |-> [p \in Path |-> IF p \in File THEN files[p] ELSE None],
         desc |-> IF res = {} THEN None ELSE "d", eol |-> TRUE,
         sums |-> [k \in DOMAIN order |-> [path |-> order[k], sum |-> files[order[k]]]]]

MCDirs  == {Built(files) : files \in [File -> Content \cup {None}]}
Wrong   == [Built([f \in File |-> "x"]) EXCEPT !.files["a"] = "y"]

MCTrees == {[v \in Version |-> IF v = "v1" THEN d ELSE Built([f \in File |-> "y"])] :
               d \in MCDirs \cup {Wrong}}
=============================================================================
