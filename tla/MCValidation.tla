---------------------------- MODULE MCValidation ----------------------------
(* Validation on every config of up to MaxPacks packs over two names, two    *)
(* versions and one reference, empty strings included.                       *)
EXTENDS Validation

CONSTANT MaxPacks

BoundedPackSpec ==
    [name    : Name \cup {""},
     version : Version \cup {""},
     patches : {<<>>} \cup {<<r>> : r \in Ref \cup {""}}]

AllConfigs == UNION {[1..n -> BoundedPackSpec] : n \in 0..MaxPacks}
=============================================================================
