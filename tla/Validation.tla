----------------------------- MODULE Validation -----------------------------
(***************************************************************************)
(* validation.Validate as the loop it is: the code walks over the packs of *)
(* a config once, remembering the ones it has seen in seenPacks and        *)
(* collecting errors in allErrs.  One step is one iteration of the loop.   *)
(* The config is chosen in the initial state and never changes.            *)
(*                                                                         *)
(* The controller and the webhook modules use the closed form              *)
(* ValidationErrors of PackConfig; LoopComputesErrors says that the loop   *)
(* computes it.                                                            *)
(***************************************************************************)
EXTENDS PackConfig

CONSTANT Configs            \* the configs to validate, sequences of packs

ASSUME ConfigsType == Configs \subseteq Seq(PackSpec)

VARIABLES
    packs,      \* cfg.Spec.Packs
    idx,        \* the pack that is next; 0 before the check for no packs
    seenPacks,  \* the names of the packs seen so far, in order
    allErrs     \* the errors collected so far

vars == <<packs, idx, seenPacks, allErrs>>

Init == /\ packs \in Configs
        /\ idx = 0
        /\ seenPacks = <<>>
        /\ allErrs = {}

\* The check before the loop.
CheckNoPacks ==
    /\ idx = 0
    /\ idx' = 1
    /\ allErrs' = IF Len(packs) = 0 THEN {Error("no packs", 0, 0)} ELSE {}
    /\ UNCHANGED <<packs, seenPacks>>

\* Mutated: the last entry with the name.
LastSeenIdx(name) ==
    {j \in DOMAIN seenPacks :
        seenPacks[j] = name /\ \A m \in (j + 1)..Len(seenPacks) : seenPacks[m] # name}

\* slices.IndexFunc over seenPacks: the first entry with the name, if any.
SeenIdx(name) ==
    {j \in DOMAIN seenPacks :
        seenPacks[j] = name /\ \A m \in 1..(j - 1) : seenPacks[m] # name}

\* Mutated: packs of one name are duplicates only if they have one version.
ValidatePackByVersion ==
    LET pack == packs[idx] IN
    /\ idx \in DOMAIN packs
    /\ allErrs' = allErrs
          \cup (IF pack.name = "" THEN {Error("empty name", idx, 0)} ELSE {})
          \cup (IF pack.version = "" THEN {Error("empty version", idx, 0)} ELSE {})
          \cup {Error("duplicate", idx, j) :
                   j \in {j \in SeenIdx(pack.name) : packs[j].version = pack.version}}
          \cup {Error("empty ref", idx, j) :
                   j \in {j \in DOMAIN pack.patches : pack.patches[j] = ""}}
    /\ seenPacks' = Append(seenPacks, pack.name)
    /\ idx' = idx + 1
    /\ UNCHANGED packs

\* The body of the loop.  The pack is remembered whether or not it is valid,
\* so an index into seenPacks is an index into the packs of the config.
ValidatePack ==
    LET pack == packs[idx] IN
    /\ idx \in DOMAIN packs
    /\ allErrs' = allErrs
          \cup (IF pack.name = "" THEN {Error("empty name", idx, 0)} ELSE {})
          \cup (IF pack.version = "" THEN {Error("empty version", idx, 0)} ELSE {})
          \cup {Error("duplicate", idx, j) : j \in SeenIdx(pack.name)}
          \cup {Error("empty ref", idx, j) :
                   j \in {j \in DOMAIN pack.patches : pack.patches[j] = ""}}
    /\ seenPacks' = Append(seenPacks, pack.name)
    /\ idx' = idx + 1
    /\ UNCHANGED packs

Returned == idx = Len(packs) + 1

Next == CheckNoPacks \/ ValidatePack

Spec == Init /\ [][Next]_vars

-----------------------------------------------------------------------------
TypeOK == /\ packs \in Seq(PackSpec)
          /\ idx \in 0..(Len(packs) + 1)
          /\ seenPacks \in Seq(Name \cup {""})
          /\ \A e \in allErrs : e.idx \in 0..Len(packs)

\* When the loop of Validate is over, the errors it returns are exactly the
\* ones of the closed form: in particular every later pack of the same name
\* is reported, together with the FIRST pack of that name.
LoopComputesErrors == Returned => allErrs = ValidationErrors(packs)

\* A config for which Validate returns no error installs no pack twice, not
\* even in two versions (the NOTE in the loop), and has no field that the
\* controller would use while it is empty.
AcceptedIsWellFormed ==
    Returned /\ allErrs = {} =>
        /\ packs # <<>>
        /\ \A i, j \in DOMAIN packs : packs[i].name = packs[j].name => i = j
        /\ \A i \in DOMAIN packs :
              /\ packs[i].name \in Name \ {""}
              /\ packs[i].version \in Version \ {""}
              /\ \A p \in DOMAIN packs[i].patches : packs[i].patches[p] \in Ref \ {""}
=============================================================================
