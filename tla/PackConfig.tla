----------------------------- MODULE PackConfig -----------------------------
(***************************************************************************)
(* The data that the webhook and the controller share: the provider config *)
(* of the extension (pkg/apis/config), its validation                      *)
(* (pkg/apis/config/validation), the collection of packs compiled into a   *)
(* release of the extension (pkg/assets) and the parts of a Shoot that     *)
(* either side looks at.  Everything here is a constant-level operator.    *)
(*                                                                         *)
(* Go's empty string is written "".  The target selector of a patch is     *)
(* left out: it is passed on to kustomize untouched and no decision is     *)
(* taken on it.                                                            *)
(***************************************************************************)
EXTENDS Integers, Sequences

CONSTANTS
    Name,       \* names of packs
    Version,    \* versions of packs
    Ref         \* names of referenced resources of a Shoot

-----------------------------------------------------------------------------
(* Packs and collections *)

\* A pack of a collection; its resources are identified with (name, version).
Asset == [name : Name, version : Version]

\* Collection.Packs is a slice; its order is the order of the delete loops.
Collection == Seq(Asset)

PackExists(coll, name, version) ==
    \E k \in DOMAIN coll : coll[k].name = name /\ coll[k].version = version

\* The names of a collection's packs.
NamesOf(coll) == {coll[k].name : k \in DOMAIN coll}

-----------------------------------------------------------------------------
(* The provider config *)

\* One entry of cfg.Spec.Packs; a patch is the name of a referenced resource.
PackSpec == [name    : Name \cup {""},
             version : Version \cup {""},
             patches : Seq(Ref \cup {""})]

\* ProviderConfig is nil, is there but rejected by the strict decoder, or
\* decodes to a PackConfig with the given packs.
Provider == [kind : {"nil", "undecodable", "config"}, packs : Seq(PackSpec)]

-----------------------------------------------------------------------------
(* validation.Validate *)

\* Mutated: the index of the next pack is reported.
ErrorAtNext(what, idx, at) == [what |-> what, idx |-> idx + 1, at |-> at]

\* An entry of the error list.  idx is the index of the pack, at the index of
\* the patch or of the earlier pack the message refers to, 0 where there is
\* none.
Error(what, idx, at) == [what |-> what, idx |-> idx, at |-> at]

\* The earlier packs that have the name of pack i.
EarlierNamesakes(packs, i) == {j \in 1..(i - 1) : packs[j].name = packs[i].name}

\* What is wrong with pack i: empty fields, a name that was used before (the
\* version does not matter), and patches without a reference.
ErrorsAt(packs, i) ==
    (IF packs[i].name = "" THEN {Error("empty name", i, 0)} ELSE {})
    \cup
    (IF packs[i].version = "" THEN {Error("empty version", i, 0)} ELSE {})
    \cup
    {Error("duplicate", i, j) : j \in {j \in EarlierNamesakes(packs, i) :
                                       \A m \in EarlierNamesakes(packs, i) : j <= m}}
    \cup
    {Error("empty ref", i, j) : j \in {j \in DOMAIN packs[i].patches :
                                       packs[i].patches[j] = ""}}

ValidationErrors(packs) ==
    (IF packs = <<>> THEN {Error("no packs", 0, 0)} ELSE {})
    \cup UNION {ErrorsAt(packs, i) : i \in DOMAIN packs}

IsValid(packs) == ValidationErrors(packs) = {}

-----------------------------------------------------------------------------
(* The Shoot *)

\* An entry of shoot.Spec.Resources: other stands for anything that is not a
\* v1 Secret.
Resource == [name : Ref, kind : {"Secret", "Other"}]

Shoot == [deleting   : BOOLEAN,                 \* DeletionTimestamp is set
          hibernated : BOOLEAN,
          extension  : {"absent", "disabled", "enabled"},
          provider   : Provider,
          resources  : SUBSET Resource]
=============================================================================
