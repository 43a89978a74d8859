--------------------------- MODULE ValidationProofs ---------------------------
(***************************************************************************)
(* The loop of Validate computes the errors of the closed form, for        *)
(* configs of any length.  One pass over the packs finds for each of them  *)
(* the first one of its name because seenPacks has the names of all packs  *)
(* before it, at the same indices.                                         *)
(***************************************************************************)
EXTENDS Validation, SequenceTheorems, WellFoundedInduction, TLAPS

-----------------------------------------------------------------------------
(* What a config without errors looks like *)

\* A set of numbers has a least one.
LEMMA LeastNat == \A T \in SUBSET Nat : T # {} => \E x \in T : \A y \in T : x <= y
<1> SUFFICES ASSUME NEW T \in SUBSET Nat, T # {} PROVE \E x \in T : \A y \in T : x <= y
  OBVIOUS
<1> DEFINE R == OpToRel(<, Nat)
<1>1. R = {ss \in Nat \X Nat : ss[1] < ss[2]}
  BY DEF OpToRel
<1>2. IsWellFoundedOn(R, Nat)
  BY NatLessThanWellFounded
<1> HIDE DEF R
<1>3. PICK x \in T : \A y \in T : ~ (<<y, x>> \in R)
  BY <1>2, WFMin
<1>4. ASSUME NEW y \in T PROVE x <= y
  <2>1. x \in Nat /\ y \in Nat /\ <<y, x>> \notin R
    BY <1>3
  <2>2. <<y, x>> \in Nat \X Nat /\ ~(<<y, x>>[1] < <<y, x>>[2])
    BY <1>1, <2>1
  <2>3. ~(y < x)
    BY <2>2
  <2> QED
    BY <2>1, <2>3
<1> QED
  BY <1>4

\* A config without errors has no two packs of one name.
LEMMA DistinctNames ==
    ASSUME NEW ps \in Seq(PackSpec), IsValid(ps),
           NEW j \in DOMAIN ps, NEW m \in DOMAIN ps, ps[j].name = ps[m].name
    PROVE  j = m
<1>1. ASSUME NEW a \in DOMAIN ps, NEW b \in DOMAIN ps, ps[a].name = ps[b].name, a < b
      PROVE  FALSE
  <2>1. a \in EarlierNamesakes(ps, b)
    BY <1>1, LenProperties DEF EarlierNamesakes
  <2>2. EarlierNamesakes(ps, b) \in SUBSET Nat
    BY <1>1, LenProperties DEF EarlierNamesakes
  <2>3. PICK x \in EarlierNamesakes(ps, b) : \A y \in EarlierNamesakes(ps, b) : x <= y
    BY <2>1, <2>2, LeastNat
  <2>4. Error("duplicate", b, x) \in ErrorsAt(ps, b)
    BY <2>3 DEF ErrorsAt
  <2>5. ErrorsAt(ps, b) \subseteq ValidationErrors(ps)
    BY <1>1 DEF ValidationErrors
  <2> QED
    BY <2>4, <2>5 DEF IsValid
<1>2. j \in Int /\ m \in Int
  BY LenProperties
<1> QED
  BY <1>1, <1>2

\* What is wrong with one pack is wrong with the config.
LEMMA ErrorsOfPack ==
    ASSUME NEW ps \in Seq(PackSpec), IsValid(ps), NEW j \in DOMAIN ps
    PROVE  ErrorsAt(ps, j) = {}
BY DEF IsValid, ValidationErrors

\* A config without errors has a pack, and nothing in it is empty.
LEMMA ValidConfig ==
    ASSUME NEW ps \in Seq(PackSpec), IsValid(ps)
    PROVE  /\ ps # <<>>
           /\ \A j \in DOMAIN ps :
                 /\ ps[j].name \in Name \ {""}
                 /\ ps[j].version \in Version \ {""}
                 /\ \A x \in DOMAIN ps[j].patches : ps[j].patches[x] \in Ref \ {""}
<1>1. ps # <<>>
  BY DEF IsValid, ValidationErrors
<1>2. SUFFICES ASSUME NEW j \in DOMAIN ps
               PROVE  /\ ps[j].name \in Name \ {""}
                      /\ ps[j].version \in Version \ {""}
                      /\ \A x \in DOMAIN ps[j].patches : ps[j].patches[x] \in Ref \ {""}
  BY <1>1
<1>3. ps[j] \in PackSpec
  BY LenProperties, ElementOfSeq
<1>4. ErrorsAt(ps, j) = {}
  BY ErrorsOfPack
<1>5. ps[j].name \in Name \ {""} /\ ps[j].version \in Version \ {""}
  BY <1>3, <1>4 DEF PackSpec, ErrorsAt
<1>6. ASSUME NEW x \in DOMAIN ps[j].patches PROVE ps[j].patches[x] \in Ref \ {""}
  <2>1. ps[j].patches \in Seq(Ref \cup {""})
    BY <1>3 DEF PackSpec
  <2>2. ps[j].patches[x] \in Ref \cup {""}
    BY <2>1, LenProperties, ElementOfSeq
  <2>3. ps[j].patches[x] # ""
    BY <1>4 DEF ErrorsAt
  <2> QED
    BY <2>2, <2>3
<1> QED
  BY <1>5, <1>6

-----------------------------------------------------------------------------
(* The loop *)

\* The errors of the check before the loop.
FirstErrors == IF packs = <<>> THEN {Error("no packs", 0, 0)} ELSE {}

\* The names and the errors of the packs before idx.
Seen == /\ Len(seenPacks) = idx - 1
        /\ \A j \in 1..(idx - 1) : seenPacks[j] = packs[j].name

Collected == allErrs = FirstErrors \cup (UNION {ErrorsAt(packs, j) : j \in 1..(idx - 1)})

\* Names as they may be given, empty ones included.
GivenName == Name \cup {""}

LType == /\ packs \in Configs
         /\ idx \in 0..(Len(packs) + 1)
         /\ seenPacks \in Seq(GivenName)

LInv ==
    /\ LType
    /\ IF idx = 0 THEN seenPacks = <<>> /\ allErrs = {} ELSE Seen /\ Collected

LEMMA PacksType ==
    packs \in Configs =>
        /\ packs \in Seq(PackSpec) /\ Len(packs) \in Nat
        /\ DOMAIN packs = 1..Len(packs)
        /\ \A j \in DOMAIN packs : packs[j] \in PackSpec
BY ConfigsType, LenProperties, ElementOfSeq

\* The two parts of the invariant.
LEMMA LInvTyped == LInv => LType
BY Zenon DEF LInv

LEMMA LInvLoop == LInv /\ idx # 0 => Seen /\ Collected
BY Zenon DEF LInv

LEMMA LInvInit == Init => LInv
<1> SUFFICES ASSUME Init PROVE LInv
  OBVIOUS
<1>1. LType /\ idx = 0 /\ seenPacks = <<>> /\ allErrs = {}
  BY PacksType, EmptySeq DEF Init, LType
<1> QED
  BY <1>1, Zenon DEF LInv

\* The first entry of seenPacks that has the name of the next pack is the
\* first of the earlier packs that has it.
LEMMA SeenIdxIsFirst ==
    ASSUME LInv, idx \in DOMAIN packs
    PROVE  SeenIdx(packs[idx].name) =
              {j \in EarlierNamesakes(packs, idx) :
                  \A m \in EarlierNamesakes(packs, idx) : j <= m}
<1>1. idx \in 1..Len(packs) /\ Len(packs) \in Nat
  BY PacksType, LInvTyped DEF LType
<1>2. /\ DOMAIN seenPacks = 1..(idx - 1)
      /\ \A j \in 1..(idx - 1) : seenPacks[j] = packs[j].name
  <2>1. seenPacks \in Seq(GivenName) /\ idx # 0
    BY <1>1, LInvTyped DEF LType
  <2>2. Seen
    BY <2>1, LInvLoop
  <2> QED
    BY <1>1, <2>1, <2>2, LenProperties DEF Seen
<1>3. EarlierNamesakes(packs, idx) = {j \in 1..(idx - 1) : seenPacks[j] = packs[idx].name}
  BY <1>1, <1>2 DEF EarlierNamesakes
<1> DEFINE E == EarlierNamesakes(packs, idx)
<1>4. ASSUME NEW j \in 1..(idx - 1)
      PROVE  (\A m \in 1..(j - 1) : seenPacks[m] # packs[idx].name) <=> (\A m \in E : j <= m)
  BY <1>1, <1>3
<1> QED
  BY <1>1, <1>2, <1>3, <1>4 DEF SeenIdx

LEMMA ValidatePackKeeps == LInv /\ ValidatePack => LInv'
<1> SUFFICES ASSUME LInv, ValidatePack PROVE LInv'
  OBVIOUS
<1>0. idx \in DOMAIN packs /\ idx' = idx + 1 /\ packs' = packs
  BY Zenon DEF ValidatePack
<1>1. /\ idx \in 1..Len(packs) /\ Len(packs) \in Nat /\ packs \in Configs
      /\ idx' = idx + 1 /\ packs' = packs /\ packs[idx] \in PackSpec
      /\ idx \in DOMAIN packs /\ idx # 0 /\ idx' - 1 = idx
  BY <1>0, PacksType, LInvTyped DEF LType
<1> Seen /\ Collected
  BY <1>1, LInvLoop
<1>2. Seen' /\ seenPacks' \in Seq(GivenName)
  <2>1. seenPacks' = Append(seenPacks, packs[idx].name)
    BY DEF ValidatePack
  <2>2. packs[idx].name \in GivenName
    BY <1>1 DEF PackSpec, GivenName
  <2>3. /\ seenPacks \in Seq(GivenName) /\ Len(seenPacks) = idx - 1
        /\ \A j \in 1..(idx - 1) : seenPacks[j] = packs[j].name
    BY <1>1, LInvTyped DEF LType, Seen
  <2>4. seenPacks' \in Seq(GivenName) /\ Len(seenPacks') = idx
    BY <1>1, <2>1, <2>2, <2>3, AppendProperties
  <2>5. \A j \in 1..idx : seenPacks'[j] = packs[j].name
    <3>1. ASSUME NEW j \in 1..idx PROVE seenPacks'[j] = packs[j].name
      <4>1. CASE j = idx
        BY <1>1, <2>1, <2>2, <2>3, <4>1, AppendProperties
      <4>2. CASE j \in 1..(idx - 1)
        BY <1>1, <2>1, <2>2, <2>3, <4>2, AppendProperties
      <4> QED
        BY <1>1, <4>1, <4>2
    <3> QED
      BY <3>1
  <2> QED
    BY <1>1, <2>4, <2>5 DEF Seen
<1>3. Collected'
  <2>1. allErrs' = allErrs \cup ErrorsAt(packs, idx)
    BY <1>1, SeenIdxIsFirst DEF ValidatePack, ErrorsAt
  <2>2. UNION {ErrorsAt(packs, j) : j \in 1..idx}
           = (UNION {ErrorsAt(packs, j) : j \in 1..(idx - 1)}) \cup ErrorsAt(packs, idx)
    <3>1. 1..idx = 1..(idx - 1) \cup {idx}
      BY <1>1
    <3> QED
      BY <3>1
  <2>3. allErrs = FirstErrors \cup (UNION {ErrorsAt(packs, j) : j \in 1..(idx - 1)})
    BY DEF Collected
  <2>4. FirstErrors' = FirstErrors
    BY <1>1 DEF FirstErrors
  <2> QED
    BY <1>1, <2>1, <2>2, <2>3, <2>4 DEF Collected
<1>4. idx' # 0 /\ LType'
  BY <1>1, <1>2 DEF LType
<1> QED
  BY <1>2, <1>3, <1>4, Zenon DEF LInv

LEMMA LInvNext == LInv /\ [Next]_vars => LInv'
<1> SUFFICES ASSUME LInv, [Next]_vars PROVE LInv'
  OBVIOUS
<1>1. CASE CheckNoPacks
  <2>0. idx = 0 /\ seenPacks = <<>>
    BY <1>1, Zenon DEF LInv, CheckNoPacks
  <2>1. /\ idx' = 1 /\ packs' = packs /\ packs \in Configs
        /\ seenPacks' = <<>> /\ Len(packs) \in Nat
    BY <1>1, <2>0, PacksType, LInvTyped, Zenon DEF LType, CheckNoPacks
  <2>2. Len(packs) = 0 <=> packs = <<>>
    BY <2>1, PacksType, EmptySeq
  <2>3. Seen' /\ seenPacks' \in Seq(GivenName)
    <3>1. Len(<<>>) = 0 /\ <<>> \in Seq(GivenName)
      BY EmptySeq
    <3> QED
      BY <2>1, <3>1 DEF Seen
  <2>4. Collected'
    <3>1. allErrs' = FirstErrors'
      BY <1>1, <2>1, <2>2, Zenon DEF CheckNoPacks, FirstErrors
    <3>2. 1..(idx' - 1) = {}
      BY <2>1
    <3> QED
      BY <3>1, <3>2 DEF Collected
  <2>5. idx' # 0 /\ LType'
    BY <2>1, <2>3 DEF LType
  <2> QED
    BY <2>3, <2>4, <2>5, Zenon DEF LInv
<1>2. CASE ValidatePack
  BY <1>2, ValidatePackKeeps
<1>3. CASE UNCHANGED vars
  BY <1>3 DEF vars, LInv, LType, Seen, Collected, FirstErrors
<1> QED
  BY <1>1, <1>2, <1>3 DEF Next

LEMMA LInvCorrect == Spec => []LInv
BY LInvInit, LInvNext, PTL DEF Spec

LEMMA LInvComputes == LInv => LoopComputesErrors
<1> SUFFICES ASSUME LInv, Returned PROVE allErrs = ValidationErrors(packs)
  BY DEF LoopComputesErrors
<1>1. idx # 0 /\ idx - 1 = Len(packs) /\ DOMAIN packs = 1..Len(packs)
  BY PacksType, LInvTyped DEF LType, Returned
<1>2. Collected
  BY <1>1, LInvLoop
<1> QED
  BY <1>1, <1>2 DEF Collected, FirstErrors, ValidationErrors

\* The index of an error.
LEMMA ErrorIdx == \A what, i, at : Error(what, i, at).idx = i
BY DEF Error

\* Every step of Validate has its types.
THEOREM ValidationTypeCorrect == Spec => []TypeOK
<1>1. LInv => TypeOK
  <2> SUFFICES ASSUME LInv PROVE TypeOK
    OBVIOUS
  <2>1. Len(packs) \in Nat /\ idx \in 0..(Len(packs) + 1)
    BY PacksType, LInvTyped DEF LType
  <2>2. ASSUME NEW e \in allErrs PROVE e.idx \in 0..Len(packs)
    <3>1. CASE e \in FirstErrors
      <4>1. e = Error("no packs", 0, 0)
        BY <3>1 DEF FirstErrors
      <4>2. e.idx = 0
        BY <4>1, ErrorIdx
      <4> QED
        BY <2>1, <4>2
    <3>2. ASSUME NEW j \in 1..(idx - 1), e \in ErrorsAt(packs, j)
          PROVE  e.idx \in 0..Len(packs)
      <4>1. \E what, at : e = Error(what, j, at)
        BY <3>2, ZenonT(30) DEF ErrorsAt
      <4>2. e.idx = j
        BY <4>1, ErrorIdx
      <4> QED
        BY <2>1, <4>2
    <3>3. idx # 0
      BY Zenon DEF LInv
    <3>4. Collected
      BY <3>3, LInvLoop
    <3> QED
      BY <3>1, <3>2, <3>4 DEF Collected
  <2> QED
    BY <2>2, LInvTyped, ConfigsType DEF LType, TypeOK, GivenName
<1> QED
  BY <1>1, LInvCorrect, PTL

\* One pass of Validate over the packs returns the errors of the closed form
\* that the actuator and the webhook are modelled with: every later pack of a
\* name is reported together with the first one.
THEOREM LoopComputesErrorsCorrect == Spec => []LoopComputesErrors
BY LInvComputes, LInvCorrect, PTL

\* A config for which Validate returns no error has no pack twice and nothing
\* in it is empty.
THEOREM AcceptedIsWellFormedCorrect == Spec => []AcceptedIsWellFormed
<1>1. LInv => AcceptedIsWellFormed
  <2> SUFFICES ASSUME LInv, Returned, allErrs = {}
               PROVE  /\ packs # <<>>
                      /\ \A i, j \in DOMAIN packs : packs[i].name = packs[j].name => i = j
                      /\ \A i \in DOMAIN packs :
                            /\ packs[i].name \in Name \ {""}
                            /\ packs[i].version \in Version \ {""}
                            /\ \A p \in DOMAIN packs[i].patches :
                                  packs[i].patches[p] \in Ref \ {""}
    BY DEF AcceptedIsWellFormed
  <2>1. packs \in Seq(PackSpec) /\ IsValid(packs)
    BY LInvComputes, LInvTyped, PacksType DEF LType, LoopComputesErrors, IsValid
  <2> QED
    BY <2>1, DistinctNames, ValidConfig
<1> QED
  BY <1>1, LInvCorrect, PTL
=============================================================================
