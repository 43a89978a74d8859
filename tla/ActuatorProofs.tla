--------------------------- MODULE ActuatorProofs ---------------------------
(***************************************************************************)
(* Proofs about Actuator, for any packs, releases, Shoots and bounds, in   *)
(* three parts.                                                            *)
(*                                                                         *)
(* I.   Inv: types, and where a request is and what it carries.            *)
(* II.  The safety properties.  The argument is about the few steps that   *)
(*      write to the seed; SeedSteps lists them, and every invariant is    *)
(*      followed through these steps and through the start and the end of  *)
(*      a request.                                                         *)
(* III. Actuator implements PackStore: every step of Actuator is a step of *)
(*      PackStore or a stutter.                                            *)
(***************************************************************************)
EXTENDS ActuatorStore, SequenceTheorems, WellFoundedInduction, TLAPS

-----------------------------------------------------------------------------
(* Configs that the actuator has validated *)

\* A set of numbers has a least one.
LEMMA LeastNat == \A T \in SUBSET Nat : T # {} => \E x \in T : \A y \in T : x <= y
<1> SUFFICES ASSUME NEW T \in SUBSET Nat, T # {} PROVE \E x \in T : \A y \in T : x <= y
  OBVIOUS
<1> DEFINE R == OpToRel(<, Nat)
<1>1. R = {ss \in Nat \X Nat : ss[1] < ss[2]}
  BY DEF OpToRel
<1>2. IsWellFoundedOn(R, Nat)
  BY NatLessThanWellFounded
<1> HIDE DEF R
<1>3. PICK x \in T : \A y \in T : ~ (<<y, x>> \in R)
  BY <1>2, WFMin
<1>4. ASSUME NEW y \in T PROVE x <= y
  <2>1. x \in Nat /\ y \in Nat /\ <<y, x>> \notin R
    BY <1>3
  <2>2. <<y, x>> \in Nat \X Nat /\ ~(<<y, x>>[1] < <<y, x>>[2])
    BY <1>1, <2>1
  <2>3. ~(y < x)
    BY <2>2
  <2> QED
    BY <2>1, <2>3
<1> QED
  BY <1>4

\* A config without errors has no two packs of one name.
LEMMA DistinctNames ==
    ASSUME NEW ps \in Seq(PackSpec), IsValid(ps),
           NEW j \in DOMAIN ps, NEW m \in DOMAIN ps, ps[j].name = ps[m].name
    PROVE  j = m
<1>1. ASSUME NEW a \in DOMAIN ps, NEW b \in DOMAIN ps, ps[a].name = ps[b].name, a < b
      PROVE  FALSE
  <2>1. a \in EarlierNamesakes(ps, b)
    BY <1>1, LenProperties DEF EarlierNamesakes
  <2>2. EarlierNamesakes(ps, b) \in SUBSET Nat
    BY <1>1, LenProperties DEF EarlierNamesakes
  <2>3. PICK x \in EarlierNamesakes(ps, b) : \A y \in EarlierNamesakes(ps, b) : x <= y
    BY <2>1, <2>2, LeastNat
  <2>4. Error("duplicate", b, x) \in ErrorsAt(ps, b)
    BY <2>3 DEF ErrorsAt
  <2>5. ErrorsAt(ps, b) \subseteq ValidationErrors(ps)
    BY <1>1 DEF ValidationErrors
  <2> QED
    BY <2>4, <2>5 DEF IsValid
<1>2. j \in Int /\ m \in Int
  BY LenProperties
<1> QED
  BY <1>1, <1>2

-----------------------------------------------------------------------------
(* I. Types and control *)

Inv == TypeOK /\ Attached /\ Control

LEMMA AbsentType == NoExt.provider \in Provider /\ NoShoot \in Shoot
BY DEF NoExt, NoShoot, Provider, Shoot, PackSpec, Resource

\* The state between two requests satisfies what is said about requests.
LEMMA NoRequestType ==
    NoRequest => /\ pc' \in Steps /\ op' \in {"none"}
                 /\ spec' \in Provider /\ snap' \in Shoot
                 /\ i' \in 1..(Len(packs') + 1)
                 /\ got' \in Seq(Value \cup {Broken})
                 /\ todo' = {} /\ late' \subseteq Name
                 /\ Attached' /\ Control'
BY AbsentType DEF NoRequest, Steps, Attached, Control, Deleting, packs, NoExt, Awake, Reconciling

LEMMA InvInit == Init => Inv
<1> SUFFICES ASSUME Init PROVE Inv
  OBVIOUS
<1>1. ext.provider \in Provider /\ spec \in Provider /\ snap \in Shoot
  BY AbsentType DEF Init, NoExt
<1>2. /\ shoot \in Shoot /\ cluster \in Shoot
      /\ ext \in [st : {"absent", "active", "deleting", "migrated"},
                  op : {"reconcile", "restore", "migrate"},
                  finalizer : BOOLEAN, provider : Provider]
  BY AbsentType DEF Init, NoExt
<1>3. /\ refs \in [Ref -> Value \cup {Absent, Broken}]
      /\ mr \in [Name -> {"absent", "live", "terminating"}]
      /\ mrData \in [Name -> Data \cup {NoData}]
  BY DEF Init
<1>4. rel \in DOMAIN Releases
  <2>1. Len(Releases) \in Nat \ {0} /\ DOMAIN Releases = 1..Len(Releases)
    BY ConstantsType, EmptySeq, LenProperties
  <2> QED
    BY <2>1 DEF Init
<1>5. /\ i \in 1..(Len(packs) + 1)
      /\ got \in Seq(Value \cup {Broken})
      /\ todo \subseteq DOMAIN coll /\ late \subseteq Name
  <2>1. i = 1 /\ packs = <<>> /\ got = <<>> /\ todo = {} /\ late = {}
    BY DEF Init, packs, NoExt
  <2>2. i \in 1..(Len(packs) + 1)
    <3>1. Len(packs) = 0
      BY <2>1
    <3> QED
      BY <2>1, <3>1
  <2>3. got \in Seq(Value \cup {Broken})
    BY <2>1
  <2> QED
    BY <2>1, <2>2, <2>3
<1>6. edits \in 0..MaxEdits /\ faults \in 0..MaxFaults
  <2>1. MaxEdits \in Nat /\ MaxFaults \in Nat
    BY ConstantsType
  <2>2. edits = MaxEdits /\ faults = MaxFaults
    BY DEF Init
  <2> QED
    BY <2>1, <2>2
<1>7. TypeOK
  BY <1>1, <1>2, <1>3, <1>4, <1>5, <1>6 DEF Init, TypeOK, Steps
<1>8. Attached /\ Control
  BY DEF Init, Attached, Control, Deleting, Awake, Reconciling, packs, NoExt
<1> QED
  BY <1>7, <1>8 DEF Inv

-----------------------------------------------------------------------------
(* Type correctness and control *)

ExtType == [st : {"absent", "active", "deleting", "migrated"},
            op : {"reconcile", "restore", "migrate"},
            finalizer : BOOLEAN, provider : Provider]

\* What TypeOK says about a request, and what it says about the rest.
RequestType ==
    /\ pc \in Steps
    /\ op \in {"none", "reconcile", "restore", "migrate", "delete", "forceDelete"}
    /\ spec \in Provider /\ snap \in Shoot
    /\ i \in 1..(Len(packs) + 1)
    /\ got \in Seq(Value \cup {Broken})
    /\ todo \subseteq DOMAIN coll
    /\ late \subseteq Name

SeedType ==
    /\ mr \in [Name -> {"absent", "live", "terminating"}]
    /\ mrData \in [Name -> Data \cup {NoData}]

GardenType ==
    /\ shoot \in Shoot /\ cluster \in Shoot /\ ext \in ExtType
    /\ refs \in [Ref -> Value \cup {Absent, Broken}]

RestType == /\ rel \in DOMAIN Releases
            /\ edits \in 0..MaxEdits /\ faults \in 0..MaxFaults

LEMMA TypeParts == TypeOK <=> RequestType /\ SeedType /\ GardenType /\ RestType
BY DEF TypeOK, RequestType, SeedType, GardenType, RestType, ExtType

LEMMA TypePartsPrime ==
    TypeOK' <=> RequestType' /\ SeedType' /\ GardenType' /\ RestType'
BY DEF TypeOK, RequestType, SeedType, GardenType, RestType, ExtType

LEMMA NoRequestParts == NoRequest => RequestType' /\ Attached' /\ Control'
BY NoRequestType DEF RequestType

LEMMA CollIsSeq ==
    TypeOK => coll \in Seq(Asset) /\ DOMAIN coll = 1..Len(coll) /\ Len(coll) \in Nat
<1> SUFFICES ASSUME TypeOK PROVE coll \in Seq(Asset)
  BY LenProperties
<1>1. Releases \in Seq(Collection)
  BY ConstantsType
<1>2. rel \in 1..Len(Releases)
  BY <1>1, LenProperties DEF TypeOK
<1>3. Releases[rel] \in Collection
  BY <1>1, <1>2, ElementOfSeq
<1> QED
  BY <1>3 DEF coll, Collection

LEMMA AssetType == TypeOK => \A k \in DOMAIN coll : coll[k] \in Asset
<1> SUFFICES ASSUME TypeOK, NEW k \in DOMAIN coll PROVE coll[k] \in Asset
  OBVIOUS
<1>1. coll \in Seq(Asset) /\ k \in 1..Len(coll)
  BY CollIsSeq
<1> QED
  BY <1>1, ElementOfSeq

LEMMA PacksIsSeq ==
    TypeOK => /\ packs \in Seq(PackSpec)
              /\ DOMAIN packs = 1..Len(packs) /\ Len(packs) \in Nat
              /\ \A j \in DOMAIN packs : packs[j] \in PackSpec
BY LenProperties, ElementOfSeq DEF TypeOK, packs, Provider

\* Users and Gardener do not touch the request, so only the objects and what
\* ties the Extension to the request have to be looked at.
LEMMA UsersType == Inv /\ Users => Inv'
<1> SUFFICES ASSUME Inv, Users PROVE Inv'
  OBVIOUS
<1>1. UNCHANGED <<request, seed, rel, faults>>
  BY DEF Users, EditShoot, EditSecret, RequestMigrate
<1>2. RequestType' /\ SeedType' /\ Control'
  BY <1>1, TypeParts
     DEF Inv, RequestType, SeedType, Control, request, seed, packs, coll,
         Awake, Reconciling, Deleting, Disabled
<1>3. GardenType' /\ Attached'
  <2>1. CASE \E s \in Shoots : EditShoot(s)
    <3>1. PICK s \in Shoots : EditShoot(s)
      BY <2>1
    <3>2. s \in Shoot
      BY ConstantsType
    <3> QED
      BY <3>1, <3>2, <1>1, TypeParts
         DEF EditShoot, Inv, GardenType, Attached, request, Deleting
  <2>2. CASE \E r \in Ref, v \in Value \cup {Absent, Broken} : EditSecret(r, v)
    <3>1. PICK r \in Ref, v \in Value \cup {Absent, Broken} : EditSecret(r, v)
      BY <2>2
    <3> QED
      BY <3>1, <1>1, TypeParts
         DEF EditSecret, Inv, GardenType, Attached, request, Deleting
  <2>3. CASE RequestMigrate
    <3>1. ext \in ExtType /\ ext' = [ext EXCEPT !.op = "migrate"] /\ ext.op # "migrate"
      BY <2>3, TypeParts DEF RequestMigrate, Inv, GardenType
    <3>2. /\ ext' \in ExtType /\ ext'.op = "migrate" /\ ext'.st = ext.st
          /\ ext'.finalizer = ext.finalizer
      BY <3>1 DEF ExtType
    <3>3. GardenType'
      BY <2>3, <3>2, TypeParts DEF RequestMigrate, Inv, GardenType
    <3>4. Attached'
      BY <3>1, <3>2, <1>1 DEF Inv, Attached, request, Deleting
    <3> QED
      BY <3>3, <3>4
  <2> QED
    BY <2>1, <2>2, <2>3 DEF Users
<1>4. edits' \in 0..MaxEdits
  <2>1. edits' = edits - 1 /\ edits > 0
    BY DEF Users, EditShoot, EditSecret, RequestMigrate
  <2>2. edits \in 0..MaxEdits /\ MaxEdits \in Nat
    BY ConstantsType DEF Inv, TypeOK
  <2> QED
    BY <2>1, <2>2
<1>5. RestType'
  BY <1>1, <1>4, TypeParts DEF Inv, RestType
<1> QED
  BY <1>2, <1>3, <1>5, TypePartsPrime DEF Inv

\* What is said about a request depends on little else.
LEMMA RequestKept ==
    ASSUME Inv, UNCHANGED <<request, rel>>, mrData' = mrData \/ pc # "writeMR"
    PROVE  RequestType' /\ Control'
BY TypeParts
   DEF Inv, RequestType, Control, request, packs, coll, Awake, Reconciling, Deleting, Disabled

LEMMA GardenerType == Inv /\ Gardener => Inv'
<1> SUFFICES ASSUME Inv, Gardener PROVE Inv'
  OBVIOUS
<1>1. UNCHANGED <<request, rel, bounds, refs, shoot>>
  BY DEF Gardener, SyncCluster, CreateExtension, UpdateExtension, DeleteExtension, LeaveSeed
<1>2. ext \in ExtType /\ shoot \in Shoot /\ cluster \in Shoot /\ cluster.provider \in Provider
  BY TypeParts DEF Inv, GardenType, Shoot
<1>3. NoExt \in ExtType
  BY AbsentType DEF NoExt, ExtType
<1>4. RestType'
  BY <1>1, TypeParts DEF Inv, RestType, bounds
<1>5. CASE SyncCluster
  <2>1. GardenType' /\ SeedType' /\ Attached'
    BY <1>1, <1>5, TypeParts
       DEF SyncCluster, Inv, GardenType, SeedType, seed, Attached, request, Deleting
  <2> QED
    BY <2>1, <1>1, <1>4, <1>5, RequestKept, TypePartsPrime DEF SyncCluster, seed, Inv
<1>6. CASE \E how \in {"reconcile", "restore"} : CreateExtension(how)
  <2>1. ext' \in ExtType /\ cluster' = cluster /\ ext.st = "absent" /\ UNCHANGED seed
    BY <1>2, <1>6 DEF CreateExtension, ExtType
  <2>2. GardenType' /\ SeedType'
    BY <1>1, <1>2, <2>1, TypeParts DEF Inv, GardenType, SeedType, seed
  <2>3. Attached'
    BY <1>1, <2>1 DEF Inv, Attached, request, Deleting
  <2> QED
    BY <2>1, <2>2, <2>3, <1>1, <1>4, RequestKept, TypePartsPrime DEF seed, Inv
<1>7. CASE UpdateExtension
  <2>1. /\ ext' \in ExtType /\ cluster' = cluster /\ UNCHANGED seed
        /\ ext'.st = ext.st /\ ext'.op = ext.op /\ ext'.finalizer = ext.finalizer
    BY <1>2, <1>7 DEF UpdateExtension, ExtType
  <2>2. GardenType' /\ SeedType'
    BY <1>1, <1>2, <2>1, TypeParts DEF Inv, GardenType, SeedType, seed
  <2>3. Attached'
    BY <1>1, <2>1 DEF Inv, Attached, request, Deleting
  <2> QED
    BY <2>1, <2>2, <2>3, <1>1, <1>4, RequestKept, TypePartsPrime DEF seed, Inv
<1>8. CASE DeleteExtension
  <2>1. /\ ext' \in ExtType /\ cluster' = cluster /\ UNCHANGED seed
        /\ ext.st = "active" /\ ext.op # "migrate"
        /\ ext.finalizer => ext'.st = "deleting" /\ ext'.finalizer
    BY <1>2, <1>3, <1>8 DEF DeleteExtension, ExtType
  <2>2. GardenType' /\ SeedType'
    BY <1>1, <1>2, <2>1, TypeParts DEF Inv, GardenType, SeedType, seed
  <2>3. Attached'
    BY <1>1, <2>1 DEF Inv, Attached, request, Deleting
  <2> QED
    BY <2>1, <2>2, <2>3, <1>1, <1>4, RequestKept, TypePartsPrime DEF seed, Inv
<1>9. CASE LeaveSeed
  <2>1. /\ ext' \in ExtType /\ cluster' = cluster /\ ext.st = "migrated"
        /\ mr' = [n \in Name |-> "absent"] /\ mrData' = [n \in Name |-> NoData]
    BY <1>3, <1>9 DEF LeaveSeed
  <2>2. op = "none"
    BY <2>1, TypeParts DEF Inv, Attached, Deleting, RequestType
  <2>3. GardenType' /\ SeedType'
    BY <1>1, <1>2, <2>1, TypeParts DEF Inv, GardenType, SeedType
  <2>4. Attached'
    BY <1>1, <2>2 DEF Attached, request, Deleting
  <2>5. pc # "writeMR"
    BY <2>2 DEF Inv, Control
  <2> QED
    BY <2>3, <2>4, <2>5, <1>1, <1>4, RequestKept, TypePartsPrime DEF Inv
<1> QED
  BY <1>5, <1>6, <1>7, <1>8, <1>9 DEF Gardener

LEMMA FinalizeType == Inv /\ ResourceManager => Inv'
<1> SUFFICES ASSUME Inv, ResourceManager PROVE Inv'
  OBVIOUS
<1>1. UNCHANGED <<request, rel, bounds, garden, mrData>>
  BY DEF ResourceManager, Finalize
<1>2. GardenType' /\ RestType' /\ Attached'
  BY <1>1, TypeParts
     DEF Inv, GardenType, RestType, garden, bounds, Attached, request, Deleting
<1>3. SeedType'
  BY <1>1, TypeParts DEF ResourceManager, Finalize, Inv, SeedType
<1> QED
  BY <1>1, <1>2, <1>3, RequestKept, TypePartsPrime DEF Inv

\* Whatever ends a request without touching the seed.
LEMMA EndsType ==
    ASSUME Inv, NoRequest, GardenType', UNCHANGED seed, RestType'
    PROVE  Inv'
BY NoRequestParts, TypeParts, TypePartsPrime DEF Inv, SeedType, seed

LEMMA AbortType == Inv /\ Abort => Inv'
BY EndsType, TypeParts DEF Inv, Abort, GardenType, RestType, garden, bounds

LEMMA FaultsType == Inv /\ Faults => Inv'
<1> SUFFICES ASSUME Inv, Faults PROVE Inv'
  OBVIOUS
<1>1. NoRequest /\ UNCHANGED <<garden, seed, edits>> /\ faults' = faults - 1 /\ faults > 0
  BY DEF Faults, Fault, Upgrade
<1>2. rel' \in DOMAIN Releases
  BY DEF Faults, Fault, Upgrade, Inv, TypeOK
<1>3. faults' \in 0..MaxFaults
  <2>1. faults \in 0..MaxFaults /\ MaxFaults \in Nat
    BY ConstantsType DEF Inv, TypeOK
  <2> QED
    BY <2>1, <1>1
<1>4. GardenType' /\ RestType'
  BY <1>1, <1>2, <1>3, TypeParts DEF Inv, GardenType, RestType, garden
<1> QED
  BY <1>1, <1>4, EndsType

LEMMA StartType ==
    Inv /\ (StartReconcile \/ \E how \in {"delete", "forceDelete"} : StartDelete(how)) => Inv'
<1>1. ASSUME Inv, StartReconcile PROVE Inv'
  <2>1. /\ ext \in ExtType /\ ext.st = "active" /\ ext' = [ext EXCEPT !.finalizer = @ \/ ext.op # "migrate"]
        /\ pc' = "cluster" /\ op' = ext.op /\ spec' = ext.provider
        /\ UNCHANGED <<shoot, cluster, refs, seed, rel, snap, i, got, todo, late, bounds>>
    BY <1>1, TypeParts DEF StartReconcile, Inv, GardenType
  <2>2. /\ ext' \in ExtType /\ ext'.st = "active" /\ ext'.op = ext.op
        /\ ext.op \in {"reconcile", "restore", "migrate"}
        /\ ext.op # "migrate" => ext'.finalizer
    BY <2>1 DEF ExtType
  <2>3. GardenType' /\ SeedType' /\ RestType'
    BY <2>1, <2>2, <1>1, TypeParts DEF Inv, GardenType, SeedType, RestType, seed, bounds
  <2>4. Attached'
    BY <2>1, <2>2 DEF Attached, Deleting
  <2>5. pc = "idle" /\ i = 1
    BY <1>1 DEF StartReconcile, Inv, Control
  <2>6. spec' \in Provider /\ ext.provider \in Provider
    BY <2>1, <2>2 DEF ExtType
  <2>7. i' \in 1..(Len(packs') + 1)
    <3>1. Len(packs') \in Nat
      BY <2>6, LenProperties DEF packs, Provider
    <3> QED
      BY <3>1, <2>1, <2>5
  <2>8. RequestType'
    BY <2>1, <2>2, <2>6, <2>7, <1>1, TypeParts DEF Inv, RequestType, Steps, coll
  <2>9. op' # "none" /\ i' = 1 /\ pc' = "cluster" /\ Reconciling'
    BY <2>1, <2>2, <2>5 DEF Reconciling
  <2>10. todo' = {}
    BY <2>1, <2>5, <1>1 DEF Inv, Control
  <2>11. Control'
    BY <2>9, <2>10 DEF Control
  <2> QED
    BY <2>3, <2>4, <2>8, <2>11, TypePartsPrime DEF Inv
<1>2. ASSUME Inv, NEW how \in {"delete", "forceDelete"}, StartDelete(how) PROVE Inv'
  <2>1. /\ pc = "idle" /\ ext.st = "deleting" /\ pc' = "deleteMR" /\ op' = how
        /\ todo' = DOMAIN coll
        /\ UNCHANGED <<garden, seed, rel, spec, snap, i, got, late, bounds>>
    BY <1>2 DEF StartDelete
  <2>2. GardenType' /\ SeedType' /\ RestType'
    BY <2>1, <1>2, TypeParts DEF Inv, GardenType, SeedType, RestType, garden, seed, bounds
  <2>3. RequestType'
    BY <2>1, <1>2, TypeParts DEF Inv, RequestType, Steps, coll, packs
  <2>4. Attached' /\ Control'
    BY <2>1, <1>2 DEF Attached, Control, Deleting, Reconciling, Awake, garden
  <2> QED
    BY <2>2, <2>3, <2>4, TypePartsPrime DEF Inv
<1> QED
  BY <1>1, <1>2

\* A step of a request that only moves the request on.
LEMMA RequestMoves ==
    ASSUME Inv, UNCHANGED <<op, garden, seed, rel, bounds>>, RequestType', Control'
    PROVE  Inv'
BY TypeParts, TypePartsPrime
   DEF Inv, GardenType, SeedType, RestType, garden, seed, bounds, Attached, Deleting

LEMMA GetClusterType == Inv /\ GetCluster => Inv'
<1> SUFFICES ASSUME Inv, GetCluster PROVE Inv'
  OBVIOUS
<1>1. CASE Abort
  BY <1>1, AbortType
<1>2. CASE ~Abort
  <2>1. /\ pc = "cluster" /\ snap' = cluster
        /\ UNCHANGED <<op, spec, i, got, todo, late, garden, seed, rel, bounds>>
        /\ \/ cluster.hibernated /\ pc' = "finish"
           \/ ~cluster.hibernated /\ pc' = "pack" /\ IsValid(packs)
    BY <1>2 DEF GetCluster
  <2>2. RequestType'
    BY <2>1, TypeParts DEF Inv, RequestType, GardenType, Steps, packs, coll
  <2>3. i = 1 /\ todo = {} /\ Reconciling
    BY <2>1 DEF Inv, Control
  <2>4. Control'
    BY <2>1, <2>3 DEF Inv, Control, Awake, Reconciling, packs
  <2> QED
    BY <2>1, <2>2, <2>4, RequestMoves
<1> QED
  BY <1>1, <1>2

LEMMA NextPackType == Inv /\ NextPack => Inv'
<1> SUFFICES ASSUME Inv, NextPack PROVE Inv'
  OBVIOUS
<1>1. CASE Abort
  BY <1>1, AbortType
<1>2. CASE ~Abort
  <2>1. /\ pc = "pack" /\ i <= Len(packs) /\ pc' = "patch" /\ got' = <<>>
        /\ PackExists(coll, packs[i].name, packs[i].version)
        /\ UNCHANGED <<op, spec, snap, i, todo, late, garden, seed, rel, bounds>>
    BY <1>2 DEF NextPack
  <2>2. RequestType'
    BY <2>1, TypeParts DEF Inv, RequestType, Steps, packs, coll
  <2>3. i \in DOMAIN packs /\ Len(packs[i].patches) \in Nat
    <3>1. i \in 1..(Len(packs) + 1) /\ i \in DOMAIN packs
      BY <2>1, PacksIsSeq DEF Inv, TypeOK
    <3>2. packs[i] \in PackSpec
      BY <3>1, PacksIsSeq DEF Inv
    <3> QED
      BY <3>1, <3>2, LenProperties DEF PackSpec
  <2>4. Len(got') = 0
    BY <2>1
  <2>5. Control'
    BY <2>1, <2>3, <2>4 DEF Inv, Control, Awake, Reconciling, packs, coll, Disabled
  <2> QED
    BY <2>1, <2>2, <2>5, RequestMoves
<1> QED
  BY <1>1, <1>2

\* Pack i of the loop, once it is known to be in the collection.
LEMMA CurrentPack ==
    ASSUME Inv, pc \in {"patch", "writeMR"}
    PROVE  /\ i \in DOMAIN packs /\ i \in 1..Len(packs)
           /\ packs[i] \in PackSpec
           /\ packs[i].name \in Name /\ packs[i].version \in Version
           /\ Len(packs[i].patches) \in Nat
           /\ DOMAIN packs[i].patches = 1..Len(packs[i].patches)
<1>1. i \in 1..(Len(packs) + 1) /\ i <= Len(packs)
  BY DEF Inv, TypeOK, Control
<1>2. i \in DOMAIN packs /\ i \in 1..Len(packs)
  BY <1>1, PacksIsSeq DEF Inv
<1>3. packs[i] \in PackSpec
  BY <1>2, PacksIsSeq DEF Inv
<1>4. PICK k \in DOMAIN coll : coll[k].name = packs[i].name /\ coll[k].version = packs[i].version
  BY DEF Inv, Control, PackExists
<1>5. coll[k] \in Asset
  BY AssetType DEF Inv
<1>6. packs[i].name \in Name /\ packs[i].version \in Version
  BY <1>4, <1>5 DEF Asset
<1>7. packs[i].patches \in Seq(Ref \cup {""})
  BY <1>3 DEF PackSpec
<1> QED
  BY <1>2, <1>3, <1>6, <1>7, LenProperties

LEMMA ReadPatchType == Inv /\ ReadPatch => Inv'
<1> SUFFICES ASSUME Inv, ReadPatch PROVE Inv'
  OBVIOUS
<1>1. CASE Abort
  BY <1>1, AbortType
<1>2. CASE ~Abort
  <2> DEFINE ref == packs[i].patches[Len(got) + 1]
  <2>1. /\ pc = "patch" /\ Len(got) < Len(packs[i].patches)
        /\ [name |-> ref, kind |-> "Secret"] \in snap.resources
        /\ refs[ref] # Absent
        /\ got' = [x \in 1..(Len(got) + 1) |->
                      IF packs[i].patches[x] = ref THEN refs[ref] ELSE got[x]]
        /\ UNCHANGED <<pc, op, spec, snap, i, todo, late, garden, seed, rel, bounds>>
    BY <1>2 DEF ReadPatch
  <2>2. ref \in Ref
    <3>1. snap.resources \subseteq Resource
      BY DEF Inv, TypeOK, Shoot
    <3> QED
      BY <2>1, <3>1 DEF Resource
  <2>3. refs[ref] \in Value \cup {Broken}
    BY <2>1, <2>2 DEF Inv, TypeOK
  <2>4. got \in Seq(Value \cup {Broken})
    BY DEF Inv, TypeOK
  <2>5. got' \in Seq(Value \cup {Broken}) /\ Len(got') = Len(got) + 1 /\ Len(got) \in Nat
    <3>1. Len(got) \in Nat
      BY <2>4, LenProperties
    <3>2. ASSUME NEW x \in 1..(Len(got) + 1), packs[i].patches[x] # ref
          PROVE  x \in 1..Len(got)
      BY <3>1, <3>2
    <3>3. got' \in [1..(Len(got) + 1) -> Value \cup {Broken}]
      BY <2>1, <2>3, <2>4, <3>1, <3>2, ElementOfSeq
    <3>4. Len(got') = Len(got) + 1
      BY <3>1, <3>3, LenProperties
    <3>5. got' \in Seq(Value \cup {Broken})
      BY <3>1, <3>3, SeqDef
    <3> QED
      BY <3>1, <3>4, <3>5
  <2>6. RequestType'
    BY <2>1, <2>5, TypeParts DEF Inv, RequestType, Steps, packs, coll
  <2>7. Len(got') <= Len(packs[i].patches)
    BY <2>1, <2>5, CurrentPack
  <2>8. Control'
    BY <2>1, <2>7 DEF Inv, Control, Awake, Reconciling, packs, coll, Disabled
  <2> QED
    BY <2>1, <2>6, <2>8, RequestMoves
<1> QED
  BY <1>1, <1>2

LEMMA WriteSecretType == Inv /\ WriteSecret => Inv'
<1> SUFFICES ASSUME Inv, WriteSecret PROVE Inv'
  OBVIOUS
<1>1. CASE Abort
  BY <1>1, AbortType
<1>2. CASE ~Abort
  <2> DEFINE n == packs[i].name
             d == [version |-> packs[i].version, patches |-> got]
  <2>1. /\ pc = "patch" /\ Len(got) = Len(packs[i].patches) /\ pc' = "writeMR"
        /\ \A j \in DOMAIN got : got[j] # Broken
        /\ mrData' = [mrData EXCEPT ![n] = d]
        /\ UNCHANGED <<op, spec, snap, i, got, todo, late, garden, mr, rel, bounds>>
    BY <1>2 DEF WriteSecret
  <2>2. n \in Name /\ packs[i].version \in Version
    BY <2>1, CurrentPack
  <2>3. got \in Seq(Value)
    <3>1. got \in Seq(Value \cup {Broken})
      BY DEF Inv, TypeOK
    <3>2. Len(got) \in Nat /\ DOMAIN got = 1..Len(got)
      BY <3>1, LenProperties
    <3>3. \A j \in 1..Len(got) : got[j] \in Value
      BY <2>1, <3>1, <3>2, ElementOfSeq
    <3>4. got = [j \in 1..Len(got) |-> got[j]]
      BY <3>1, <3>2, LenProperties
    <3> QED
      BY <3>2, <3>3, <3>4, SeqDef
  <2>4. d \in Data
    BY <2>2, <2>3 DEF Data
  <2>5. SeedType'
    BY <2>1, <2>2, <2>4, TypeParts DEF Inv, SeedType
  <2>6. GardenType' /\ RestType' /\ Attached'
    BY <2>1, TypeParts
       DEF Inv, GardenType, RestType, garden, bounds, Attached, Deleting
  <2>7. RequestType'
    BY <2>1, TypeParts DEF Inv, RequestType, Steps, packs, coll
  <2>8. mrData'[n] = d
    BY <2>1, <2>2 DEF Inv, TypeOK
  <2>9. Control'
    BY <2>1, <2>8 DEF Inv, Control, Awake, Reconciling, packs, coll, Disabled
  <2> QED
    BY <2>5, <2>6, <2>7, <2>9, TypePartsPrime DEF Inv
<1> QED
  BY <1>1, <1>2

LEMMA WriteMRType == Inv /\ WriteMR => Inv'
<1> SUFFICES ASSUME Inv, WriteMR PROVE Inv'
  OBVIOUS
<1> DEFINE n == packs[i].name
<1>1. /\ pc = "writeMR" /\ pc' = "pack" /\ i' = i + 1 /\ got' = <<>>
      /\ mr' = [mr EXCEPT ![n] = IF @ = "absent" THEN "live" ELSE @]
      /\ late' = IF mr[n] = "terminating" THEN late \cup {n} ELSE late
      /\ UNCHANGED <<op, spec, snap, todo, garden, mrData, rel, bounds>>
  BY DEF WriteMR
<1>2. n \in Name /\ i \in 1..Len(packs) /\ Len(packs) \in Nat
  BY <1>1, CurrentPack, PacksIsSeq DEF Inv
<1>3. SeedType'
  BY <1>1, <1>2, TypeParts DEF Inv, SeedType
<1>4. GardenType' /\ RestType' /\ Attached'
  BY <1>1, TypeParts DEF Inv, GardenType, RestType, garden, bounds, Attached, Deleting
<1>5. i' \in 1..(Len(packs) + 1) /\ \A j \in 1..(i' - 1) : j \in 1..(i - 1) \/ j = i
  BY <1>1, <1>2
<1>6. RequestType'
  BY <1>1, <1>2, <1>5, TypeParts DEF Inv, RequestType, Steps, packs, coll
<1>7. Awake /\ PackExists(coll, packs[i].name, packs[i].version) /\ IsValid(packs)
  BY <1>1 DEF Inv, Control
<1>8. \A j \in 1..(i' - 1) : PackExists(coll, packs[j].name, packs[j].version)
  BY <1>5, <1>7 DEF Inv, Control
<1>9. Control'
  BY <1>1, <1>7, <1>8 DEF Inv, Control, Awake, Reconciling, packs, coll, Disabled
<1> QED
  BY <1>3, <1>4, <1>6, <1>9, TypePartsPrime DEF Inv

LEMMA AfterPacksType == Inv /\ AfterPacks => Inv'
<1> SUFFICES ASSUME Inv, AfterPacks PROVE Inv'
  OBVIOUS
<1>1. /\ pc = "pack" /\ i > Len(packs) /\ pc' = "deleteMR"
      /\ todo' = {k \in DOMAIN coll : Disabled(k)}
      /\ UNCHANGED <<op, spec, snap, i, got, late, garden, seed, rel, bounds>>
  BY DEF AfterPacks
<1>2. i = Len(packs) + 1
  <2>1. i \in 1..(Len(packs) + 1) /\ Len(packs) \in Nat
    BY PacksIsSeq DEF Inv, TypeOK
  <2> QED
    BY <1>1, <2>1
<1>3. RequestType'
  BY <1>1, TypeParts DEF Inv, RequestType, Steps, packs, coll
<1>4. Control'
  BY <1>1, <1>2 DEF Inv, Control, Awake, Reconciling, packs, coll, Disabled
<1> QED
  BY <1>1, <1>3, <1>4, RequestMoves

LEMMA DeletesType ==
    ASSUME Inv, NEW k \in DOMAIN coll, DeleteMR(k) \/ DeleteSecret(k)
    PROVE  Inv'
<1>1. coll[k].name \in Name
  BY AssetType DEF Inv, Asset
<1>2. CASE DeleteMR(k)
  <2>1. /\ pc = "deleteMR" /\ pc' = "deleteSecret"
        /\ mr' = [mr EXCEPT ![coll[k].name] = IF @ = "live" THEN "terminating" ELSE @]
        /\ UNCHANGED <<op, spec, snap, i, got, todo, late, garden, mrData, rel, bounds>>
    BY <1>2 DEF DeleteMR
  <2>2. SeedType' /\ GardenType' /\ RestType' /\ Attached'
    BY <2>1, <1>1, TypeParts
       DEF Inv, SeedType, GardenType, RestType, garden, bounds, Attached, Deleting
  <2>3. RequestType' /\ Control'
    BY <2>1, TypeParts
       DEF Inv, RequestType, Steps, Control, Awake, Reconciling, Deleting, packs, coll, Disabled
  <2> QED
    BY <2>2, <2>3, TypePartsPrime DEF Inv
<1>3. CASE DeleteSecret(k)
  <2>1. /\ pc = "deleteSecret" /\ pc' = "deleteMR"
        /\ mrData' = [mrData EXCEPT ![coll[k].name] = NoData]
        /\ todo' = todo \ {k}
        /\ UNCHANGED <<op, spec, snap, i, got, late, garden, mr, rel, bounds>>
    BY <1>3 DEF DeleteSecret
  <2>2. SeedType' /\ GardenType' /\ RestType' /\ Attached'
    BY <2>1, <1>1, TypeParts
       DEF Inv, SeedType, GardenType, RestType, garden, bounds, Attached, Deleting
  <2>3. RequestType' /\ Control'
    BY <2>1, TypeParts
       DEF Inv, RequestType, Steps, Control, Awake, Reconciling, Deleting, packs, coll, Disabled
  <2> QED
    BY <2>2, <2>3, TypePartsPrime DEF Inv
<1> QED
  BY <1>2, <1>3

LEMMA AfterDeletesType == Inv /\ AfterDeletes => Inv'
<1> SUFFICES ASSUME Inv, AfterDeletes PROVE Inv'
  OBVIOUS
<1>1. /\ pc = "deleteMR" /\ todo = {} /\ pc' = "finish"
      /\ UNCHANGED <<op, spec, snap, i, got, todo, late, garden, seed, rel, bounds>>
  BY DEF AfterDeletes
<1>2. RequestType' /\ Control'
  BY <1>1, TypeParts
     DEF Inv, RequestType, Steps, Control, Awake, Reconciling, packs, coll, Disabled
<1> QED
  BY <1>1, <1>2, RequestMoves

LEMMA FinishType == Inv /\ Finish => Inv'
<1> SUFFICES ASSUME Inv, Finish PROVE Inv'
  OBVIOUS
<1>1. NoRequest /\ UNCHANGED <<shoot, cluster, refs, seed, rel, bounds>>
  BY DEF Finish
<1>2. ext \in ExtType /\ NoExt \in ExtType
  BY AbsentType, TypeParts DEF Inv, GardenType, NoExt, ExtType
<1>3. ext' \in ExtType
  <2>1. CASE Deleting
    <3>1. ext' = NoExt
      BY <2>1 DEF Finish, Deleting
    <3> QED
      BY <3>1, <1>2
  <2>2. CASE ~Deleting /\ op = "migrate"
    <3>1. ext' = [ext EXCEPT !.st = "migrated", !.finalizer = FALSE]
      BY <2>2 DEF Finish
    <3> QED
      BY <3>1, <1>2 DEF ExtType
  <2>3. CASE ~Deleting /\ op # "migrate"
    <3>1. ext' = [ext EXCEPT !.op = IF @ = "restore" THEN "reconcile" ELSE @]
      BY <2>3 DEF Finish
    <3> QED
      BY <3>1, <1>2 DEF ExtType
  <2> QED
    BY <2>1, <2>2, <2>3
<1>4. GardenType' /\ RestType'
  BY <1>1, <1>3, TypeParts DEF Inv, GardenType, RestType, bounds
<1> QED
  BY <1>1, <1>4, EndsType

LEMMA InvNext == Inv /\ [Next]_vars => Inv'
<1> SUFFICES ASSUME Inv, [Next]_vars PROVE Inv'
  OBVIOUS
<1>1. CASE Worker
  BY <1>1, StartType, GetClusterType, NextPackType, ReadPatchType, WriteSecretType,
     WriteMRType, AfterPacksType, DeletesType, AfterDeletesType, FinishType DEF Worker
<1>2. CASE UNCHANGED vars
  BY <1>2, TypeParts, RequestKept, TypePartsPrime
     DEF vars, seed, garden, bounds, Inv, SeedType, GardenType, RestType, request,
         Attached, Deleting
<1> QED
  BY <1>1, <1>2, UsersType, GardenerType, FinalizeType, FaultsType DEF Next

\* Every reachable state is well typed, and a request that has got as far as
\* pc has made the checks that the code makes before it gets there.
THEOREM InvCorrect == Spec => []Inv
BY InvInit, InvNext, PTL DEF Spec

\* The variables of Actuator keep their types.
THEOREM TypeCorrect == Spec => []TypeOK
BY InvCorrect, PTL DEF Inv

-----------------------------------------------------------------------------
(* II. Safety: the steps *)

\* A write of the configured pack i, first its secret, then its
\* ManagedResource.
SecretWritten ==
    /\ pc = "patch" /\ pc' = "writeMR"
    /\ mrData' = [mrData EXCEPT ![packs[i].name] =
                     [version |-> packs[i].version, patches |-> got]]
    /\ UNCHANGED <<op, spec, snap, i, got, todo, late, garden, mr, rel>>

MRWritten ==
    /\ pc = "writeMR" /\ pc' = "pack" /\ i' = i + 1
    /\ mr' = [mr EXCEPT ![packs[i].name] = IF @ = "absent" THEN "live" ELSE @]
    /\ late' = IF mr[packs[i].name] = "terminating" THEN late \cup {packs[i].name} ELSE late
    /\ UNCHANGED <<op, spec, snap, todo, garden, mrData, rel>>

\* A step of a request that leaves the seed alone.
Advances ==
    \/ StartReconcile
    \/ \E how \in {"delete", "forceDelete"} : StartDelete(how)
    \/ GetCluster /\ ~NoRequest
    \/ (NextPack \/ ReadPatch) /\ ~NoRequest
    \/ AfterPacks
    \/ AfterDeletes

\* A step that is not part of a request.
Outside ==
    /\ UNCHANGED <<request, rel, seed>>
    /\ Users \/ Gardener \/ UNCHANGED vars

LEMMA SeedSteps ==
    ASSUME [Next]_vars
    PROVE  \/ SecretWritten \/ MRWritten
           \/ \E k \in DOMAIN coll : DeleteMR(k) \/ DeleteSecret(k)
           \/ \E n \in Name : Finalize(n)
           \/ LeaveSeed
           \/ Finish
           \/ NoRequest /\ UNCHANGED <<garden, seed>> /\ rel' \in DOMAIN Releases \cup {rel}
           \/ Advances
           \/ Outside
<1>1. CASE Users
  BY <1>1 DEF Users, EditShoot, EditSecret, RequestMigrate, Outside
<1>2. CASE Gardener
  BY <1>2 DEF Gardener, SyncCluster, CreateExtension, UpdateExtension, DeleteExtension, Outside
<1>3. CASE Faults
  BY <1>3 DEF Faults, Fault, Upgrade
<1>4. CASE Worker
  <2>1. CASE WriteSecret
    BY <2>1 DEF WriteSecret, SecretWritten, Abort
  <2>2. CASE WriteMR
    BY <2>2 DEF WriteMR, MRWritten
  <2>3. CASE GetCluster \/ NextPack \/ ReadPatch
    BY <2>3 DEF GetCluster, NextPack, ReadPatch, Abort, Advances
  <2> QED
    BY <1>4, <2>1, <2>2, <2>3 DEF Worker, Advances
<1>5. CASE UNCHANGED vars
  BY <1>5 DEF vars, Outside
<1> QED
  BY <1>1, <1>2, <1>3, <1>4, <1>5 DEF Next, ResourceManager

\* What the steps of a request that leave the seed alone have in common.
LEMMA AdvancesFacts ==
    ASSUME Advances
    PROVE  /\ UNCHANGED <<seed, rel, i, late>> /\ pc' # "deleteSecret"
           /\ pc # "deleteSecret"
           /\ spec' = spec \/ pc = "idle"
           /\ op' = op \/ pc = "idle"
BY DEF Advances, StartReconcile, StartDelete, GetCluster, NextPack, ReadPatch,
       AfterPacks, AfterDeletes, Abort

\* The delete loop has one next pack.
LEMMA NextUnique ==
    ASSUME TypeOK, NEW k \in todo, NEW m \in todo, IsNext(k), IsNext(m)
    PROVE  k = m
<1>1. k \in Int /\ m \in Int
  BY CollIsSeq DEF TypeOK
<1> QED
  BY <1>1 DEF IsNext

\* A step never makes data of a pack that is not written, and never brings a
\* pack back that is not written.
LEMMA WithdrawnStays ==
    ASSUME Inv, [Next]_vars, ~SecretWritten, ~MRWritten, NEW n \in Name, Withdrawn(n)
    PROVE  Withdrawn(n)'
<1>1. CASE \E k \in DOMAIN coll : DeleteMR(k) \/ DeleteSecret(k)
  BY <1>1, AssetType DEF Inv, TypeOK, Asset, DeleteMR, DeleteSecret, Withdrawn
<1>2. CASE \E m \in Name : Finalize(m)
  BY <1>2 DEF Inv, TypeOK, Finalize, Withdrawn
<1>3. CASE LeaveSeed
  BY <1>3 DEF LeaveSeed, Withdrawn
<1>4. CASE UNCHANGED seed
  BY <1>4 DEF seed, Withdrawn
<1> QED
  BY <1>1, <1>2, <1>3, <1>4, SeedSteps, AdvancesFacts DEF Finish, Outside

-----------------------------------------------------------------------------
(* ManagedResources and their secrets *)

LEMMA OrderNext == Inv /\ Order /\ [Next]_vars => Order'
<1> SUFFICES ASSUME Inv, Order, [Next]_vars, pc' = "deleteSecret" PROVE Order'
  BY DEF Order
<1>1. CASE \E k \in DOMAIN coll : DeleteMR(k)
  <2>1. PICK k \in DOMAIN coll : DeleteMR(k)
    BY <1>1
  <2>2. coll[k].name \in Name /\ k \in todo /\ IsNext(k) /\ todo' = todo /\ coll' = coll
    BY <2>1, AssetType DEF Inv, Asset, DeleteMR, IsNext, coll
  <2>3. mr'[coll[k].name] # "live"
    BY <2>1, <2>2 DEF Inv, TypeOK, DeleteMR
  <2>4. ASSUME NEW m \in todo', IsNext(m)' PROVE mr'[coll'[m].name] # "live"
    <3>1. m \in todo /\ IsNext(m)
      BY <2>2, <2>4 DEF IsNext
    <3>2. m = k
      BY <2>2, <3>1, NextUnique DEF Inv
    <3> QED
      BY <2>2, <2>3, <3>2
  <2> QED
    BY <2>4 DEF Order
<1>2. CASE \E n \in Name : Finalize(n)
  <2>1. /\ UNCHANGED <<request, rel>>
        /\ \A n \in Name : mr[n] # "live" => mr'[n] # "live"
    BY <1>2 DEF Finalize, Inv, TypeOK
  <2>2. \A k \in DOMAIN coll : coll[k].name \in Name
    BY AssetType DEF Inv, Asset
  <2>3. todo \subseteq DOMAIN coll
    BY DEF Inv, TypeOK
  <2> QED
    BY <2>1, <2>2, <2>3 DEF Order, request, IsNext, coll
<1>3. CASE LeaveSeed
  <2>1. mr' = [n \in Name |-> "absent"] /\ UNCHANGED <<request, rel>>
    BY <1>3 DEF LeaveSeed
  <2>2. \A k \in todo : coll[k].name \in Name
    BY AssetType DEF Inv, Asset, TypeOK
  <2> QED
    BY <2>1, <2>2 DEF Order, request, coll
<1>4. CASE Outside
  BY <1>4 DEF Outside, Order, request, seed, IsNext, coll
<1> QED
  BY <1>1, <1>2, <1>3, <1>4, SeedSteps, AdvancesFacts
     DEF SecretWritten, MRWritten, DeleteSecret, Finish, NoRequest

LEMMA LiveHasDataNext == Inv /\ Order /\ LiveHasData /\ [Next]_vars => LiveHasData'
<1> SUFFICES ASSUME Inv, Order, LiveHasData, [Next]_vars, NEW n \in Name, mr'[n] = "live"
             PROVE  mrData'[n] # NoData
  BY DEF LiveHasData
<1>1. CASE SecretWritten
  <2>1. packs[i].version \in Version
    BY <1>1, CurrentPack DEF SecretWritten
  <2>2. mrData'[n] = mrData[n] \/ mrData'[n] = [version |-> packs[i].version, patches |-> got]
    BY <1>1 DEF SecretWritten, Inv, TypeOK
  <2>3. [version |-> packs[i].version, patches |-> got] # NoData
    BY <2>1, ConstantsType DEF NoData
  <2> QED
    BY <1>1, <2>2, <2>3 DEF SecretWritten, LiveHasData
<1>2. CASE MRWritten
  <2>1. /\ packs[i].version \in Version
        /\ mrData[packs[i].name] = [version |-> packs[i].version, patches |-> got]
    BY <1>2, CurrentPack DEF MRWritten, Inv, Control
  <2>2. [version |-> packs[i].version, patches |-> got] # NoData
    BY <2>1, ConstantsType DEF NoData
  <2>3. mr[n] = "live" \/ n = packs[i].name
    BY <1>2 DEF MRWritten, Inv, TypeOK
  <2> QED
    BY <1>2, <2>1, <2>2, <2>3 DEF MRWritten, LiveHasData
<1>3. CASE \E k \in DOMAIN coll : DeleteMR(k)
  BY <1>3, AssetType DEF DeleteMR, LiveHasData, Inv, TypeOK, Asset
<1>4. CASE \E k \in DOMAIN coll : DeleteSecret(k)
  <2>1. PICK k \in DOMAIN coll : DeleteSecret(k)
    BY <1>4
  <2>2. mr[coll[k].name] # "live"
    BY <2>1 DEF DeleteSecret, IsNext, Order
  <2> QED
    BY <2>1, <2>2 DEF DeleteSecret, LiveHasData, Inv, TypeOK
<1>5. CASE \E m \in Name : Finalize(m)
  BY <1>5 DEF Finalize, LiveHasData, Inv, TypeOK
<1>6. CASE LeaveSeed
  BY <1>6 DEF LeaveSeed
<1>7. CASE UNCHANGED seed
  BY <1>7 DEF seed, LiveHasData
<1> QED
  BY <1>1, <1>2, <1>3, <1>4, <1>5, <1>6, <1>7, SeedSteps, AdvancesFacts DEF Finish, Outside

-----------------------------------------------------------------------------
(* The delete loop *)

Looping == pc \in {"deleteMR", "deleteSecret", "finish"}

LEMMA SweptNext == Inv /\ Order /\ Swept /\ [Next]_vars => Swept'
<1> SUFFICES ASSUME Inv, Order, Swept, [Next]_vars, Looping' PROVE Swept'
  BY DEF Swept, Looping
<1>0. SUFFICES ASSUME NEW k \in DOMAIN coll', k \notin todo',
                      Deleting' \/ (Awake' /\ Disabled(k)')
               PROVE  Withdrawn(coll[k].name)'
  BY DEF Swept
<1>1. CASE SecretWritten \/ MRWritten \/ NoRequest \/ Finish
  BY <1>1 DEF SecretWritten, MRWritten, NoRequest, Finish, Looping
<1>2. CASE StartReconcile \/ \E how \in {"delete", "forceDelete"} : StartDelete(how)
  <2>1. ~StartReconcile
    BY DEF StartReconcile, Looping
  <2>2. todo' = DOMAIN coll /\ coll' = coll
    BY <1>2, <2>1 DEF StartDelete, coll
  <2> QED
    BY <2>2, <1>0
<1>3. CASE AfterPacks
  <2>1. Awake /\ op' = op /\ UNCHANGED <<spec, rel, snap>>
    BY <1>3 DEF AfterPacks, Inv, Control
  <2>2. ~Deleting'
    BY <2>1 DEF Awake, Reconciling, Deleting
  <2>3. Disabled(k)
    BY <2>1, <2>2, <1>0 DEF Disabled, packs, coll
  <2> QED
    BY <2>1, <2>3, <1>0, <1>3 DEF AfterPacks, coll
<1>4. CASE (GetCluster \/ NextPack \/ ReadPatch) /\ ~NoRequest
  <2>1. pc' = "finish" /\ snap'.hibernated /\ op' = op /\ Reconciling
    BY <1>4 DEF GetCluster, NextPack, ReadPatch, Abort, Looping, Inv, Control
  <2> QED
    BY <2>1, <1>0 DEF Awake, Deleting, Reconciling
<1>5. CASE \E m \in DOMAIN coll : DeleteSecret(m)
  <2>1. PICK m \in DOMAIN coll : DeleteSecret(m)
    BY <1>5
  <2>2. /\ mrData' = [mrData EXCEPT ![coll[m].name] = NoData] /\ todo' = todo \ {m}
        /\ pc = "deleteSecret" /\ IsNext(m) /\ m \in todo
        /\ UNCHANGED <<op, spec, snap, mr, rel>>
    BY <2>1 DEF DeleteSecret, IsNext
  <2>3. coll[m].name \in Name /\ coll[k].name \in Name
    BY <2>2, AssetType DEF Inv, Asset, coll
  <2>4. CASE k = m
    <3>1. mr[coll[m].name] # "live"
      BY <2>2 DEF Order
    <3>2. mrData'[coll[m].name] = NoData
      BY <2>2, <2>3 DEF Inv, TypeOK
    <3> QED
      BY <2>2, <2>4, <3>1, <3>2 DEF Withdrawn, coll
  <2>5. CASE k # m
    <3>1. Withdrawn(coll[k].name)
      BY <2>2, <2>5, <1>0 DEF Swept, Deleting, Awake, Reconciling, Disabled, packs, coll
    <3> QED
      BY <2>2, <2>3, <3>1 DEF Withdrawn, Inv, TypeOK, coll
  <2> QED
    BY <2>4, <2>5
<1>6. CASE /\ UNCHANGED <<op, spec, snap, todo, rel>> /\ Looping
           /\ ~SecretWritten /\ ~MRWritten
  <2>1. coll[k].name \in Name /\ coll' = coll
    BY <1>6, AssetType DEF Inv, Asset, coll
  <2>2. Withdrawn(coll[k].name)
    BY <1>6, <1>0, <2>1 DEF Swept, Deleting, Awake, Reconciling, Disabled, packs, Looping
  <2> QED
    BY <1>6, <2>1, <2>2, WithdrawnStays
<1>7. CASE \E m \in DOMAIN coll : DeleteMR(m)
  BY <1>1, <1>6, <1>7 DEF DeleteMR, Looping
<1>8. CASE AfterDeletes
  BY <1>1, <1>6, <1>8 DEF AfterDeletes, Looping
<1>9. CASE LeaveSeed \/ Outside \/ \E n \in Name : Finalize(n)
  BY <1>1, <1>6, <1>9 DEF LeaveSeed, Outside, Finalize, request, Looping
<1> QED
  BY <1>1, <1>2, <1>3, <1>4, <1>5, <1>7, <1>8, <1>9, SeedSteps DEF Advances

Inv2 == Inv /\ Order /\ LiveHasData /\ Swept

\* Order, LiveHasData and Swept hold for any releases.
THEOREM Inv2Correct == Spec => []Inv2
<1>1. Init => Inv2
  <2> SUFFICES ASSUME Init PROVE Inv2
    OBVIOUS
  <2>1. Inv
    BY InvInit
  <2>2. Order /\ LiveHasData /\ Swept
    BY DEF Init, Order, LiveHasData, Swept
  <2> QED
    BY <2>1, <2>2 DEF Inv2
<1>2. Inv2 /\ [Next]_vars => Inv2'
  BY InvNext, OrderNext, LiveHasDataNext, SweptNext DEF Inv2
<1> QED
  BY <1>1, <1>2, PTL DEF Spec

\* The resource manager never meets a ManagedResource without its secret
\* (CreateForShoot writes the secret first, DeleteForShoot deletes it last).
THEOREM LiveHasDataCorrect == Spec => []LiveHasData
BY Inv2Correct, PTL DEF Inv2

-----------------------------------------------------------------------------
(* Configured packs are in place *)

\* A disabled pack does not share its name with a pack that Reconcile has
\* found in the collection, because no release has two versions of one pack.
LEMMA DisabledIsOther ==
    ASSUME Inv, SingleVersion, Awake,
           NEW k \in DOMAIN coll, Disabled(k), NEW j \in 1..(i - 1)
    PROVE  packs[j].name # coll[k].name
<1>1. PICK m \in DOMAIN coll : coll[m].name = packs[j].name /\ coll[m].version = packs[j].version
  BY DEF Inv, Control, PackExists
<1>2. j \in DOMAIN packs
  BY PacksIsSeq DEF Inv, TypeOK
<1>3. rel \in DOMAIN Releases
  BY DEF Inv, TypeOK
<1>4. SUFFICES ASSUME packs[j].name = coll[k].name PROVE FALSE
  OBVIOUS
<1>5. k = m
  BY <1>1, <1>3, <1>4 DEF SingleVersion, coll
<1> QED
  BY <1>1, <1>2, <1>5 DEF Disabled

LEMMA ProgressNext == Inv /\ Progress /\ SingleVersion /\ [Next]_vars => Progress'
<1> SUFFICES ASSUME Inv, Progress, SingleVersion, [Next]_vars, Awake',
                    NEW j \in 1..(i' - 1)
             PROVE  Delivered(packs[j])'
  BY DEF Progress
<1> USE DEF Delivered
<1>1. CASE SecretWritten
  <2>1. j \in 1..(i - 1) /\ j # i /\ packs' = packs /\ Awake
    BY <1>1 DEF SecretWritten, Awake, Reconciling, packs
  <2>2. Delivered(packs[j])
    BY <2>1 DEF Progress
  <2>3. j \in DOMAIN packs /\ i \in DOMAIN packs /\ IsValid(packs) /\ packs \in Seq(PackSpec)
    BY <1>1, <2>1, CurrentPack, PacksIsSeq DEF SecretWritten, Inv, TypeOK, Control
  <2>4. packs[j].name # packs[i].name
    BY <2>1, <2>3, DistinctNames
  <2>5. mrData'[packs[j].name] = mrData[packs[j].name]
    BY <1>1, <2>4 DEF SecretWritten, Inv, TypeOK
  <2> QED
    BY <1>1, <2>1, <2>2, <2>5 DEF SecretWritten
<1>2. CASE MRWritten
  <2> DEFINE n == packs[i].name
  <2>1. /\ packs' = packs /\ Awake /\ i \in 1..Len(packs) /\ n \in Name
        /\ (j \in 1..(i - 1) \/ j = i)
    BY <1>2, CurrentPack DEF MRWritten, Awake, Reconciling, packs
  <2>2. /\ mr' = [mr EXCEPT ![n] = IF @ = "absent" THEN "live" ELSE @]
        /\ late' = (IF mr[n] = "terminating" THEN late \cup {n} ELSE late)
        /\ mrData' = mrData
    BY <1>2 DEF MRWritten
  <2>3. mr'[n] = "live" \/ n \in late'
    BY <2>1, <2>2 DEF Inv, TypeOK
  <2>4. CASE j = i
    <3>1. /\ mrData[n].version = packs[i].version
          /\ Len(mrData[n].patches) = Len(packs[i].patches)
      BY <1>2 DEF MRWritten, Inv, Control
    <3> QED
      BY <2>1, <2>2, <2>3, <2>4, <3>1
  <2>5. CASE j \in 1..(i - 1)
    <3>1. Delivered(packs[j])
      BY <2>1, <2>5 DEF Progress
    <3>2. \A x : mr[x] = "live" => mr'[x] = "live"
      BY <2>1, <2>2 DEF Inv, TypeOK
    <3>3. late \subseteq late'
      BY <2>2
    <3> QED
      BY <2>1, <2>2, <3>1, <3>2, <3>3
  <2> QED
    BY <2>1, <2>4, <2>5
<1>3. CASE \E k \in DOMAIN coll : DeleteMR(k) \/ DeleteSecret(k)
  <2>1. PICK k \in DOMAIN coll : DeleteMR(k) \/ DeleteSecret(k)
    BY <1>3
  <2>2. /\ UNCHANGED <<packs, i, late>> /\ Awake /\ k \in todo
        /\ \/ mr' = mr
           \/ mr' = [mr EXCEPT ![coll[k].name] = IF @ = "live" THEN "terminating" ELSE @]
        /\ mrData' = mrData \/ mrData' = [mrData EXCEPT ![coll[k].name] = NoData]
    BY <2>1 DEF DeleteMR, DeleteSecret, Awake, Reconciling, IsNext, packs
  <2>3. Delivered(packs[j]) /\ Disabled(k)
    BY <2>2 DEF Progress, Inv, Control
  <2>4. packs[j].name # coll[k].name
    BY <2>2, <2>3, DisabledIsOther
  <2>5. packs[j].name \in Name
    BY <2>2, AssetType DEF Inv, Control, PackExists, Asset
  <2>6. mr'[packs[j].name] = mr[packs[j].name] /\ mrData'[packs[j].name] = mrData[packs[j].name]
    BY <2>2, <2>4, <2>5 DEF Inv, TypeOK
  <2> QED
    BY <2>2, <2>3, <2>6
<1>4. CASE \E n \in Name : Finalize(n)
  <2>1. /\ UNCHANGED <<packs, i, late, mrData>> /\ Awake
        /\ \A x : mr[x] = "live" => mr'[x] = "live"
    BY <1>4 DEF Finalize, request, Awake, Reconciling, packs, Inv, TypeOK
  <2> QED
    BY <2>1 DEF Progress
<1>5. CASE LeaveSeed \/ NoRequest \/ Finish
  <2>1. op' = "none"
    BY <1>5 DEF LeaveSeed, NoRequest, Finish, request, Inv, Attached, TypeOK, Deleting
  <2> QED
    BY <2>1 DEF Awake, Reconciling
<1>6. CASE Advances
  <2>1. UNCHANGED <<seed, i, late>>
    BY <1>6, AdvancesFacts
  <2>2. CASE pc \in {"idle", "cluster"}
    BY <2>1, <2>2 DEF Inv, Control
  <2>3. CASE pc \notin {"idle", "cluster"}
    <3>1. UNCHANGED <<packs, op, snap>>
      BY <1>6, <2>3 DEF Advances, StartReconcile, StartDelete, GetCluster, NextPack,
                        ReadPatch, AfterPacks, AfterDeletes, Abort, packs
    <3>2. Delivered(packs[j])
      BY <2>1, <3>1 DEF Progress, Awake, Reconciling
    <3> QED
      BY <2>1, <3>1, <3>2 DEF seed
  <2> QED
    BY <2>2, <2>3
<1>7. CASE Outside
  BY <1>7 DEF Outside, request, seed, Progress, Awake, Reconciling, packs
<1> QED
  BY <1>1, <1>2, <1>3, <1>4, <1>5, <1>6, <1>7, SeedSteps

\* Reconcile deletes nothing, and reports no success, before every configured
\* pack is in place, and its deletes spare them.
THEOREM DeliverBeforeWithdrawCorrect == SingleVersion => (Spec => []DeliverBeforeWithdraw)
<1> SUFFICES ASSUME SingleVersion PROVE Spec => []DeliverBeforeWithdraw
  OBVIOUS
<1>1. Init => Progress
  BY DEF Init, Progress, Awake, Reconciling
<1>2. Inv /\ Progress /\ [Next]_vars => Progress'
  BY ProgressNext
<1>3. Inv /\ Progress => DeliverBeforeWithdraw
  <2> SUFFICES ASSUME Inv, Progress, Awake, pc \in {"deleteMR", "deleteSecret", "finish"},
                      NEW j \in DOMAIN packs
               PROVE  Delivered(packs[j])
    BY DEF DeliverBeforeWithdraw, Awake
  <2>1. i = Len(packs) + 1
    BY DEF Inv, Control
  <2>2. j \in 1..(i - 1)
    BY <2>1, PacksIsSeq DEF Inv
  <2> QED
    BY <2>2 DEF Progress
<1> QED
  BY <1>1, <1>2, <1>3, InvCorrect, PTL DEF Spec

\* Neither a change of version nor an upgrade, a crash or an error takes a
\* pack down.
THEOREM TakenDownOnRequestCorrect == SingleVersion => (Spec => TakenDownOnRequest)
<1> SUFFICES ASSUME SingleVersion PROVE Spec => TakenDownOnRequest
  OBVIOUS
<1>1. Inv /\ [Next]_vars =>
        [\A n \in Name : mr[n] = "live" /\ mr'[n] # "live" =>
              Deleting \/ n \notin Configured \/ ext.st = "migrated"]_vars
  <2> SUFFICES ASSUME Inv, [Next]_vars, NEW n \in Name, mr[n] = "live", mr'[n] # "live"
               PROVE  Deleting \/ n \notin Configured \/ ext.st = "migrated"
    OBVIOUS
  <2>1. CASE SecretWritten \/ UNCHANGED seed
    BY <2>1 DEF SecretWritten, seed
  <2>2. CASE MRWritten
    BY <2>2 DEF MRWritten, Inv, TypeOK
  <2>3. CASE \E m \in Name : Finalize(m)
    BY <2>3 DEF Finalize, Inv, TypeOK
  <2>4. CASE LeaveSeed
    BY <2>4 DEF LeaveSeed
  <2>5. CASE \E k \in DOMAIN coll : DeleteMR(k) \/ DeleteSecret(k)
    <3>1. PICK k \in DOMAIN coll : DeleteMR(k)
      BY <2>5 DEF DeleteSecret
    <3>2. n = coll[k].name /\ k \in todo /\ pc = "deleteMR"
      BY <3>1 DEF DeleteMR, IsNext, Inv, TypeOK
    <3>4. CASE Awake
      <4>1. Disabled(k) /\ i = Len(packs) + 1
        BY <3>2, <3>4 DEF Inv, Control
      <4>2. DOMAIN packs = 1..(i - 1)
        BY <4>1, PacksIsSeq DEF Inv
      <4>3. ASSUME NEW j \in DOMAIN packs PROVE packs[j].name # n
        <5>1. j \in 1..(i - 1)
          BY <4>2
        <5>2. packs[j].name # coll[k].name
          BY <3>4, <4>1, <5>1, DisabledIsOther
        <5> QED
          BY <3>2, <5>2
      <4> QED
        BY <4>3 DEF Configured
    <3>5. CASE ~Awake
      BY <3>2, <3>5 DEF Inv, Control
    <3> QED
      BY <3>4, <3>5
  <2> QED
    BY <2>1, <2>2, <2>3, <2>4, <2>5, SeedSteps, AdvancesFacts DEF Finish, Outside
<1> QED
  BY <1>1, InvCorrect, PTL DEF Spec, TakenDownOnRequest

-----------------------------------------------------------------------------
(* Nothing is left behind *)

LEMMA WrittenIsOwned ==
    ASSUME Inv, pc \in {"patch", "writeMR"}
    PROVE  packs[i].name \in NamesOf(coll)
BY DEF Inv, Control, PackExists, NamesOf

\* The packs on the seed belong to the collection, of whatever release.
LEMMA OwnedNext == Inv /\ Owned /\ SameNames /\ [Next]_vars => Owned'
<1> SUFFICES ASSUME Inv, Owned, SameNames, [Next]_vars, NEW n \in Name
             PROVE  Withdrawn(n)' \/ n \in NamesOf(coll)'
  BY DEF Owned
<1>1. NamesOf(coll)' = NamesOf(coll)
  <2>1. rel \in DOMAIN Releases /\ rel' \in DOMAIN Releases
    <3>1. rel \in DOMAIN Releases
      BY DEF Inv, TypeOK
    <3>2. rel' \in DOMAIN Releases
      BY InvNext DEF Inv, TypeOK
    <3> QED
      BY <3>1, <3>2
  <2> QED
    BY <2>1 DEF SameNames, coll, NamesOf
<1>2. CASE SecretWritten \/ MRWritten
  <2>1. n = packs[i].name \/ (mr'[n] = mr[n] /\ mrData'[n] = mrData[n])
    BY <1>2 DEF SecretWritten, MRWritten, Inv, TypeOK
  <2>2. packs[i].name \in NamesOf(coll)
    BY <1>2, WrittenIsOwned DEF SecretWritten, MRWritten
  <2> QED
    BY <1>1, <2>1, <2>2 DEF Owned, Withdrawn
<1>3. CASE ~SecretWritten /\ ~MRWritten
  BY <1>1, <1>3, WithdrawnStays DEF Owned
<1> QED
  BY <1>2, <1>3

\* At the end of Delete the loop has been over every pack there can be.
LEMMA DeleteEnds ==
    ASSUME Inv2, Owned, Deleting, pc = "finish"
    PROVE  AllWithdrawn
<1>1. todo = {}
  BY DEF Inv2, Inv, Control
<1>2. \A k \in DOMAIN coll : Withdrawn(coll[k].name)
  BY <1>1 DEF Inv2, Swept
<1> QED
  BY <1>2 DEF Owned, NamesOf, AllWithdrawn

LEMMA GuardedNext == Inv2 /\ Owned /\ Guarded /\ [Next]_vars => Guarded'
<1> SUFFICES ASSUME Inv2, Owned, Guarded, [Next]_vars PROVE Guarded'
  OBVIOUS
<1> DEFINE Loose(e) == \/ e.st = "absent"
                       \/ e.st = "active" /\ ~e.finalizer /\ e.op # "migrate"
<1>1. Loose(ext) => AllWithdrawn
  BY DEF Guarded
<1>2. SUFFICES ASSUME Loose(ext') PROVE AllWithdrawn'
  BY DEF Guarded
<1>3. Inv /\ ext \in ExtType
  BY DEF Inv2, Inv, TypeOK, ExtType
<1>4. ASSUME Loose(ext), ~SecretWritten, ~MRWritten PROVE AllWithdrawn'
  <2>1. ASSUME NEW n \in Name PROVE Withdrawn(n)'
    BY <1>1, <1>3, <1>4, WithdrawnStays DEF AllWithdrawn
  <2> QED
    BY <2>1 DEF AllWithdrawn
<1>5. CASE SecretWritten \/ MRWritten
  <2>1. Reconciling /\ ext' = ext
    BY <1>3, <1>5 DEF SecretWritten, MRWritten, garden, Inv, Control
  <2> QED
    BY <1>2, <1>3, <2>1 DEF Reconciling, Inv, Attached
<1>6. CASE LeaveSeed
  BY <1>6 DEF LeaveSeed, AllWithdrawn, Withdrawn
<1>7. CASE Finish
  <2>1. CASE Deleting
    <3>1. AllWithdrawn /\ UNCHANGED seed
      BY <1>7, <2>1, DeleteEnds DEF Finish
    <3> QED
      BY <3>1 DEF AllWithdrawn, Withdrawn, seed
  <2>2. CASE ~Deleting /\ op = "migrate"
    <3>1. ext' = [ext EXCEPT !.st = "migrated", !.finalizer = FALSE]
      BY <1>7, <2>2 DEF Finish
    <3>2. ext'.st = "migrated"
      BY <3>1, <1>3 DEF ExtType
    <3> QED
      BY <1>2, <3>2
  <2>3. CASE ~Deleting /\ op # "migrate"
    <3>1. ext' = [ext EXCEPT !.op = IF @ = "restore" THEN "reconcile" ELSE @]
      BY <1>7, <2>3 DEF Finish
    <3>2. ext'.st = ext.st /\ ext'.finalizer = ext.finalizer
      BY <3>1, <1>3 DEF ExtType
    <3>3. op # "none"
      BY <1>3, <1>7 DEF Finish, Inv, Control
    <3>4. ext.finalizer /\ ext.st # "absent"
      BY <1>3, <2>3, <3>3 DEF Inv, Attached, TypeOK, Deleting
    <3> QED
      BY <1>2, <3>2, <3>4
  <2> QED
    BY <2>1, <2>2, <2>3
<1>8. CASE ext' = ext /\ ~SecretWritten /\ ~MRWritten
  BY <1>2, <1>4, <1>8
<1>9. CASE Advances
  <2>1. CASE StartReconcile
    <3>1. ext' = [ext EXCEPT !.finalizer = @ \/ ext.op # "migrate"] /\ ext.st = "active"
      BY <2>1 DEF StartReconcile
    <3>2. ext'.st = "active" /\ ext'.op = ext.op /\ (ext'.finalizer \/ ext.op = "migrate")
      BY <3>1, <1>3 DEF ExtType
    <3> QED
      BY <1>2, <3>2
  <2>2. CASE ~StartReconcile
    <3>1. ext' = ext
      BY <1>9, <2>2 DEF Advances, StartDelete, GetCluster, NextPack, ReadPatch,
                        AfterPacks, AfterDeletes, Abort, garden
    <3> QED
      BY <1>5, <1>8, <3>1
  <2> QED
    BY <2>1, <2>2
<1>10. CASE Outside /\ ~LeaveSeed
  <2>1. ~SecretWritten /\ ~MRWritten
    BY <1>10 DEF Outside, SecretWritten, MRWritten, request
  <2>2. Loose(ext)
    <3>1. CASE RequestMigrate
      <4>1. ext' = [ext EXCEPT !.op = "migrate"] /\ ext.st = "active"
        BY <3>1 DEF RequestMigrate
      <4>2. ext'.st = "active" /\ ext'.op = "migrate"
        BY <4>1, <1>3 DEF ExtType
      <4> QED
        BY <1>2, <4>2
    <3>2. CASE UpdateExtension
      <4>1. ext' = [ext EXCEPT !.provider = cluster.provider]
        BY <3>2 DEF UpdateExtension
      <4>2. ext'.st = ext.st /\ ext'.op = ext.op /\ ext'.finalizer = ext.finalizer
        BY <4>1, <1>3 DEF ExtType
      <4> QED
        BY <1>2, <4>2
    <3>3. CASE DeleteExtension
      <4>1. ext.st = "active" /\ ext.op # "migrate"
        BY <3>3 DEF DeleteExtension
      <4>2. CASE ext.finalizer
        <5>1. ext' = [ext EXCEPT !.st = "deleting"]
          BY <3>3, <4>2 DEF DeleteExtension
        <5>2. ext'.st = "deleting"
          BY <5>1, <1>3 DEF ExtType
        <5> QED
          BY <1>2, <5>2
      <4> QED
        BY <4>1, <4>2
    <3>4. CASE \E how \in {"reconcile", "restore"} : CreateExtension(how)
      BY <3>4 DEF CreateExtension
    <3>5. CASE ext' = ext
      BY <1>2, <3>5
    <3> QED
      BY <1>10, <3>1, <3>2, <3>3, <3>4, <3>5
         DEF Outside, Users, Gardener, EditShoot, EditSecret, SyncCluster, vars, garden
  <2> QED
    BY <1>4, <2>1, <2>2
<1> QED
  BY <1>5, <1>6, <1>7, <1>8, <1>9, <1>10, SeedSteps
     DEF DeleteMR, DeleteSecret, Finalize, garden

Inv3 == Inv2 /\ Owned /\ Guarded

LEMMA Inv3Correct == SameNames => (Spec => []Inv3)
<1> SUFFICES ASSUME SameNames PROVE Spec => []Inv3
  OBVIOUS
<1>1. Init => Owned /\ Guarded
  BY DEF Init, Owned, Guarded, AllWithdrawn, Withdrawn
<1>2. Inv2 /\ Owned /\ Guarded /\ [Next]_vars => Owned' /\ Guarded'
  BY OwnedNext, GuardedNext DEF Inv2
<1> QED
  BY <1>1, <1>2, Inv2Correct, PTL DEF Spec, Inv3

\* A successful Delete or ForceDelete leaves no pack behind.
THEOREM DeleteWithdrawsAllCorrect == SameNames => (Spec => []DeleteWithdrawsAll)
<1> SUFFICES ASSUME SameNames PROVE Spec => []DeleteWithdrawsAll
  OBVIOUS
<1>1. Inv3 => DeleteWithdrawsAll
  BY DeleteEnds DEF Inv3, DeleteWithdrawsAll, AllWithdrawn
<1> QED
  BY <1>1, Inv3Correct, PTL

\* There is no pack without an Extension.
THEOREM GoneMeansWithdrawnCorrect == SameNames => (Spec => []GoneMeansWithdrawn)
<1> SUFFICES ASSUME SameNames PROVE Spec => []GoneMeansWithdrawn
  OBVIOUS
<1>1. Inv3 => GoneMeansWithdrawn
  BY DEF Inv3, Guarded, GoneMeansWithdrawn, AllWithdrawn
<1> QED
  BY <1>1, Inv3Correct, PTL

\* A successful Reconcile of a shoot that is awake leaves no pack behind that
\* is not configured.
THEOREM SuccessWithdrawsTheRestCorrect ==
    SameNames => (Spec => []SuccessWithdrawsTheRest)
<1> SUFFICES ASSUME SameNames PROVE Spec => []SuccessWithdrawsTheRest
  OBVIOUS
<1>1. Inv3 => SuccessWithdrawsTheRest
  <2> SUFFICES ASSUME Inv3, Awake, pc = "finish", NEW n \in Name \ Configured
               PROVE  Withdrawn(n)
    BY DEF SuccessWithdrawsTheRest, Awake
  <2>1. CASE n \in NamesOf(coll)
    <3>1. PICK k \in DOMAIN coll : coll[k].name = n
      BY <2>1 DEF NamesOf
    <3>2. Disabled(k) /\ k \notin todo
      BY <3>1 DEF Disabled, Configured, Inv3, Inv2, Inv, Control
    <3> QED
      BY <3>1, <3>2 DEF Inv3, Inv2, Swept
  <2>2. CASE n \notin NamesOf(coll)
    BY <2>2 DEF Inv3, Owned
  <2> QED
    BY <2>1, <2>2
<1> QED
  BY <1>1, Inv3Correct, PTL

\* The inductive invariant that the run checks holds of every release, shoot
\* and bound: the state of a request (Reconcile, Delete) at each of its calls.
THEOREM InductiveCorrect == Spec => []Inductive
<1>1. Init => Inductive
  <2> SUFFICES ASSUME Init PROVE Inductive
    OBVIOUS
  <2>1. Inv
    BY InvInit
  <2>2. Order /\ Swept /\ LiveHasData /\ Progress /\ Owned /\ Guarded
    BY DEF Init, Order, Swept, LiveHasData, Progress, Awake, Reconciling, Owned, Guarded,
           AllWithdrawn, Withdrawn
  <2> QED
    BY <2>1, <2>2 DEF Inv, Inductive
<1>2. Inductive /\ [Next]_vars => Inductive'
  <2> SUFFICES ASSUME Inductive, [Next]_vars PROVE Inductive'
    OBVIOUS
  <2>1. Inv2
    BY DEF Inductive, Inv, Inv2
  <2>2. Inv' /\ Order' /\ LiveHasData' /\ Swept'
    BY <2>1, InvNext, OrderNext, LiveHasDataNext, SweptNext DEF Inv2
  <2>3. SingleVersion => Progress'
    BY <2>1, ProgressNext DEF Inductive, Inv2
  <2>4. SameNames => Owned' /\ Guarded'
    BY <2>1, OwnedNext, GuardedNext DEF Inductive, Inv2
  <2>5. (SingleVersion <=> SingleVersion') /\ (SameNames <=> SameNames')
    BY DEF SingleVersion, SameNames
  <2> QED
    BY <2>2, <2>3, <2>4, <2>5 DEF Inv, Inductive
<1> QED
  BY <1>1, <1>2, PTL DEF Spec

-----------------------------------------------------------------------------
(* III. Refinement: what a request works on *)

\* The snapshot is taken and packs are missed only when a request is past
\* GetCluster, and it goes on to the packs only with a config.
Begun ==
    /\ pc \in {"idle", "cluster"} => ~snap.hibernated /\ late = {}
    /\ pc \notin {"idle", "cluster"} /\ Awake => spec.kind = "config"

Inv4 == Inv3 /\ Progress /\ Begun

LEMMA BegunInit == Init => Begun
BY DEF Init, Begun, NoShoot, Awake, Reconciling

LEMMA BegunNext == Inv /\ Begun /\ [Next]_vars => Begun'
<1> SUFFICES ASSUME Inv, Begun, [Next]_vars PROVE Begun'
  OBVIOUS
<1>1. CASE SecretWritten \/ MRWritten
  BY <1>1 DEF SecretWritten, MRWritten, Begun, Awake, Reconciling
<1>2. CASE \E k \in DOMAIN coll : DeleteMR(k) \/ DeleteSecret(k)
  BY <1>2 DEF DeleteMR, DeleteSecret, Begun, Awake, Reconciling
<1>3. CASE UNCHANGED request
  BY <1>3 DEF request, Begun, Awake, Reconciling
<1>4. CASE NoRequest
  BY <1>4 DEF NoRequest, NoShoot, Begun, Awake, Reconciling
<1>5. CASE Advances /\ ~NoRequest
  <2>1. CASE StartReconcile \/ \E how \in {"delete", "forceDelete"} : StartDelete(how)
    BY <2>1 DEF StartReconcile, StartDelete, Begun, Awake, Reconciling
  <2>2. CASE GetCluster
    BY <1>5, <2>2 DEF GetCluster, Abort, Begun, Awake, Reconciling
  <2>3. CASE NextPack \/ ReadPatch \/ AfterPacks \/ AfterDeletes
    BY <1>5, <2>3 DEF NextPack, ReadPatch, AfterPacks, AfterDeletes, Abort,
                      Begun, Awake, Reconciling
  <2> QED
    BY <1>5, <2>1, <2>2, <2>3 DEF Advances
<1> QED
  BY <1>1, <1>2, <1>3, <1>4, <1>5, SeedSteps DEF Finalize, LeaveSeed, Finish, Outside

LEMMA Inv4Correct == SingleVersion /\ SameNames => (Spec => []Inv4)
<1> SUFFICES ASSUME SingleVersion, SameNames PROVE Spec => []Inv4
  OBVIOUS
<1>1. Init => Progress /\ Begun
  BY BegunInit DEF Init, Progress, Awake, Reconciling
<1>2. Inv3 /\ Progress /\ Begun /\ [Next]_vars => Progress' /\ Begun'
  BY ProgressNext, BegunNext DEF Inv3, Inv2
<1>3. Spec => []Inv3
  BY Inv3Correct
<1> QED
  BY <1>1, <1>2, <1>3, PTL DEF Spec, Inv4

-----------------------------------------------------------------------------
(* Goals *)

LEMMA NoPacks ==
    /\ ToHave("none", <<>>) = Store!NoGoal
    /\ ToHave("keep", <<>>) = Store!Keep
    /\ ToHave("packs", <<>>) = Store!Empty
<1>1. \A n : VersionIn(<<>>, n) = ""
  BY DEF VersionIn
<1> QED
  BY <1>1 DEF ToHave, Store!NoGoal, Store!Keep, Store!Empty, Store!Nothing, Store!None

\* A valid config has one version of each of its packs.
LEMMA ValidPack ==
    ASSUME NEW ps \in Seq(PackSpec), IsValid(ps), NEW j \in DOMAIN ps
    PROVE  /\ ps[j].name \in Name /\ ps[j].version \in Version
           /\ VersionIn(ps, ps[j].name) = ps[j].version
           /\ VersionIn(ps, ps[j].name) # ""
<1>1. ps[j] \in PackSpec
  BY LenProperties, ElementOfSeq
<1>2. ErrorsAt(ps, j) = {}
  BY DEF IsValid, ValidationErrors
<1>3. ps[j].name # "" /\ ps[j].version # ""
  BY <1>2 DEF ErrorsAt
<1>4. PICK m \in DOMAIN ps : /\ ps[m].name = ps[j].name
                             /\ VersionIn(ps, ps[j].name) = ps[m].version
  BY DEF VersionIn
<1>5. m = j
  BY <1>4, DistinctNames
<1> QED
  BY <1>1, <1>3, <1>4, <1>5 DEF PackSpec

LEMMA VersionType ==
    ASSUME NEW ps \in Seq(PackSpec), NEW n
    PROVE  VersionIn(ps, n) \in Version \cup {""}
<1>1. CASE \E j \in DOMAIN ps : ps[j].name = n
  <2>1. PICK m \in DOMAIN ps : VersionIn(ps, n) = ps[m].version
    BY <1>1 DEF VersionIn
  <2>2. ps[m] \in PackSpec
    BY LenProperties, ElementOfSeq
  <2> QED
    BY <2>1, <2>2 DEF PackSpec
<1>2. CASE ~ \E j \in DOMAIN ps : ps[j].name = n
  BY <1>2 DEF VersionIn
<1> QED
  BY <1>1, <1>2

LEMMA GoalType == \A provider \in Provider : GoalOf(provider) \in Store!Goal
<1> SUFFICES ASSUME NEW provider \in Provider PROVE GoalOf(provider) \in Store!Goal
  OBVIOUS
<1>1. \A ps \in Seq(PackSpec) : ToHave("packs", ps).packs \in Store!Packs
  BY VersionType DEF ToHave, Store!Packs, Store!None
<1>2. Store!Nothing \in Store!Packs
  BY DEF Store!Nothing, Store!Packs
<1>3. CASE provider.kind = "config" /\ IsValid(provider.packs)
  BY <1>1, <1>3 DEF GoalOf, ToHave, Store!Goal, Provider
<1>4. CASE ~(provider.kind = "config" /\ IsValid(provider.packs))
  BY <1>2, <1>4, NoPacks DEF GoalOf, Store!Goal, Store!NoGoal
<1> QED
  BY <1>3, <1>4

\* What an unusable config asks for is not the removal of all packs, and
\* neither is what a valid one asks for.
LEMMA GoalNotEmpty == \A provider \in Provider : GoalOf(provider) # Store!Empty
<1> SUFFICES ASSUME NEW provider \in Provider PROVE GoalOf(provider) # Store!Empty
  OBVIOUS
<1>1. CASE provider.kind = "config" /\ IsValid(provider.packs)
  <2> DEFINE ps == provider.packs
  <2>1. ps \in Seq(PackSpec) /\ ps # <<>>
    BY <1>1 DEF Provider, IsValid, ValidationErrors
  <2>2. 1 \in DOMAIN ps
    BY <2>1, LenProperties, EmptySeq
  <2>3. ps[1].name \in Name /\ VersionIn(ps, ps[1].name) # ""
    BY <1>1, <2>1, <2>2, ValidPack
  <2>4. GoalOf(provider).packs[ps[1].name] # ""
    BY <1>1, <2>3 DEF GoalOf, ToHave
  <2>5. Store!Empty.packs[ps[1].name] = ""
    BY <2>3 DEF Store!Empty, Store!Nothing, Store!None
  <2> QED
    BY <2>4, <2>5
<1>2. CASE ~(provider.kind = "config" /\ IsValid(provider.packs))
  BY <1>2 DEF GoalOf, ToHave, Store!Empty
<1> QED
  BY <1>1, <1>2

-----------------------------------------------------------------------------
(* The packs on the seed *)

Leaving == {n \in Name : mr[n] = "terminating"}

\* The goal of a request follows from what it has read.
LEMMA GoalKept == UNCHANGED <<op, spec, snap>> => GoalOfRequest' = GoalOfRequest
BY DEF GoalOfRequest, Deleting, Reconciling

LEMMA GoalAwake ==
    ASSUME Inv4, Awake, pc \notin {"idle", "cluster"}
    PROVE  /\ GoalOfRequest = ToHave("packs", packs)
           /\ packs \in Seq(PackSpec) /\ IsValid(packs)
<1>1. spec.kind = "config" /\ IsValid(packs) /\ packs \in Seq(PackSpec)
  BY PacksIsSeq DEF Inv4, Inv3, Inv2, Inv, Begun, Control
<1>2. Reconciling /\ ~Deleting /\ ~snap.hibernated
  BY DEF Awake, Reconciling, Deleting
<1> QED
  BY <1>1, <1>2 DEF GoalOfRequest, GoalOf, packs

LEMMA GoalDeleting == Deleting => GoalOfRequest = Store!Empty
BY NoPacks DEF GoalOfRequest, Deleting, Reconciling

\* The removal of all packs has no place to wait for.
LEMMA EmptyGoal ==
    ASSUME GoalOfRequest = Store!Empty
    PROVE  /\ GoalOfRequest.kind = "packs"
           /\ \A n \in Name : GoalOfRequest.packs[n] = ""
           /\ Store!InPlace
<1>1. GoalOfRequest.kind = "packs"
  BY DEF Store!Empty
<1>2. \A n \in Name : GoalOfRequest.packs[n] = ""
  BY DEF Store!Empty, Store!Nothing, Store!None
<1> QED
  BY <1>1, <1>2 DEF Store!InPlace, Store!None

LEMMA GoalNone == op = "none" => GoalOfRequest = Store!NoGoal
BY NoPacks DEF GoalOfRequest, Deleting, Reconciling

LEMMA GoalNonePrime == NoRequest => GoalOfRequest' = Store!NoGoal /\ late' = {}
BY NoPacks DEF GoalOfRequest, Deleting, Reconciling, NoRequest

LEMMA InstalledIs ==
    ASSUME Inv4, NEW n \in Name
    PROVE  /\ Installed[n] = IF mr[n] = "live" THEN mrData[n].version ELSE ""
           /\ mr[n] = "live" => Installed[n] # "" /\ n \notin Leaving
<1>1. mrData[n] \in Data \cup {NoData} /\ "" \notin Version
  BY ConstantsType DEF Inv4, Inv3, Inv2, Inv, TypeOK
<1>2. mr[n] = "live" => mrData[n] # NoData
  BY DEF Inv4, Inv3, Inv2, LiveHasData
<1> QED
  BY <1>1, <1>2 DEF Installed, Leaving, Data

\* Once a request is past the packs, all that it is to have is in place.
LEMMA PacksInPlace ==
    ASSUME Inv4, Awake, pc \in {"deleteMR", "deleteSecret", "finish"}
    PROVE  Store!InPlace
<1>1. /\ GoalOfRequest = ToHave("packs", packs)
      /\ packs \in Seq(PackSpec) /\ IsValid(packs)
  BY GoalAwake
<1>2. SUFFICES ASSUME NEW n \in Name, VersionIn(packs, n) # ""
               PROVE  Installed[n] = VersionIn(packs, n) \/ n \in late
  BY <1>1 DEF Store!InPlace, Store!None, ToHave
<1>3. PICK j \in DOMAIN packs : packs[j].name = n
  BY <1>2 DEF VersionIn
<1>4. VersionIn(packs, n) = packs[j].version
  BY <1>1, <1>3, ValidPack
<1>5. j \in 1..(i - 1)
  BY PacksIsSeq DEF Inv4, Inv3, Inv2, Inv, Control
<1>6. Delivered(packs[j])
  BY <1>5 DEF Inv4, Progress
<1> QED
  BY <1>3, <1>4, <1>6, InstalledIs DEF Delivered

\* A pack of the collection that is disabled is not part of the goal.
LEMMA DisabledNotGoal ==
    ASSUME Inv4, SingleVersion, Awake, pc \in {"deleteMR", "deleteSecret"},
           NEW k \in todo
    PROVE  VersionIn(packs, coll[k].name) = ""
<1>1. k \in DOMAIN coll /\ Disabled(k)
  BY DEF Inv4, Inv3, Inv2, Inv, TypeOK, Control
<1>2. \A j \in DOMAIN packs : packs[j].name # coll[k].name
  <2>1. SUFFICES ASSUME NEW j \in DOMAIN packs PROVE packs[j].name # coll[k].name
    OBVIOUS
  <2>2. j \in 1..(i - 1)
    BY PacksIsSeq DEF Inv4, Inv3, Inv2, Inv, Control
  <2> QED
    BY <1>1, <2>2, DisabledIsOther DEF Inv4, Inv3, Inv2
<1> QED
  BY <1>2 DEF VersionIn

\* A step that changes neither the seed, the Extension nor what the request
\* works on is a stutter.
LEMMA Stutter ==
    ASSUME UNCHANGED <<op, spec, snap, late, ext, mr, mrData>>
    PROVE  UNCHANGED Store!vars
BY GoalKept DEF Store!vars, Stage, Installed

\* The end of a request that changes nothing is work given up.
LEMMA GivenUp ==
    ASSUME NoRequest, UNCHANGED <<ext, mr, mrData>>
    PROVE  Store!GiveUp
BY GoalNonePrime DEF Store!GiveUp, Stage, Installed

-----------------------------------------------------------------------------
(* The steps on the seed *)

LEMMA SecretWrittenInstalls ==
    ASSUME Inv4, SecretWritten
    PROVE  [Store!Next]_(Store!vars)
<1> DEFINE n == packs[i].name
<1>1. /\ GoalOfRequest = ToHave("packs", packs) /\ i \in DOMAIN packs
      /\ packs \in Seq(PackSpec) /\ IsValid(packs)
  <2>1. Awake /\ pc = "patch"
    BY DEF SecretWritten, Inv4, Inv3, Inv2, Inv, Control
  <2>2. i \in DOMAIN packs
    BY <2>1, CurrentPack DEF Inv4, Inv3, Inv2, Inv
  <2> QED
    BY <2>1, <2>2, GoalAwake
<1>2. n \in Name /\ VersionIn(packs, n) = packs[i].version /\ VersionIn(packs, n) # ""
  BY <1>1, ValidPack
<1>3. /\ mrData' = [mrData EXCEPT ![n] = [version |-> packs[i].version, patches |-> got]]
      /\ UNCHANGED <<op, spec, snap, late, ext, mr>>
  BY DEF SecretWritten, garden
<1>4. mrData \in [Name -> Data \cup {NoData}]
  BY DEF Inv4, Inv3, Inv2, Inv, TypeOK
<1>5. CASE mr[n] = "live"
  <2>1. Installed' = [Installed EXCEPT ![n] = packs[i].version]
    BY <1>2, <1>3, <1>4, <1>5 DEF Installed
  <2>2. Store!Install(n)
    BY <1>1, <1>2, <1>3, <1>5, <2>1, GoalKept
       DEF Store!Install, Store!None, ToHave, Stage
  <2> QED
    BY <1>2, <2>2 DEF Store!Next
<1>6. CASE mr[n] # "live"
  <2>1. Installed' = Installed
    BY <1>2, <1>3, <1>4, <1>6 DEF Installed
  <2>2. UNCHANGED Store!vars
    BY <1>3, <2>1, GoalKept DEF Store!vars, Stage
  <2> QED
    BY <2>2
<1> QED
  BY <1>5, <1>6

LEMMA MRWrittenInstalls ==
    ASSUME Inv4, MRWritten
    PROVE  [Store!Next]_(Store!vars)
<1> DEFINE n == packs[i].name
<1>1. /\ GoalOfRequest = ToHave("packs", packs) /\ i \in DOMAIN packs
      /\ packs \in Seq(PackSpec) /\ IsValid(packs)
  <2>1. Awake /\ pc = "writeMR"
    BY DEF MRWritten, Inv4, Inv3, Inv2, Inv, Control
  <2>2. i \in DOMAIN packs
    BY <2>1, CurrentPack DEF Inv4, Inv3, Inv2, Inv
  <2> QED
    BY <2>1, <2>2, GoalAwake
<1>2. n \in Name /\ VersionIn(packs, n) = packs[i].version /\ VersionIn(packs, n) # ""
  BY <1>1, ValidPack
<1>3. /\ mr' = [mr EXCEPT ![n] = IF @ = "absent" THEN "live" ELSE @]
      /\ late' = (IF mr[n] = "terminating" THEN late \cup {n} ELSE late)
      /\ UNCHANGED <<op, spec, snap, ext, mrData>>
  BY DEF MRWritten, garden
<1>4. mr \in [Name -> {"absent", "live", "terminating"}]
  BY DEF Inv4, Inv3, Inv2, Inv, TypeOK
<1>5. GoalOfRequest' = GoalOfRequest /\ Stage' = Stage
  BY <1>3, GoalKept DEF Stage
<1>6. CASE mr[n] = "absent"
  <2>1. mrData[n].version = packs[i].version
    BY DEF MRWritten, Inv4, Inv3, Inv2, Inv, Control
  <2>2. Installed' = [Installed EXCEPT ![n] = packs[i].version]
    BY <1>2, <1>3, <1>4, <1>6, <2>1 DEF Installed
  <2>3. Leaving' = Leaving /\ n \notin Leaving
    BY <1>2, <1>3, <1>4, <1>6 DEF Leaving
  <2>4. Store!Install(n)
    BY <1>1, <1>2, <1>3, <1>5, <1>6, <2>2, <2>3
       DEF Store!Install, Store!None, ToHave, Leaving
  <2> QED
    BY <1>2, <2>4 DEF Store!Next
<1>7. CASE mr[n] = "terminating"
  <2>1. mr' = mr /\ late' = late \cup {n} /\ n \in Leaving
    BY <1>2, <1>3, <1>4, <1>7 DEF Leaving
  <2>2. Store!Miss(n)
    BY <1>1, <1>2, <1>3, <1>5, <2>1
       DEF Store!Miss, Store!None, ToHave, Leaving, Installed
  <2> QED
    BY <1>2, <2>2 DEF Store!Next
<1>8. CASE mr[n] = "live"
  <2>1. mr' = mr /\ late' = late
    BY <1>2, <1>3, <1>4, <1>8
  <2> QED
    BY <1>3, <2>1, Stutter
<1> QED
  BY <1>2, <1>4, <1>6, <1>7, <1>8

LEMMA DeletedRemoves ==
    ASSUME Inv4, SingleVersion, NEW k \in DOMAIN coll, DeleteMR(k)
    PROVE  [Store!Next]_(Store!vars)
<1>0. PICK n \in Name : n = coll[k].name
  BY AssetType DEF Inv4, Inv3, Inv2, Inv, Asset
<1>1. /\ mr' = [mr EXCEPT ![n] = IF @ = "live" THEN "terminating" ELSE @]
      /\ UNCHANGED <<op, spec, snap, late, ext, mrData>>
      /\ pc = "deleteMR" /\ k \in todo
  BY <1>0 DEF DeleteMR, IsNext, garden
<1>2. mr \in [Name -> {"absent", "live", "terminating"}]
  BY DEF Inv4, Inv3, Inv2, Inv, TypeOK
<1>3. CASE mr[n] = "live"
  <2>1. /\ GoalOfRequest.kind = "packs" /\ GoalOfRequest.packs[n] = ""
        /\ Store!InPlace
    <3>1. CASE Awake
      <4>1. GoalOfRequest = ToHave("packs", packs) /\ Store!InPlace
        BY <1>1, <3>1, GoalAwake, PacksInPlace
      <4>2. VersionIn(packs, n) = ""
        BY <1>0, <1>1, <3>1, DisabledNotGoal
      <4> QED
        BY <1>2, <4>1, <4>2 DEF ToHave
    <3>2. CASE Deleting
      BY <1>2, <3>2, GoalDeleting, EmptyGoal
    <3> QED
      BY <1>1, <3>1, <3>2 DEF Inv4, Inv3, Inv2, Inv, Control
  <2>2. Installed[n] # ""
    BY <1>2, <1>3, InstalledIs
  <2>3. Installed' = [Installed EXCEPT ![n] = ""]
    BY <1>1, <1>2, <1>3 DEF Installed
  <2>4. Leaving' = Leaving \cup {n}
    BY <1>1, <1>2, <1>3 DEF Leaving
  <2>5. Store!Remove(n)
    <3>1. GoalOfRequest' = GoalOfRequest /\ Stage' = Stage
      BY <1>1, GoalKept DEF Stage
    <3> QED
      BY <1>1, <2>1, <2>2, <2>3, <2>4, <3>1 DEF Store!Remove, Store!None, Leaving
  <2> QED
    BY <2>5 DEF Store!Next
<1>4. CASE mr[n] # "live"
  <2>1. mr' = mr
    BY <1>1, <1>2, <1>4
  <2>2. UNCHANGED Store!vars
    BY <1>1, <2>1, Stutter
  <2> QED
    BY <2>2
<1> QED
  BY <1>3, <1>4

LEMMA SecretDeletedIsStutter ==
    ASSUME Inv4, NEW k \in DOMAIN coll, DeleteSecret(k)
    PROVE  [Store!Next]_(Store!vars)
<1>1. /\ mrData' = [mrData EXCEPT ![coll[k].name] = NoData]
      /\ UNCHANGED <<op, spec, snap, late, ext, mr>>
      /\ pc = "deleteSecret" /\ k \in todo /\ IsNext(k)
  BY DEF DeleteSecret, IsNext, garden
<1>2. mr[coll[k].name] # "live" /\ mrData \in [Name -> Data \cup {NoData}]
  BY <1>1 DEF Inv4, Inv3, Inv2, Inv, TypeOK, Order
<1>3. Installed' = Installed
  BY <1>1, <1>2 DEF Installed
<1>4. UNCHANGED Store!vars
  BY <1>1, <1>3, GoalKept DEF Store!vars, Stage
<1> QED
  BY <1>4

LEMMA FinalizedIsRemoved ==
    ASSUME Inv4, NEW n \in Name, Finalize(n)
    PROVE  [Store!Next]_(Store!vars)
<1>1. /\ mr' = [mr EXCEPT ![n] = "absent"] /\ mr[n] = "terminating"
      /\ UNCHANGED <<op, spec, snap, late, ext, mrData>>
  BY DEF Finalize, garden, request
<1>2. mr \in [Name -> {"absent", "live", "terminating"}]
  BY DEF Inv4, Inv3, Inv2, Inv, TypeOK
<1>3. Installed' = Installed /\ Leaving' = Leaving \ {n} /\ n \in Leaving
  BY <1>1, <1>2 DEF Installed, Leaving
<1>4. Store!Removed(n)
  BY <1>1, <1>3, GoalKept DEF Store!Removed, Stage, Leaving
<1> QED
  BY <1>4 DEF Store!Next

-----------------------------------------------------------------------------
(* The end of a request, and of the shoot on this seed *)

\* No pack is left at the end of Reconcile that is not configured.
LEMMA RestWithdrawn ==
    ASSUME Inv3, Awake, pc = "finish", NEW n \in Name \ Configured
    PROVE  Withdrawn(n)
<1>1. CASE n \in NamesOf(coll)
  <2>1. PICK k \in DOMAIN coll : coll[k].name = n
    BY <1>1 DEF NamesOf
  <2>2. Disabled(k) /\ k \notin todo
    BY <2>1 DEF Disabled, Configured, Inv3, Inv2, Inv, Control
  <2> QED
    BY <2>1, <2>2 DEF Inv3, Inv2, Swept
<1>2. CASE n \notin NamesOf(coll)
  BY <1>2 DEF Inv3, Owned
<1> QED
  BY <1>1, <1>2

\* A request that returns nil has done what it was to do.
LEMMA FinishReaches ==
    ASSUME Inv4, pc = "finish"
    PROVE  Store!Reached
<1>1. CASE Deleting
  <2>1. AllWithdrawn
    BY <1>1, DeleteEnds DEF Inv4, Inv3
  <2>2. \A n \in Name : Installed[n] = ""
    BY <2>1, InstalledIs DEF AllWithdrawn, Withdrawn
  <2> QED
    BY <1>1, <2>2, GoalDeleting, EmptyGoal DEF Store!Reached, Store!None
<1>2. CASE Awake
  <2>1. Store!InPlace /\ GoalOfRequest = ToHave("packs", packs)
    BY <1>2, PacksInPlace, GoalAwake
  <2>2. ASSUME NEW n \in Name, VersionIn(packs, n) = "" PROVE Installed[n] = ""
    <3>1. n \notin Configured
      BY <1>2, <2>2, GoalAwake, ValidPack DEF Configured
    <3>2. Withdrawn(n)
      BY <1>2, <3>1, RestWithdrawn DEF Inv4
    <3> QED
      BY <3>2, InstalledIs DEF Withdrawn
  <2> QED
    BY <2>1, <2>2 DEF Store!Reached, Store!None, ToHave
<1>3. CASE Reconciling /\ snap.hibernated
  <2>1. GoalOfRequest = Store!Keep
    BY <1>3, NoPacks DEF GoalOfRequest, Deleting, Reconciling
  <2> QED
    BY <2>1 DEF Store!Reached, Store!Keep
<1>4. op # "none"
  BY DEF Inv4, Inv3, Inv2, Inv, Control
<1> QED
  BY <1>1, <1>2, <1>3, <1>4 DEF Awake, Reconciling, Deleting, Inv4, Inv3, Inv2, Inv, TypeOK

LEMMA FinishSucceeds ==
    ASSUME Inv4, Finish
    PROVE  [Store!Next]_(Store!vars)
<1>1. /\ GoalOfRequest' = Store!NoGoal /\ late' = {} /\ pc = "finish"
      /\ UNCHANGED <<mr, mrData>>
  BY GoalNonePrime DEF Finish, seed
<1>2. Store!Reached /\ UNCHANGED <<Installed, Leaving>> /\ ext \in ExtType
  BY <1>1, FinishReaches
     DEF Installed, Leaving, Inv4, Inv3, Inv2, Inv, TypeOK, ExtType
<1>3. \/ UNCHANGED <<Stage, GoalOf(ext.provider)>>
      \/ Stage = "attached" /\ Stage' = "migrated" /\ UNCHANGED GoalOf(ext.provider)
      \/ /\ Stage = "deleting" /\ GoalOfRequest = Store!Empty
         /\ Stage' = "none" /\ GoalOf(ext.provider)' = Store!NoGoal
  <2>1. CASE Deleting
    <3>1. ext' = NoExt /\ ext.st = "deleting"
      BY <2>1 DEF Finish, Inv4, Inv3, Inv2, Inv, Attached
    <3>2. GoalOf(NoExt.provider) = Store!NoGoal
      BY NoPacks DEF GoalOf, NoExt
    <3> QED
      BY <2>1, <3>1, <3>2, GoalDeleting DEF Stage, NoExt
  <2>2. CASE ~Deleting /\ op = "migrate"
    <3>1. ext' = [ext EXCEPT !.st = "migrated", !.finalizer = FALSE]
      BY <2>2 DEF Finish
    <3>2. ext'.st = "migrated" /\ ext'.provider = ext.provider /\ ext.st = "active"
      BY <1>2, <2>2, <3>1 DEF ExtType, Inv4, Inv3, Inv2, Inv, Attached
    <3> QED
      BY <3>2 DEF Stage
  <2>3. CASE ~Deleting /\ op # "migrate"
    <3>1. ext' = [ext EXCEPT !.op = IF @ = "restore" THEN "reconcile" ELSE @]
      BY <2>3 DEF Finish
    <3>2. ext'.st = ext.st /\ ext'.provider = ext.provider
      BY <1>2, <3>1 DEF ExtType
    <3> QED
      BY <3>2 DEF Stage
  <2> QED
    BY <2>1, <2>2, <2>3
<1>4. Store!Succeed
  BY <1>1, <1>2, <1>3 DEF Store!Succeed, Leaving
<1> QED
  BY <1>4 DEF Store!Next

LEMMA LeftIsGone ==
    ASSUME Inv4, LeaveSeed
    PROVE  [Store!Next]_(Store!vars)
<1>1. /\ ext.st = "migrated" /\ ext' = NoExt
      /\ mr' = [n \in Name |-> "absent"]
      /\ UNCHANGED <<op, spec, snap, late>>
  BY DEF LeaveSeed, request
<1>2. GoalOfRequest = Store!NoGoal /\ GoalOfRequest' = GoalOfRequest
  <2>1. op = "none"
    BY <1>1 DEF Inv4, Inv3, Inv2, Inv, Attached, TypeOK, Deleting
  <2> QED
    BY <1>1, <2>1, GoalNone, GoalKept
<1>3. Stage = "migrated" /\ Stage' = "none" /\ GoalOf(ext.provider)' = Store!NoGoal
  BY <1>1, NoPacks DEF Stage, GoalOf, NoExt
<1>4. Installed' = Store!Nothing /\ Leaving' = {}
  BY <1>1 DEF Installed, Leaving, Store!Nothing, Store!None
<1>5. Store!Leave
  BY <1>1, <1>2, <1>3, <1>4 DEF Store!Leave, Leaving
<1> QED
  BY <1>5 DEF Store!Next

-----------------------------------------------------------------------------
(* Steps that leave the seed alone *)

LEMMA AdvancesWorks ==
    ASSUME Inv4, Advances
    PROVE  [Store!Next]_(Store!vars)
<1>0. UNCHANGED <<mr, mrData, late>> /\ ext \in ExtType
  BY AdvancesFacts DEF seed, Inv4, Inv3, Inv2, Inv, TypeOK, ExtType
<1>1. UNCHANGED <<Installed, Leaving>>
  BY <1>0 DEF Installed, Leaving
<1>2. CASE StartReconcile
  <2>1. /\ ext' = [ext EXCEPT !.finalizer = @ \/ ext.op # "migrate"]
        /\ ext.st = "active" /\ pc = "idle" /\ op' = ext.op
        /\ spec' = ext.provider /\ snap' = snap
    BY <1>2 DEF StartReconcile
  <2>2. ext'.st = ext.st /\ ext'.provider = ext.provider
    BY <1>0, <2>1 DEF ExtType
  <2>3. op = "none" /\ ~snap.hibernated
    BY <2>1 DEF Inv4, Inv3, Inv2, Inv, Control, Begun
  <2>4. GoalOfRequest' = GoalOf(ext.provider)
    BY <1>0, <2>1, <2>3 DEF GoalOfRequest, Reconciling, Deleting, ExtType
  <2>5. GoalOfRequest = Store!NoGoal /\ Stage = "attached" /\ Stage' = Stage
    BY <2>1, <2>2, <2>3, GoalNone DEF Stage
  <2>6. Store!Begin
    BY <1>0, <1>1, <2>2, <2>4, <2>5 DEF Store!Begin, Leaving
  <2> QED
    BY <2>6 DEF Store!Next
<1>3. CASE \E how \in {"delete", "forceDelete"} : StartDelete(how)
  <2>1. /\ ext' = ext /\ ext.st = "deleting" /\ pc = "idle"
        /\ op' \in {"delete", "forceDelete"}
    BY <1>3 DEF StartDelete, garden
  <2>2. GoalOfRequest' = Store!Empty
    BY <2>1, NoPacks DEF GoalOfRequest, Reconciling, Deleting
  <2>3. op = "none"
    BY <2>1 DEF Inv4, Inv3, Inv2, Inv, Control
  <2>4. GoalOfRequest = Store!NoGoal /\ Stage = "deleting" /\ Stage' = Stage
    BY <2>1, <2>3, GoalNone DEF Stage
  <2>5. Store!Begin
    BY <1>0, <1>1, <2>1, <2>2, <2>4 DEF Store!Begin, Leaving
  <2> QED
    BY <2>5 DEF Store!Next
<1>4. CASE GetCluster /\ pc' = "finish" /\ ~NoRequest
  <2>1. /\ pc = "cluster" /\ cluster.hibernated /\ snap' = cluster
        /\ UNCHANGED <<op, spec, ext>>
    BY <1>4 DEF GetCluster, Abort, garden
  <2>2. Reconciling /\ ~Deleting /\ Reconciling' /\ ~Deleting' /\ ~snap.hibernated
    BY <2>1 DEF Inv4, Inv3, Inv2, Inv, Control, Begun, Reconciling, Deleting
  <2>3. GoalOfRequest = GoalOf(spec) /\ GoalOfRequest' = Store!Keep
    BY <2>1, <2>2, NoPacks DEF GoalOfRequest
  <2>4. GoalOfRequest # Store!Empty
    BY <2>3, GoalNotEmpty DEF Inv4, Inv3, Inv2, Inv, TypeOK
  <2>5. Stage \in {"attached", "deleting"} /\ Stage' = Stage
    BY <2>1, <2>2 DEF Stage, Inv4, Inv3, Inv2, Inv, Attached, Reconciling
  <2>6. Store!Skip
    BY <1>0, <1>1, <2>1, <2>3, <2>4, <2>5 DEF Store!Skip, Leaving
  <2> QED
    BY <2>6 DEF Store!Next
<1>5. CASE GetCluster /\ pc' # "finish" /\ ~NoRequest
  <2>1. /\ pc = "cluster" /\ ~cluster.hibernated /\ snap' = cluster
        /\ UNCHANGED <<op, spec, ext>>
    BY <1>5 DEF GetCluster, Abort, garden
  <2>2. ~snap.hibernated
    BY <2>1 DEF Inv4, Inv3, Inv2, Inv, Begun
  <2>3. GoalOfRequest' = GoalOfRequest
    BY <2>1, <2>2 DEF GoalOfRequest, Reconciling, Deleting
  <2>4. UNCHANGED Store!vars
    BY <1>0, <2>1, <2>3 DEF Store!vars, Stage, Installed
  <2> QED
    BY <2>4
<1>6. CASE ((NextPack \/ ReadPatch) /\ ~NoRequest) \/ AfterPacks \/ AfterDeletes
  <2>1. UNCHANGED <<op, spec, snap, ext>>
    BY <1>6 DEF NextPack, ReadPatch, AfterPacks, AfterDeletes, Abort, garden
  <2>2. UNCHANGED Store!vars
    BY <1>0, <2>1, Stutter
  <2> QED
    BY <2>2
<1> QED
  BY <1>2, <1>3, <1>4, <1>5, <1>6 DEF Advances

LEMMA OutsideAsks ==
    ASSUME Inv4, [Next]_vars, Outside
    PROVE  [Store!Next]_(Store!vars)
<1>0. /\ UNCHANGED <<op, spec, snap, late, mr, mrData>> /\ ext \in ExtType
      /\ cluster \in Shoot
  BY DEF Outside, request, seed, Inv4, Inv3, Inv2, Inv, TypeOK, ExtType
<1>1. UNCHANGED <<Installed, Leaving, GoalOfRequest>>
  BY <1>0, GoalKept DEF Installed, Leaving
<1>2. CASE \E how \in {"reconcile", "restore"} : CreateExtension(how)
  <2>1. ext.st = "absent" /\ ext'.st = "active"
    BY <1>2 DEF CreateExtension
  <2>2. ext' \in ExtType
    BY InvNext DEF Inv4, Inv3, Inv2, Inv, TypeOK, ExtType
  <2>3. GoalOf(ext.provider)' \in Store!Goal
    BY <2>2, GoalType DEF ExtType
  <2>4. Store!Attach
    BY <1>0, <1>1, <2>1, <2>3 DEF Store!Attach, Stage, Leaving
  <2> QED
    BY <2>4 DEF Store!Next
<1>3. CASE UpdateExtension
  <2>1. ext' = [ext EXCEPT !.provider = cluster.provider] /\ ext.st = "active"
    BY <1>3 DEF UpdateExtension
  <2>2. ext'.st = "active" /\ ext'.provider \in Provider
    BY <1>0, <2>1 DEF ExtType, Shoot
  <2>3. GoalOf(ext.provider)' \in Store!Goal
    BY <2>2, GoalType
  <2>4. Store!Ask
    BY <1>0, <1>1, <2>1, <2>2, <2>3 DEF Store!Ask, Stage, Leaving
  <2> QED
    BY <2>4 DEF Store!Next
<1>4. CASE DeleteExtension /\ ext.finalizer
  <2>1. ext' = [ext EXCEPT !.st = "deleting"] /\ ext.st = "active"
    BY <1>4 DEF DeleteExtension
  <2>2. ext'.st = "deleting" /\ ext'.provider = ext.provider
    BY <1>0, <2>1 DEF ExtType
  <2>3. Store!Detach
    BY <1>0, <1>1, <2>1, <2>2 DEF Store!Detach, Stage, Leaving
  <2> QED
    BY <2>3 DEF Store!Next
<1>5. CASE DeleteExtension /\ ~ext.finalizer
  <2>1. ext' = NoExt /\ ext.st = "active" /\ ext.op # "migrate"
    BY <1>5 DEF DeleteExtension
  <2>2. op = "none"
    BY <1>5, <2>1 DEF Inv4, Inv3, Inv2, Inv, Attached, TypeOK, Deleting
  <2>3. Installed = Store!Nothing
    <3>1. AllWithdrawn
      BY <1>5, <2>1 DEF Inv4, Inv3, Guarded
    <3> QED
      BY <3>1 DEF AllWithdrawn, Withdrawn, Installed, Store!Nothing, Store!None
  <2>4. Stage = "attached" /\ Stage' = "none" /\ GoalOf(ext.provider)' = Store!NoGoal
    BY <2>1, NoPacks DEF Stage, GoalOf, NoExt
  <2>5. GoalOfRequest = Store!NoGoal
    BY <2>2, GoalNone
  <2>6. Store!Detach
    BY <1>0, <1>1, <2>3, <2>4, <2>5 DEF Store!Detach, Leaving
  <2> QED
    BY <2>6 DEF Store!Next
<1>6. CASE RequestMigrate
  <2>1. ext' = [ext EXCEPT !.op = "migrate"]
    BY <1>6 DEF RequestMigrate
  <2>2. ext'.st = ext.st /\ ext'.provider = ext.provider
    BY <1>0, <2>1 DEF ExtType
  <2>3. UNCHANGED Store!vars
    BY <1>0, <1>1, <2>2 DEF Store!vars, Stage, Leaving
  <2> QED
    BY <2>3
<1>7. CASE ext' = ext
  <2>1. UNCHANGED Store!vars
    BY <1>0, <1>7, Stutter
  <2> QED
    BY <2>1
<1>8. CASE LeaveSeed
  BY <1>8, LeftIsGone
<1> QED
  BY <1>2, <1>3, <1>4, <1>5, <1>6, <1>7, <1>8
     DEF Outside, Users, Gardener, EditShoot, EditSecret, SyncCluster, vars, garden

-----------------------------------------------------------------------------
(* Actuator implements PackStore *)

LEMMA StoreInit == Init => Store!Init
<1> SUFFICES ASSUME Init PROVE Store!Init
  OBVIOUS
<1>1. Stage = "none" /\ GoalOf(ext.provider) = Store!NoGoal
  BY NoPacks DEF Init, Stage, GoalOf, NoExt
<1>2. GoalOfRequest = Store!NoGoal
  BY GoalNone DEF Init
<1>3. Installed = Store!Nothing /\ Leaving = {}
  BY DEF Init, Installed, Leaving, Store!Nothing, Store!None
<1> QED
  BY <1>1, <1>2, <1>3 DEF Init, Store!Init, Leaving

LEMMA StoreNext ==
    ASSUME SingleVersion, Inv4, [Next]_vars
    PROVE  [Store!Next]_(Store!vars)
<1>1. CASE SecretWritten \/ MRWritten
  BY <1>1, SecretWrittenInstalls, MRWrittenInstalls
<1>2. CASE \E k \in DOMAIN coll : DeleteMR(k) \/ DeleteSecret(k)
  BY <1>2, DeletedRemoves, SecretDeletedIsStutter
<1>3. CASE \E n \in Name : Finalize(n)
  BY <1>3, FinalizedIsRemoved
<1>4. CASE LeaveSeed \/ Finish
  BY <1>4, LeftIsGone, FinishSucceeds
<1>5. CASE NoRequest /\ UNCHANGED <<garden, seed>>
  BY <1>5, GivenUp DEF garden, seed, Store!Next
<1>6. CASE Advances \/ Outside
  BY <1>6, AdvancesWorks, OutsideAsks
<1> QED
  BY <1>1, <1>2, <1>3, <1>4, <1>5, <1>6, SeedSteps

\* Whatever calls a request consists of, wherever it is cut short and whatever
\* it has read (Reconcile, Delete), on the seed this is no more than PackStore:
\* versions change in place, packs are taken down when all that is to stay is
\* there, and the Extension is released when nothing is left.
THEOREM ImplementsPackStoreCorrect ==
    SingleVersion /\ SameNames => (Spec => ImplementsPackStore)
<1> SUFFICES ASSUME SingleVersion, SameNames PROVE Spec => ImplementsPackStore
  OBVIOUS
<1>1. Spec => []Inv4
  BY Inv4Correct
<1>2. Inv4 /\ [Next]_vars => [Store!Next]_(Store!vars)
  BY StoreNext
<1>3. Init => Store!Init
  BY StoreInit
<1> QED
  BY <1>1, <1>2, <1>3, PTL DEF Spec, ImplementsPackStore, Store!Spec
=============================================================================
