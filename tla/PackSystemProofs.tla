-------------------------- MODULE PackSystemProofs --------------------------
(***************************************************************************)
(* What the webhook let through stays with the Extension and the request:  *)
(* proofs of the safety properties of PackSystem, for any packs, releases, *)
(* Shoots and bounds, and however the two binaries are upgraded.           *)
(***************************************************************************)
EXTENDS PackSystem, ActuatorProofs

\* Some release of the webhook lets the Shoot through.
Vetted(s) == \E r \in DOMAIN Releases : Admits(Releases[r], s)

\* A provider config that was enabled in such a Shoot: it can be used and
\* names packs that there are, or were, in one collection.
Approved(provider) ==
    /\ provider.kind = "config" /\ IsValid(provider.packs)
    /\ \E r \in DOMAIN Releases : \A j \in DOMAIN provider.packs :
          PackExists(Releases[r], provider.packs[j].name, provider.packs[j].version)

\* Every copy of the Shoot that the actuator can come across was let through,
\* and so was the config that an Extension is there for.
Provenance ==
    /\ Vetted(shoot) /\ Vetted(cluster) /\ Vetted(snap)
    /\ ext.st # "absent" => Approved(ext.provider)
    /\ Reconciling => Approved(spec)

SysInv == Inv /\ wrel \in DOMAIN Releases /\ Provenance

-----------------------------------------------------------------------------
(* The checks of the webhook *)

\* A Shoot without the extension is let through by any release.
LEMMA NoShootVetted == Vetted(NoShoot)
<1>1. 1 \in DOMAIN Releases
  <2>1. Len(Releases) \in Nat \ {0} /\ DOMAIN Releases = 1..Len(Releases)
    BY ConstantsType, EmptySeq, LenProperties
  <2> QED
    BY <2>1
<1>2. Admits(Releases[1], NoShoot)
  BY DEF Admits, ExtensionOK, NoShoot
<1> QED
  BY <1>1, <1>2 DEF Vetted

\* A Shoot that lists the extension was let through for its config.
LEMMA WantedApproved ==
    ASSUME NEW s \in Shoot, Vetted(s), Wanted(s)
    PROVE  Approved(s.provider)
<1>1. PICK r \in DOMAIN Releases : Admits(Releases[r], s)
  BY DEF Vetted
<1>2. /\ s.provider.kind = "config" /\ IsValid(s.provider.packs)
      /\ \A j \in DOMAIN s.provider.packs :
            PackExists(Releases[r], s.provider.packs[j].name, s.provider.packs[j].version)
  BY <1>1 DEF Wanted, Admits, ExtensionOK
<1> QED
  BY <1>2 DEF Approved

\* ... and for the resources that the config refers to.
LEMMA WantedResolves ==
    ASSUME NEW s \in Shoot, Vetted(s), Wanted(s),
           NEW j \in DOMAIN s.provider.packs, NEW x \in DOMAIN s.provider.packs[j].patches
    PROVE  [name |-> s.provider.packs[j].patches[x], kind |-> "Secret"] \in s.resources
<1> DEFINE ref == s.provider.packs[j].patches[x]
<1>1. PatchResolves(s, ref)
  BY DEF Vetted, Wanted, Admits, ExtensionOK
<1>2. PICK res \in s.resources : res.name = ref /\ res.kind = "Secret"
  BY <1>1 DEF PatchResolves
<1>3. res \in Resource
  BY DEF Shoot
<1>4. res = [name |-> ref, kind |-> "Secret"]
  BY <1>2, <1>3 DEF Resource
<1> QED
  BY <1>2, <1>4

-----------------------------------------------------------------------------
(* The invariant *)

LEMMA SysInvInit == SysInit => SysInv
<1> SUFFICES ASSUME SysInit PROVE SysInv
  OBVIOUS
<1>1. Init
  BY DEF SysInit
<1>2. Vetted(shoot) /\ Vetted(cluster) /\ Vetted(snap)
  BY <1>1, NoShootVetted DEF Init
<1>3. ext.st = "absent" /\ ~Reconciling
  BY <1>1 DEF Init, NoExt, Reconciling
<1>4. Inv /\ wrel \in DOMAIN Releases
  <2>1. Inv
    BY <1>1, InvInit
  <2>2. rel = 1 /\ wrel = 1
    BY DEF SysInit, Init
  <2>3. rel \in DOMAIN Releases
    BY <2>1 DEF Inv, TypeOK
  <2> QED
    BY <2>1, <2>2, <2>3
<1> QED
  BY <1>2, <1>3, <1>4 DEF SysInv, Provenance

\* Cluster and snapshot are copies of the Shoot.
LEMMA CopiesVetted ==
    ASSUME SysInv, [Next]_vars, Vetted(shoot)'
    PROVE  Vetted(cluster)' /\ Vetted(snap)'
<1>1. cluster' \in {cluster, shoot} /\ snap' \in {snap, cluster, NoShoot}
  <2>1. CASE Users \/ Gardener \/ ResourceManager \/ UNCHANGED vars
    BY <2>1 DEF Users, EditShoot, EditSecret, RequestMigrate, Gardener, SyncCluster,
                CreateExtension, UpdateExtension, DeleteExtension, LeaveSeed,
                ResourceManager, Finalize, vars, garden, request
  <2>2. CASE Faults
    BY <2>2 DEF Faults, Fault, Upgrade, NoRequest, garden
  <2>3. CASE Worker
    BY <2>3 DEF Worker, StartReconcile, StartDelete, GetCluster, NextPack, ReadPatch,
                WriteSecret, WriteMR, AfterPacks, DeleteMR, DeleteSecret, AfterDeletes,
                Finish, Abort, NoRequest, garden
  <2> QED
    BY <2>1, <2>2, <2>3 DEF Next
<1>2. Vetted(cluster) /\ Vetted(shoot) /\ Vetted(snap)
  BY DEF SysInv, Provenance
<1>3. Vetted(cluster')
  BY <1>1, <1>2
<1>4. Vetted(snap')
  BY <1>1, <1>2, NoShootVetted
<1> QED
  BY <1>3, <1>4 DEF Vetted

\* The provider of an Extension comes from a Cluster that wants it.
LEMMA ExtensionApproved ==
    ASSUME SysInv, [Next]_vars, ext'.st # "absent"
    PROVE  Approved(ext'.provider)
<1>1. /\ Inv /\ ext \in ExtType /\ cluster \in Shoot
      /\ Wanted(cluster) => Approved(cluster.provider)
      /\ ext.st # "absent" => Approved(ext.provider)
  BY WantedApproved DEF SysInv, Provenance, Inv, TypeOK, ExtType
<1>2. CASE \E how \in {"reconcile", "restore"} : CreateExtension(how)
  BY <1>1, <1>2 DEF CreateExtension
<1>3. CASE UpdateExtension
  <2>1. ext'.provider = cluster.provider
    BY <1>1, <1>3 DEF UpdateExtension, ExtType
  <2> QED
    BY <1>1, <1>3, <2>1 DEF UpdateExtension
<1>4. CASE DeleteExtension \/ LeaveSeed \/ RequestMigrate
  <2>1. ext.st # "absent" /\ (ext' = NoExt \/ ext'.provider = ext.provider)
    BY <1>1, <1>4 DEF DeleteExtension, LeaveSeed, RequestMigrate, ExtType
  <2>2. ext' # NoExt
    BY DEF NoExt
  <2> QED
    BY <1>1, <2>1, <2>2
<1>5. CASE StartReconcile
  <2>1. ext.st # "absent" /\ ext'.provider = ext.provider
    BY <1>1, <1>5 DEF StartReconcile, ExtType
  <2> QED
    BY <1>1, <2>1
<1>6. CASE Finish
  <2>1. ext' # NoExt
    BY DEF NoExt
  <2>2. ~Deleting
    <3>1. Deleting => ext' = NoExt
      BY <1>6 DEF Finish, Deleting
    <3> QED
      BY <2>1, <3>1
  <2>3. ext.st # "absent"
    BY <1>1, <1>6, <2>2 DEF Finish, Inv, TypeOK, Attached, Control, Deleting
  <2>4. ext'.provider = ext.provider
    <3>1. CASE op = "migrate"
      <4>1. ext' = [ext EXCEPT !.st = "migrated", !.finalizer = FALSE]
        BY <1>6, <2>2, <3>1 DEF Finish
      <4> QED
        BY <1>1, <4>1 DEF ExtType
    <3>2. CASE op # "migrate"
      <4>1. ext' = [ext EXCEPT !.op = IF @ = "restore" THEN "reconcile" ELSE @]
        BY <1>6, <2>2, <3>2 DEF Finish
      <4> QED
        BY <1>1, <4>1 DEF ExtType
    <3> QED
      BY <3>1, <3>2
  <2> QED
    BY <1>1, <2>3, <2>4
<1>7. CASE ext' = ext
  BY <1>1, <1>7
<1> QED
  BY <1>2, <1>3, <1>4, <1>5, <1>6, <1>7
     DEF Next, Users, EditShoot, EditSecret, Gardener, SyncCluster, ResourceManager, Finalize,
         Faults, Fault, Upgrade, Worker, StartDelete, GetCluster, NextPack, ReadPatch,
         WriteSecret, WriteMR, AfterPacks, DeleteMR, DeleteSecret, AfterDeletes, Abort,
         garden, vars

\* Reconcile works on what the Extension asked for when it started.
LEMMA RequestApproved ==
    ASSUME SysInv, [Next]_vars, Reconciling'
    PROVE  Approved(spec')
<1>1. /\ ext.st # "absent" => Approved(ext.provider)
      /\ Reconciling => Approved(spec)
  BY DEF SysInv, Provenance
<1>2. CASE StartReconcile
  BY <1>1, <1>2 DEF StartReconcile
<1>3. CASE UNCHANGED <<op, spec>>
  BY <1>1, <1>3 DEF Reconciling
<1>4. ~NoRequest /\ \A how \in {"delete", "forceDelete"} : ~StartDelete(how)
  BY DEF NoRequest, StartDelete, Reconciling
<1> QED
  BY <1>2, <1>3, <1>4
     DEF Next, Users, EditShoot, EditSecret, RequestMigrate, Gardener, SyncCluster,
         CreateExtension, UpdateExtension, DeleteExtension, LeaveSeed, ResourceManager,
         Finalize, Faults, Fault, Upgrade, Worker, GetCluster, NextPack, ReadPatch,
         WriteSecret, WriteMR, AfterPacks, DeleteMR, DeleteSecret, AfterDeletes, Finish,
         Abort, request, vars

LEMMA SysInvNext == SysInv /\ [SysNext]_sysVars => SysInv'
<1> SUFFICES ASSUME SysInv, [SysNext]_sysVars PROVE SysInv'
  OBVIOUS
<1>1. wrel' \in DOMAIN Releases
  BY DEF SysNext, sysVars, AdmittedEdit, UpgradeWebhook, SysInv
<1>2. ASSUME [Next]_vars, Vetted(shoot') PROVE SysInv'
  <2>1. Inv'
    BY <1>2, InvNext DEF SysInv
  <2>2. Vetted(shoot)' /\ Vetted(cluster)' /\ Vetted(snap)'
    BY <1>2, CopiesVetted DEF Vetted
  <2>3. (ext.st # "absent" => Approved(ext.provider))'
    BY <1>2, ExtensionApproved DEF Approved
  <2>4. (Reconciling => Approved(spec))'
    BY <1>2, RequestApproved DEF Approved
  <2> QED
    BY <1>1, <2>1, <2>2, <2>3, <2>4 DEF SysInv, Provenance
<1>3. CASE \E s \in Shoots : AdmittedEdit(s)
  <2>1. PICK s \in Shoots : Admits(Releases[wrel], s) /\ EditShoot(s)
    BY <1>3 DEF AdmittedEdit
  <2>2. [Next]_vars /\ shoot' = s
    BY <2>1 DEF Next, Users, EditShoot
  <2>3. Vetted(shoot')
    BY <2>1, <2>2 DEF Vetted, SysInv
  <2> QED
    BY <1>2, <2>2, <2>3
<1>4. CASE \E r \in DOMAIN Releases : UpgradeWebhook(r)
  <2>1. UNCHANGED <<garden, seed, rel, request, edits>> /\ faults' = faults - 1 /\ faults > 0
    BY <1>4 DEF UpgradeWebhook
  <2>2. faults' \in 0..MaxFaults
    <3>1. faults \in 0..MaxFaults /\ MaxFaults \in Nat
      BY ConstantsType DEF SysInv, Inv, TypeOK
    <3> QED
      BY <2>1, <3>1
  <2>3. GardenType' /\ SeedType' /\ RestType' /\ Attached'
    BY <2>1, <2>2, TypeParts
       DEF SysInv, Inv, GardenType, SeedType, RestType, garden, seed, Attached, request, Deleting
  <2>4. RequestType' /\ Control'
    BY <2>1, RequestKept DEF SysInv, seed
  <2>5. Inv'
    BY <2>3, <2>4, TypePartsPrime DEF Inv
  <2>6. Provenance'
    BY <2>1 DEF SysInv, Provenance, garden, request, Reconciling, Vetted, Approved
  <2> QED
    BY <1>1, <2>5, <2>6 DEF SysInv
<1>5. CASE \/ \E r \in Ref, v \in Value \cup {Absent, Broken} : EditSecret(r, v)
           \/ RequestMigrate
           \/ Gardener \/ ResourceManager \/ Worker \/ Faults
           \/ UNCHANGED vars
  <2>1. [Next]_vars
    BY <1>5 DEF Next, Users
  <2>2. shoot' = shoot
    BY <1>5 DEF EditSecret, RequestMigrate, Gardener, SyncCluster, CreateExtension,
                UpdateExtension, DeleteExtension, LeaveSeed, ResourceManager, Finalize,
                Worker, StartReconcile, StartDelete, GetCluster, NextPack, ReadPatch,
                WriteSecret, WriteMR, AfterPacks, DeleteMR, DeleteSecret, AfterDeletes,
                Finish, Abort, Faults, Fault, Upgrade, garden, vars
  <2> QED
    BY <1>2, <2>1, <2>2 DEF SysInv, Provenance
<1> QED
  BY <1>3, <1>4, <1>5 DEF SysNext, sysVars

\* Whichever Shoots are applied and however the two binaries are upgraded, all
\* that an Extension or a request goes by was let through by some webhook.
THEOREM SysInvCorrect == SysSpec => []SysInv
BY SysInvInit, SysInvNext, PTL DEF SysSpec

-----------------------------------------------------------------------------
(* The properties *)

\* A Reconcile that fails over what the Extension asks for has met another
\* release than the webhook, or a Cluster of another version of the Shoot.
THEOREM RejectsOnlySkewedCorrect == SysSpec => []RejectsOnlySkewed
<1>1. SysInv => RejectsOnlySkewed
  <2> SUFFICES ASSUME SysInv PROVE RejectsOnlySkewed
    OBVIOUS
  <2> USE DEF SysInv, Provenance
  <2>1. ~RejectsConfig
    BY DEF RejectsConfig, Inv, Control, Approved, packs
  <2>2. ASSUME RejectsPack
        PROVE  \E r \in DOMAIN Releases \ {rel} :
                   PackExists(Releases[r], packs[i].name, packs[i].version)
    <3>1. i \in DOMAIN packs /\ Approved(spec)
      BY <2>2, PacksIsSeq DEF RejectsPack, Inv, TypeOK, Control
    <3>2. PICK r \in DOMAIN Releases :
                 PackExists(Releases[r], packs[i].name, packs[i].version)
      BY <3>1 DEF Approved, packs
    <3>3. r # rel
      BY <2>2, <3>2 DEF RejectsPack, coll
    <3> QED
      BY <3>2, <3>3
  <2>3. ASSUME RejectsRef, snap.provider = spec, Wanted(snap) PROVE FALSE
    <3>1. /\ i \in DOMAIN packs
          /\ Len(packs[i].patches) \in Nat
          /\ DOMAIN packs[i].patches = 1..Len(packs[i].patches)
      BY <2>3, CurrentPack DEF RejectsRef
    <3>2. Len(got) + 1 \in DOMAIN packs[i].patches
      <4>1. Len(got) \in Nat /\ Len(got) < Len(packs[i].patches)
        BY <2>3, LenProperties DEF RejectsRef, Inv, TypeOK
      <4> QED
        BY <3>1, <4>1
    <3>3. snap \in Shoot
      BY DEF Inv, TypeOK
    <3>4. [name |-> packs[i].patches[Len(got) + 1], kind |-> "Secret"] \in snap.resources
      BY <2>3, <3>1, <3>2, <3>3, WantedResolves DEF packs
    <3> QED
      BY <2>3, <3>4 DEF RejectsRef
  <2> QED
    BY <2>1, <2>2, <2>3 DEF RejectsOnlySkewed
<1> QED
  BY <1>1, SysInvCorrect, PTL

\* No upgrade of the webhook locks a user out of the Shoot.
THEOREM NeverLockedOutCorrect == SysSpec => []NeverLockedOut
<1>1. SysInv => NeverLockedOut
  <2> SUFFICES ASSUME SysInv PROVE NeverLockedOut
    OBVIOUS
  <2> DEFINE now == Releases[wrel]
             woken == [shoot EXCEPT !.hibernated = ~@]
  <2>1. shoot \in Shoot
    BY DEF SysInv, Inv, TypeOK
  <2>2. Admits(now, [shoot EXCEPT !.deleting = TRUE])
    BY <2>1 DEF Admits, Shoot
  <2>3. Admits(now, [shoot EXCEPT !.extension = "disabled"])
    BY <2>1 DEF Admits, ExtensionOK, Shoot
  <2>4. ASSUME ~Admits(now, woken)
        PROVE  \E j \in DOMAIN shoot.provider.packs, r \in DOMAIN Releases :
                  LET p == shoot.provider.packs[j] IN
                  /\ PackExists(Releases[r], p.name, p.version)
                  /\ ~PackExists(now, p.name, p.version)
    <3>1. PICK r \in DOMAIN Releases : Admits(Releases[r], shoot)
      BY DEF SysInv, Provenance, Vetted
    <3>2. /\ woken.deleting = shoot.deleting /\ woken.extension = shoot.extension
          /\ woken.provider = shoot.provider /\ woken.resources = shoot.resources
      BY <2>1 DEF Shoot
    <3>3. Admits(Releases[r], woken)
      BY <3>1, <3>2 DEF Admits, ExtensionOK, PatchResolves
    <3> HIDE DEF woken, now
    <3>4. PICK j \in DOMAIN woken.provider.packs :
                 ~PackExists(now, woken.provider.packs[j].name, woken.provider.packs[j].version)
      BY <2>4, <3>3 DEF Admits, ExtensionOK
    <3>5. PackExists(Releases[r], woken.provider.packs[j].name, woken.provider.packs[j].version)
      BY <2>4, <3>3, <3>4 DEF Admits, ExtensionOK
    <3> QED
      BY <3>2, <3>4, <3>5
  <2> QED
    BY <2>2, <2>3, <2>4 DEF NeverLockedOut
<1> QED
  BY <1>1, SysInvCorrect, PTL
=============================================================================
