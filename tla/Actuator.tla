------------------------------ MODULE Actuator ------------------------------
(***************************************************************************)
(* The actuator of the extension (pkg/actuator/pack) at work on the        *)
(* Extension of one shoot, one step per API call.                          *)
(*                                                                         *)
(* For every configured pack the actuator renders the resources of the     *)
(* pack with the patches from the referenced secrets and stores the result *)
(* as a ManagedResource and a secret it points to, both named after the    *)
(* pack.  Packs of the collection that are not configured are deleted.     *)
(*                                                                         *)
(* The workqueue of the controller never runs two requests for one         *)
(* Extension at a time and namespaces do not share state, so one worker    *)
(* and one Extension are the whole system.  The worker reads the Extension *)
(* when it starts and the Cluster later, while Gardener changes both, and  *)
(* may stop between any two calls: an error, a crash or an upgrade to      *)
(* another release.  It is then started again from the top.                *)
(*                                                                         *)
(* Gardener (gardenlet, generic extension controller, resource manager,    *)
(* API server) is not part of the repository; what it does to the objects  *)
(* the actuator reads and writes is modelled as far as the actuator can    *)
(* see it and marked external.                                             *)
(***************************************************************************)
EXTENDS PackConfig

CONSTANTS
    Value,      \* contents of a referenced secret that kustomize can apply
    Releases,   \* sequence of collections, one for each release
    Shoots,     \* the states a user may bring the Shoot into
    MaxEdits,   \* bound: changes by users, to the Shoot, secrets or the seed
    MaxFaults   \* bound: API errors, crashes and upgrades

\* What a referenced secret may hold besides a Value: it does not exist, or
\* its data is no patch that applies to the pack.
Absent == "absent"
Broken == "broken"

\* The rendered resources of a pack: what the secret of its ManagedResource
\* holds.
Data == [version : Version, patches : Seq(Value)]
NoData == [version |-> "", patches |-> <<>>]

ASSUME ConstantsType ==
    /\ Name \subseteq STRING /\ Version \subseteq STRING /\ Ref \subseteq STRING
    /\ "" \notin Version
    /\ {Absent, Broken} \cap Value = {}
    /\ Releases \in Seq(Collection) /\ Releases # <<>>
    /\ Shoots \subseteq Shoot
    /\ MaxEdits \in Nat /\ MaxFaults \in Nat

VARIABLES
    (* the API objects *)
    shoot,      \* the Shoot in the garden cluster
    cluster,    \* the copy of the Shoot in the Cluster object of the seed
    ext,        \* the Extension object
    refs,       \* contents of the referenced secrets in the shoot namespace
    mr,         \* state of the ManagedResource of each pack name
    mrData,     \* contents of the secret of that ManagedResource
    (* the process *)
    rel,        \* the release that is running: a.collection is Releases[rel]
    (* the request in progress *)
    pc,         \* the API call that is next
    op,         \* the actuator method that was called
    spec,       \* ex.Spec.ProviderConfig, as read when the request started
    snap,       \* the Shoot in the Cluster read by GetCluster
    i,          \* index of the pack in cfg.Spec.Packs that is next
    got,        \* contents of the patch secrets read so far for pack i
    todo,       \* indices of the packs of the collection still to be deleted
    late,       \* history: names whose ManagedResource was already on its
                \* way out when this request updated it
    (* what is left of the bounds *)
    edits, faults

seed    == <<mr, mrData>>
garden  == <<shoot, cluster, ext, refs>>
request == <<pc, op, spec, snap, i, got, todo, late>>
bounds  == <<edits, faults>>
vars    == <<garden, seed, rel, request, bounds>>

coll == Releases[rel]
packs == spec.packs

-----------------------------------------------------------------------------
(* Initial state *)

NoExt == [st |-> "absent", op |-> "reconcile", finalizer |-> FALSE,
          provider |-> [kind |-> "nil", packs |-> <<>>]]

NoShoot == [deleting |-> FALSE, hibernated |-> FALSE, extension |-> "absent",
            provider |-> NoExt.provider, resources |-> {}]

NoRequest ==
    /\ pc' = "idle" /\ op' = "none" /\ spec' = NoExt.provider /\ snap' = NoShoot
    /\ i' = 1 /\ got' = <<>> /\ todo' = {} /\ late' = {}

Init ==
    /\ shoot = NoShoot /\ cluster = NoShoot /\ ext = NoExt
    /\ refs = [r \in Ref |-> Absent]
    /\ mr = [n \in Name |-> "absent"]
    /\ mrData = [n \in Name |-> NoData]
    /\ rel = 1
    /\ pc = "idle" /\ op = "none" /\ spec = NoExt.provider /\ snap = NoShoot
    /\ i = 1 /\ got = <<>> /\ todo = {} /\ late = {}
    /\ edits = MaxEdits /\ faults = MaxFaults

-----------------------------------------------------------------------------
(* Users and Gardener (external) *)

\* The Shoot lists the extension, so that Gardener keeps an Extension for it.
Wanted(s) == s.extension = "enabled" /\ ~s.deleting

EditShoot(s) ==
    /\ edits > 0 /\ edits' = edits - 1
    /\ shoot' = s
    /\ UNCHANGED <<cluster, ext, refs, seed, rel, request, faults>>

EditSecret(r, v) ==
    /\ edits > 0 /\ edits' = edits - 1
    /\ refs' = [refs EXCEPT ![r] = v]
    /\ UNCHANGED <<shoot, cluster, ext, seed, rel, request, faults>>

\* The flow that reconciles a Shoot writes the Cluster first ...
SyncCluster ==
    /\ cluster # shoot
    /\ cluster' = shoot
    /\ UNCHANGED <<shoot, ext, refs, seed, rel, request, bounds>>

\* ... and the Extension later.  A new Extension is to be reconciled, or
\* restored when the shoot comes from another seed.
CreateExtension(how) ==
    /\ ext.st = "absent" /\ Wanted(cluster)
    /\ ext' = [st |-> "active", op |-> how, finalizer |-> FALSE,
               provider |-> cluster.provider]
    /\ UNCHANGED <<shoot, cluster, refs, seed, rel, request, bounds>>

UpdateExtension ==
    /\ ext.st = "active" /\ ext.op # "migrate" /\ Wanted(cluster)
    /\ ext.provider # cluster.provider
    /\ ext' = [ext EXCEPT !.provider = cluster.provider]
    /\ UNCHANGED <<shoot, cluster, refs, seed, rel, request, bounds>>

\* An object without finalizers is gone at once.
DeleteExtension ==
    /\ ext.st = "active" /\ ext.op # "migrate" /\ ~Wanted(cluster)
    /\ ext' = IF ext.finalizer THEN [ext EXCEPT !.st = "deleting"] ELSE NoExt
    /\ UNCHANGED <<shoot, cluster, refs, seed, rel, request, bounds>>

\* The control plane moves to another seed: Gardener asks for Migrate, waits
\* for it and then deletes the shoot's namespace from this seed.
RequestMigrate ==
    /\ edits > 0 /\ edits' = edits - 1
    /\ ext.st = "active" /\ ext.op # "migrate"
    /\ ext' = [ext EXCEPT !.op = "migrate"]
    /\ UNCHANGED <<shoot, cluster, refs, seed, rel, request, faults>>

LeaveSeed ==
    /\ ext.st = "migrated"
    /\ ext' = NoExt
    /\ mr' = [n \in Name |-> "absent"]
    /\ mrData' = [n \in Name |-> NoData]
    /\ UNCHANGED <<shoot, cluster, refs, rel, request, bounds>>

\* The resource manager has removed the objects of a deleted ManagedResource
\* from the shoot and releases it.
Finalize(n) ==
    /\ mr[n] = "terminating"
    /\ mr' = [mr EXCEPT ![n] = "absent"]
    /\ UNCHANGED <<garden, mrData, rel, request, bounds>>

-----------------------------------------------------------------------------
(* How requests start and end (external: generic extension controller) *)

Reconciling == op \in {"reconcile", "restore", "migrate"}
Deleting    == op \in {"delete", "forceDelete"}

\* Reconcile and Restore run under a finalizer, Migrate is called as it is.
StartReconcile ==
    /\ pc = "idle" /\ ext.st = "active"
    /\ pc' = "cluster" /\ op' = ext.op /\ spec' = ext.provider
    /\ ext' = [ext EXCEPT !.finalizer = @ \/ ext.op # "migrate"]
    /\ UNCHANGED <<shoot, cluster, refs, seed, rel, snap, i, got, todo, late, bounds>>

\* Mutated: Delete walks over the configured packs only.
StartDeleteConfigured(how) ==
    /\ pc = "idle" /\ ext.st = "deleting"
    /\ pc' = "deleteMR" /\ op' = how
    /\ todo' = {k \in DOMAIN coll : \E j \in DOMAIN ext.provider.packs :
                                         ext.provider.packs[j].name = coll[k].name}
    /\ UNCHANGED <<garden, seed, rel, spec, snap, i, got, late, bounds>>

\* Mutated: Delete leaves a hibernated shoot alone, as Reconcile does.
StartDeleteAwake(how) ==
    /\ pc = "idle" /\ ext.st = "deleting" /\ ~cluster.hibernated
    /\ pc' = "deleteMR" /\ op' = how /\ todo' = DOMAIN coll
    /\ UNCHANGED <<garden, seed, rel, spec, snap, i, got, late, bounds>>

\* Delete and ForceDelete walk over the whole collection.
StartDelete(how) ==
    /\ pc = "idle" /\ ext.st = "deleting"
    /\ pc' = "deleteMR" /\ op' = how /\ todo' = DOMAIN coll
    /\ UNCHANGED <<garden, seed, rel, spec, snap, i, got, late, bounds>>

\* The method returned an error: nothing is undone, the request comes back.
Abort == NoRequest /\ UNCHANGED <<garden, seed, rel, bounds>>

\* The method returned nil.
Finish ==
    /\ pc = "finish"
    /\ ext' = CASE Deleting       -> NoExt
                [] op = "migrate" -> [ext EXCEPT !.st = "migrated", !.finalizer = FALSE]
                [] OTHER          -> [ext EXCEPT !.op = IF @ = "restore" THEN "reconcile" ELSE @]
    /\ NoRequest
    /\ UNCHANGED <<shoot, cluster, refs, seed, rel, bounds>>

\* An API call fails or times out, or the process crashes and comes back.
Fault ==
    /\ pc # "idle"
    /\ faults > 0 /\ faults' = faults - 1
    /\ NoRequest
    /\ UNCHANGED <<garden, seed, rel, edits>>

\* The process is replaced by one of another release.
Upgrade(r) ==
    /\ r # rel
    /\ faults > 0 /\ faults' = faults - 1
    /\ rel' = r
    /\ NoRequest
    /\ UNCHANGED <<garden, seed, edits>>

-----------------------------------------------------------------------------
(* Reconcile, also behind Restore and Migrate *)

\* Mutated: the config is looked at before the hibernation.
GetClusterChecksFirst ==
    /\ pc = "cluster"
    /\ \/ /\ spec.kind = "config" /\ IsValid(packs)
          /\ pc' = IF cluster.hibernated THEN "finish" ELSE "pack"
          /\ snap' = cluster
          /\ UNCHANGED <<op, spec, i, got, todo, late, garden, seed, rel, bounds>>
       \/ /\ ~(spec.kind = "config" /\ IsValid(packs))
          /\ Abort

\* A hibernated shoot is left alone, even when its config is unusable.
GetCluster ==
    /\ pc = "cluster"
    /\ \/ /\ cluster.hibernated
          /\ pc' = "finish"
          /\ snap' = cluster
          /\ UNCHANGED <<op, spec, i, got, todo, late, garden, seed, rel, bounds>>
       \/ /\ ~cluster.hibernated
          /\ spec.kind = "config" /\ IsValid(packs)
          /\ pc' = "pack"
          /\ snap' = cluster
          /\ UNCHANGED <<op, spec, i, got, todo, late, garden, seed, rel, bounds>>
       \/ /\ ~cluster.hibernated
          /\ ~(spec.kind = "config" /\ IsValid(packs))
          /\ Abort

\* Mutated: the collection is not asked for the pack.
NextPackUnchecked ==
    /\ pc = "pack" /\ i <= Len(packs)
    /\ pc' = "patch" /\ got' = <<>>
    /\ UNCHANGED <<op, spec, snap, i, todo, late, garden, seed, rel, bounds>>

\* Mutated: continue instead of return for a pack that does not exist.
NextPackContinues ==
    /\ pc = "pack" /\ i <= Len(packs)
    /\ IF PackExists(coll, packs[i].name, packs[i].version)
       THEN pc' = "patch" /\ got' = <<>> /\ i' = i
       ELSE pc' = pc /\ got' = got /\ i' = i + 1
    /\ UNCHANGED <<op, spec, snap, todo, late, garden, seed, rel, bounds>>

\* Mutated: the collection is asked for the name only.
NextPackByName ==
    /\ pc = "pack" /\ i <= Len(packs)
    /\ \/ /\ packs[i].name \in NamesOf(coll)
          /\ pc' = "patch" /\ got' = <<>>
          /\ UNCHANGED <<op, spec, snap, i, todo, late, garden, seed, rel, bounds>>
       \/ /\ packs[i].name \notin NamesOf(coll)
          /\ Abort

\* Mutated: a pack that is there in its version is skipped.
NextPackSkipsInstalled ==
    /\ pc = "pack" /\ i <= Len(packs)
    /\ \/ /\ mr[packs[i].name] = "live" /\ mrData[packs[i].name].version = packs[i].version
          /\ i' = i + 1
          /\ UNCHANGED <<pc, op, spec, snap, got, todo, late, garden, seed, rel, bounds>>
       \/ /\ mr[packs[i].name] # "live" \/ mrData[packs[i].name].version # packs[i].version
          /\ PackExists(coll, packs[i].name, packs[i].version)
          /\ pc' = "patch" /\ got' = <<>>
          /\ UNCHANGED <<op, spec, snap, i, todo, late, garden, seed, rel, bounds>>
       \/ /\ ~PackExists(coll, packs[i].name, packs[i].version)
          /\ Abort

\* The head of the loop over the configured packs.
NextPack ==
    /\ pc = "pack" /\ i <= Len(packs)
    /\ \/ /\ PackExists(coll, packs[i].name, packs[i].version)
          /\ pc' = "patch" /\ got' = <<>>
          /\ UNCHANGED <<op, spec, snap, i, todo, late, garden, seed, rel, bounds>>
       \/ /\ ~PackExists(coll, packs[i].name, packs[i].version)
          /\ Abort

\* secretFromResourceRef for the next patch of pack i: the reference is looked
\* up in the Shoot that was read before, the secret is read now.  Patches with
\* the same reference share a file, so the last read is what counts for all.
ReadPatch ==
    LET ref == packs[i].patches[Len(got) + 1] IN
    /\ pc = "patch" /\ Len(got) < Len(packs[i].patches)
    /\ \/ /\ [name |-> ref, kind |-> "Secret"] \in snap.resources
          /\ refs[ref] # Absent
          /\ got' = [x \in 1..(Len(got) + 1) |->
                       IF packs[i].patches[x] = ref THEN refs[ref] ELSE got[x]]
          /\ UNCHANGED <<pc, op, spec, snap, i, todo, late, garden, seed, rel, bounds>>
       \/ /\ \/ [name |-> ref, kind |-> "Secret"] \notin snap.resources
             \/ refs[ref] = Absent
          /\ Abort

\* Mutated: the error of kustomizer.Run is dropped.
WriteSecretUnchecked ==
    /\ pc = "patch" /\ Len(got) = Len(packs[i].patches)
    /\ pc' = "writeMR"
    /\ mrData' = [mrData EXCEPT ![packs[i].name] =
                     [version |-> packs[i].version, patches |-> got]]
    /\ UNCHANGED <<op, spec, snap, i, got, todo, late, garden, mr, rel, bounds>>

\* Mutated: a secret that is there already is not updated.
WriteSecretOnce ==
    /\ pc = "patch" /\ Len(got) = Len(packs[i].patches)
    /\ \/ /\ \A j \in DOMAIN got : got[j] # Broken
          /\ pc' = "writeMR"
          /\ mrData' = [mrData EXCEPT ![packs[i].name] =
                           IF @ = NoData THEN [version |-> packs[i].version, patches |-> got]
                                         ELSE @]
          /\ UNCHANGED <<op, spec, snap, i, got, todo, late, garden, mr, rel, bounds>>
       \/ /\ \E j \in DOMAIN got : got[j] = Broken
          /\ Abort

\* kustomizer.Run fails on a patch it cannot apply; otherwise CreateForShoot
\* first writes the secret ...
WriteSecret ==
    /\ pc = "patch" /\ Len(got) = Len(packs[i].patches)
    /\ \/ /\ \A j \in DOMAIN got : got[j] # Broken
          /\ pc' = "writeMR"
          /\ mrData' = [mrData EXCEPT ![packs[i].name] =
                           [version |-> packs[i].version, patches |-> got]]
          /\ UNCHANGED <<op, spec, snap, i, got, todo, late, garden, mr, rel, bounds>>
       \/ /\ \E j \in DOMAIN got : got[j] = Broken
          /\ Abort

\* ... and then creates or updates the ManagedResource.  An update does not
\* stop one that is being deleted from going away.
WriteMR ==
    LET n == packs[i].name IN
    /\ pc = "writeMR"
    /\ mr' = [mr EXCEPT ![n] = IF @ = "absent" THEN "live" ELSE @]
    /\ late' = IF mr[n] = "terminating" THEN late \cup {n} ELSE late
    /\ i' = i + 1 /\ pc' = "pack" /\ got' = <<>>
    /\ UNCHANGED <<op, spec, snap, todo, garden, mrData, rel, bounds>>

\* Mutated: || instead of && in the comparison.
DisabledByEither(k) ==
    \A j \in DOMAIN packs :
        ~(packs[j].name = coll[k].name \/ packs[j].version = coll[k].version)

\* Mutated: the last configured pack is never appended to enabledPacks.
DisabledButLast(k) ==
    \A j \in 1..(Len(packs) - 1) :
        ~(packs[j].name = coll[k].name /\ packs[j].version = coll[k].version)

\* A pack of the collection is disabled unless it is configured in exactly
\* this version.
Disabled(k) ==
    \A j \in DOMAIN packs :
        ~(packs[j].name = coll[k].name /\ packs[j].version = coll[k].version)

AfterPacks ==
    /\ pc = "pack" /\ i > Len(packs)
    /\ todo' = {k \in DOMAIN coll : Disabled(k)}
    /\ pc' = "deleteMR"
    /\ UNCHANGED <<op, spec, snap, i, got, late, garden, seed, rel, bounds>>

-----------------------------------------------------------------------------
(* The delete loop of Reconcile and of Delete *)

\* The pack that is next: the loop keeps the order of the collection.
IsNext(k) == k \in todo /\ \A m \in todo : k <= m

\* Mutated: any error of this delete is ignored, not only "not found".
DeleteMRIgnoresErrors(k) ==
    /\ pc = "deleteMR" /\ IsNext(k)
    /\ mr' \in {mr, [mr EXCEPT ![coll[k].name] = IF @ = "live" THEN "terminating" ELSE @]}
    /\ pc' = "deleteSecret"
    /\ UNCHANGED <<op, spec, snap, i, got, todo, late, garden, mrData, rel, bounds>>

\* DeleteForShoot first deletes the ManagedResource, which stays until the
\* resource manager releases it; one that does not exist is no error.
DeleteMR(k) ==
    /\ pc = "deleteMR" /\ IsNext(k)
    /\ mr' = [mr EXCEPT ![coll[k].name] = IF @ = "live" THEN "terminating" ELSE @]
    /\ pc' = "deleteSecret"
    /\ UNCHANGED <<op, spec, snap, i, got, todo, late, garden, mrData, rel, bounds>>

\* Mutated: return err inside the loop, whether or not err is nil.
DeleteSecretReturns(k) ==
    /\ pc = "deleteSecret" /\ IsNext(k)
    /\ mrData' = [mrData EXCEPT ![coll[k].name] = NoData]
    /\ todo' = {}
    /\ pc' = "deleteMR"
    /\ UNCHANGED <<op, spec, snap, i, got, late, garden, mr, rel, bounds>>

\* Then it deletes the secret.
DeleteSecret(k) ==
    /\ pc = "deleteSecret" /\ IsNext(k)
    /\ mrData' = [mrData EXCEPT ![coll[k].name] = NoData]
    /\ todo' = todo \ {k}
    /\ pc' = "deleteMR"
    /\ UNCHANGED <<op, spec, snap, i, got, late, garden, mr, rel, bounds>>

AfterDeletes ==
    /\ pc = "deleteMR" /\ todo = {}
    /\ pc' = "finish"
    /\ UNCHANGED <<op, spec, snap, i, got, todo, late, garden, seed, rel, bounds>>

-----------------------------------------------------------------------------
(* The specification *)

\* What users do; it stops when edits are used up.
Users ==
    \/ \E s \in Shoots : EditShoot(s)
    \/ \E r \in Ref, v \in Value \cup {Absent, Broken} : EditSecret(r, v)
    \/ RequestMigrate

Gardener ==
    \/ SyncCluster
    \/ \E how \in {"reconcile", "restore"} : CreateExtension(how)
    \/ UpdateExtension
    \/ DeleteExtension
    \/ LeaveSeed

ResourceManager == \E n \in Name : Finalize(n)

\* A step of the worker.
Worker ==
    \/ StartReconcile
    \/ \E how \in {"delete", "forceDelete"} : StartDelete(how)
    \/ GetCluster \/ NextPack \/ ReadPatch \/ WriteSecret \/ WriteMR \/ AfterPacks
    \/ \E k \in DOMAIN coll : DeleteMR(k) \/ DeleteSecret(k)
    \/ AfterDeletes \/ Finish

Faults == Fault \/ \E r \in DOMAIN Releases : Upgrade(r)

Next == Users \/ Gardener \/ ResourceManager \/ Worker \/ Faults

Spec == Init /\ [][Next]_vars

\* The requeue after an error, the resync interval and gardenlet's periodic
\* reconciliation start a request again and again; every process that is
\* running takes its next step.
Fairness == /\ WF_vars(Gardener)
            /\ WF_vars(Worker)
            /\ \A n \in Name : WF_vars(Finalize(n))

FairSpec == Spec /\ Fairness

-----------------------------------------------------------------------------
(* Properties *)

Steps == {"idle", "cluster", "pack", "patch", "writeMR", "deleteMR", "deleteSecret", "finish"}

TypeOK ==
    /\ shoot \in Shoot /\ cluster \in Shoot /\ snap \in Shoot
    /\ ext \in [st : {"absent", "active", "deleting", "migrated"},
                op : {"reconcile", "restore", "migrate"},
                finalizer : BOOLEAN, provider : Provider]
    /\ refs \in [Ref -> Value \cup {Absent, Broken}]
    /\ mr \in [Name -> {"absent", "live", "terminating"}]
    /\ mrData \in [Name -> Data \cup {NoData}]
    /\ rel \in DOMAIN Releases
    /\ pc \in Steps
    /\ op \in {"none", "reconcile", "restore", "migrate", "delete", "forceDelete"}
    /\ spec \in Provider
    /\ i \in 1..(Len(packs) + 1)
    /\ got \in Seq(Value \cup {Broken})
    /\ todo \subseteq DOMAIN coll
    /\ late \subseteq Name
    /\ edits \in 0..MaxEdits /\ faults \in 0..MaxFaults

\* No release has two versions of one pack.
SingleVersion ==
    \A r \in DOMAIN Releases : \A k, m \in DOMAIN Releases[r] :
        Releases[r][k].name = Releases[r][m].name => k = m

\* No release adds a pack or drops one.
SameNames ==
    \A r, q \in DOMAIN Releases : NamesOf(Releases[r]) = NamesOf(Releases[q])

Configured == {packs[j].name : j \in DOMAIN packs}

\* The ManagedResource of a pack is in place, unless it was being deleted
\* when the request updated it, and its secret holds the configured version
\* with one patch for every reference.
Delivered(p) ==
    /\ mr[p.name] = "live" \/ p.name \in late
    /\ mrData[p.name].version = p.version
    /\ Len(mrData[p.name].patches) = Len(p.patches)

\* Nothing of a pack is left but what the resource manager is removing.
Withdrawn(n) == mr[n] # "live" /\ mrData[n] = NoData

\* Reconcile begins to delete packs, and reports success, only when every
\* configured pack is in place, and the deletes leave it in place: an error
\* half way never leaves the shoot without its old packs and its new ones.
DeliverBeforeWithdraw ==
    Reconciling /\ ~snap.hibernated /\ pc \in {"deleteMR", "deleteSecret", "finish"} =>
        \A j \in DOMAIN packs : Delivered(packs[j])

\* "Each pack gets its own managed resource" and only "packs, which have not
\* been configured" have theirs deleted (comments in Reconcile): when it
\* returns nil the ManagedResource of every configured pack is there.
ConfiguredPacksInstalled ==
    Reconciling /\ ~snap.hibernated /\ pc = "finish" =>
        \A j \in DOMAIN packs : mr[packs[j].name] = "live" \/ packs[j].name \in late

\* When Reconcile of a shoot that is awake returns nil, every pack that is
\* not configured is withdrawn, whatever earlier requests left behind when
\* they were cut short.
SuccessWithdrawsTheRest ==
    Reconciling /\ ~snap.hibernated /\ pc = "finish" =>
        \A n \in Name \ Configured : Withdrawn(n)

\* When Delete or ForceDelete returns nil there is no pack left.
DeleteWithdrawsAll ==
    Deleting /\ pc = "finish" => \A n \in Name : Withdrawn(n)

\* Without an Extension there is no pack: no order of edits, requests that
\* still run on an old config, crashes and upgrades lets one survive.
GoneMeansWithdrawn ==
    ext.st = "absent" => \A n \in Name : Withdrawn(n)

\* The resource manager never meets a ManagedResource whose secret is not
\* there, at whatever call a request was cut short.
LiveHasData == \A n \in Name : mr[n] = "live" => mrData[n] # NoData

\* A pack that is running is taken down only by Delete, by a Reconcile whose
\* config does not name it, or together with the seed's namespace.  In
\* particular a change of its version, in the config or by an upgrade, does
\* not take it down.
TakenDownOnRequest ==
    [][\A n \in Name : mr[n] = "live" /\ mr'[n] # "live" =>
          Deleting \/ n \notin Configured \/ ext.st = "migrated"]_vars

\* What the Extension asks for can be done: the checks of Reconcile succeed.
Reconcilable ==
    /\ ext.st = "active" /\ ~cluster.hibernated
    /\ ext.provider.kind = "config" /\ IsValid(ext.provider.packs)
    /\ \A j \in DOMAIN ext.provider.packs :
          LET p == ext.provider.packs[j] IN
          /\ PackExists(coll, p.name, p.version)
          /\ \A x \in DOMAIN p.patches :
                /\ [name |-> p.patches[x], kind |-> "Secret"] \in cluster.resources
                /\ refs[p.patches[x]] \in Value

\* The seed holds exactly what the Extension asks for.
AsDesired ==
    LET want == ext.provider.packs IN
    /\ \A j \in DOMAIN want :
          /\ mr[want[j].name] = "live"
          /\ mrData[want[j].name] =
                [version |-> want[j].version,
                 patches |-> [x \in DOMAIN want[j].patches |-> refs[want[j].patches[x]]]]
    /\ \A n \in Name \ {want[j].name : j \in DOMAIN want} :
          mr[n] = "absent" /\ mrData[n] = NoData

\* When nothing changes any more the packs end up as the Extension asks for,
\* with the patches as they are now, and stay so; if it cannot be reconciled
\* this says nothing.  An Extension that is gone leaves nothing behind.
Converges ==
    <>[]( /\ Reconcilable => AsDesired
          /\ ext.st = "absent" => \A n \in Name : mr[n] = "absent" )

\* An Extension that is being deleted goes away: Delete needs neither a valid
\* config nor a shoot that is awake.
DeletionCompletes == ext.st = "deleting" ~> ext.st = "absent"

\* A shoot gets off this seed: Migrate, which is a full Reconcile, is held up
\* by a config or a secret that has become unusable but never for good by one
\* that can be reconciled, and not at all while the shoot is hibernated.
MigrationCompletes ==
    []<>~(/\ ext.st = "active" /\ ext.op = "migrate"
          /\ Reconcilable \/ cluster.hibernated)
=============================================================================
