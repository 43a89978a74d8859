----------------------------- MODULE PackSystem -----------------------------
(***************************************************************************)
(* Webhook and controller together: the Shoots that the actuator gets to   *)
(* see, by way of Gardener's Cluster and Extension objects, are the ones   *)
(* the webhook let through.  Both binaries carry a collection of their own *)
(* and are upgraded separately, the webhook in the garden's runtime        *)
(* cluster and the controller in the seed.                                 *)
(*                                                                         *)
(* The webhook sees one Shoot at a time.  The actuator checks the same     *)
(* things again on an Extension and a Cluster that were read one after the *)
(* other and may come from different versions of the Shoot.                *)
(***************************************************************************)
EXTENDS Actuator, Admission

VARIABLES
    wrel,       \* the release that the webhook is running
    made        \* history: the release whose pack was rendered last, by name

sysVars == <<vars, wrel, made>>

SysInit == Init /\ wrel = 1 /\ made = [n \in Name |-> 0]

\* A pack that is rendered has the resources that its release was built with;
\* they may differ between releases while its version stays.
Record ==
    made' = IF pc = "patch" /\ pc' = "writeMR"
            THEN [made EXCEPT ![packs[i].name] = rel] ELSE made

\* A user writes the Shoot and the webhook lets the write through.
AdmittedEdit(s) ==
    /\ Admits(Releases[wrel], s)
    /\ EditShoot(s)
    /\ UNCHANGED <<wrel, made>>

UpgradeWebhook(r) ==
    /\ r # wrel
    /\ faults > 0 /\ faults' = faults - 1
    /\ wrel' = r
    /\ UNCHANGED <<garden, seed, rel, request, edits, made>>

SysNext ==
    \/ \E s \in Shoots : AdmittedEdit(s)
    \/ \E r \in DOMAIN Releases : UpgradeWebhook(r)
    \/ /\ \/ \E r \in Ref, v \in Value \cup {Absent, Broken} : EditSecret(r, v)
          \/ RequestMigrate
          \/ Gardener \/ ResourceManager \/ Worker \/ Faults
       /\ UNCHANGED wrel /\ Record

SysSpec == SysInit /\ [][SysNext]_sysVars

SysFairSpec == /\ SysSpec
               /\ WF_sysVars(Gardener /\ UNCHANGED wrel /\ Record)
               /\ WF_sysVars(Worker /\ UNCHANGED wrel /\ Record)
               /\ \A n \in Name : WF_sysVars(Finalize(n) /\ UNCHANGED wrel /\ Record)

-----------------------------------------------------------------------------
(* Properties *)

\* Reconcile is about to give up because of what the Extension asks for.
RejectsConfig ==
    pc = "cluster" /\ ~cluster.hibernated /\ ~(spec.kind = "config" /\ IsValid(packs))

RejectsPack ==
    pc = "pack" /\ i <= Len(packs) /\ ~PackExists(coll, packs[i].name, packs[i].version)

RejectsRef ==
    /\ pc = "patch" /\ Len(got) < Len(packs[i].patches)
    /\ [name |-> packs[i].patches[Len(got) + 1], kind |-> "Secret"] \notin snap.resources

\* What the webhook let through, the actuator turns down only because they
\* looked at different things: at collections of different releases, or at a
\* Cluster that was written, for a later version of the Shoot, after the
\* Extension was read.
RejectsOnlySkewed ==
    /\ ~RejectsConfig
    /\ RejectsPack => \E r \in DOMAIN Releases \ {rel} :
                         PackExists(Releases[r], packs[i].name, packs[i].version)
    /\ RejectsRef => snap.provider # spec \/ ~Wanted(snap)

\* Once webhook and controller are of one release and this release would let
\* the Shoot through as it is, an active shoot that is awake gets what its
\* user asked for, whatever other releases admitted, installed and left half
\* done before: the checks of the webhook are strong enough for Reconcile to go
\* through, once the secrets are there and hold patches that apply.  A shoot
\* that is leaving the seed is excepted: its Extension is no longer kept in
\* step with its Cluster.
AllInstalled ==
    /\ ext.st = "active" /\ ext.op # "migrate" /\ ~cluster.hibernated
    /\ \A r \in Ref : refs[r] \in Value
    => AsDesired

AdmittedByBoth == wrel = rel /\ Admits(Releases[rel], shoot)

InstallsWhatWasAdmitted == <>[]AdmittedByBoth => <>[]AllInstalled

\* In the end every pack runs with the resources of the release that runs: one
\* whose resources were changed and whose version was not is rolled out like
\* any other, without a change of the Shoot.
RunsLatestBuild ==
    <>[](Reconcilable =>
            \A j \in DOMAIN ext.provider.packs : made[ext.provider.packs[j].name] = rel)

\* Every write of a Shoot is compared with the collection of the webhook that
\* happens to run.  Whatever was let through before, by whichever release, the
\* Shoot can be deleted, and the extension can be turned off; it can be
\* hibernated and woken up unless an upgrade took away a pack that it uses.
NeverLockedOut ==
    LET now == Releases[wrel] IN
    /\ Admits(now, [shoot EXCEPT !.deleting = TRUE])
    /\ Admits(now, [shoot EXCEPT !.extension = "disabled"])
    /\ \/ Admits(now, [shoot EXCEPT !.hibernated = ~@])
       \/ \E j \in DOMAIN shoot.provider.packs, r \in DOMAIN Releases :
             LET p == shoot.provider.packs[j] IN
             /\ PackExists(Releases[r], p.name, p.version)
             /\ ~PackExists(now, p.name, p.version)
=============================================================================
