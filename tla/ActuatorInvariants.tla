------------------------- MODULE ActuatorInvariants -------------------------
(***************************************************************************)
(* The inductive invariants behind the safety properties of Actuator.  The *)
(* properties speak of a few moments of a request; these say what holds at *)
(* every step on the way there.                                            *)
(***************************************************************************)
EXTENDS Actuator

\* A Reconcile that goes on to work on the packs.
Awake == Reconciling /\ ~snap.hibernated

\* Where the request is determines what it has checked so far.
Control ==
    /\ pc = "idle" <=> op = "none"
    /\ pc \in {"idle", "cluster"} => i = 1 /\ todo = {}
    /\ pc \in {"cluster", "pack", "patch", "writeMR"} => Reconciling
    /\ pc \in {"pack", "patch", "writeMR"} => Awake
    /\ pc \in {"deleteMR", "deleteSecret"} => Awake \/ Deleting
    /\ pc \notin {"idle", "cluster"} /\ Awake => IsValid(packs)
    /\ pc \in {"patch", "writeMR"} =>
          i <= Len(packs) /\ PackExists(coll, packs[i].name, packs[i].version)
    /\ pc = "patch" => Len(got) <= Len(packs[i].patches)
    /\ pc = "writeMR" =>
          /\ mrData[packs[i].name] = [version |-> packs[i].version, patches |-> got]
          /\ Len(got) = Len(packs[i].patches)
    /\ pc \in {"deleteMR", "deleteSecret", "finish"} /\ Awake => i = Len(packs) + 1
    /\ Awake => \A j \in 1..(i - 1) : PackExists(coll, packs[j].name, packs[j].version)
    /\ Awake => \A k \in todo : Disabled(k)
    /\ pc = "finish" => todo = {}

\* The Extension stays, under the finalizer or for the time of a migration,
\* as long as a request runs.
Attached ==
    /\ Deleting => ext.st = "deleting"
    /\ op = "migrate" => ext.st = "active" /\ ext.op = "migrate"
    /\ op \in {"reconcile", "restore"} => ext.finalizer /\ ext.st \in {"active", "deleting"}

\* The packs that the loop has passed are in place, and stay in place while
\* the other ones are written and the disabled ones are deleted.
Progress == Awake => \A j \in 1..(i - 1) : Delivered(packs[j])

\* A ManagedResource is deleted before its secret.
Order == pc = "deleteSecret" => \A k \in todo : IsNext(k) => mr[coll[k].name] # "live"

\* The packs that the delete loop has passed are withdrawn.
Swept ==
    pc \in {"deleteMR", "deleteSecret", "finish"} =>
        \A k \in DOMAIN coll \ todo :
            Deleting \/ (Awake /\ Disabled(k)) => Withdrawn(coll[k].name)

\* Whatever is on the seed belongs to a pack of the collection, so that a
\* delete loop over the collection gets to it.
Owned == \A n \in Name : Withdrawn(n) \/ n \in NamesOf(coll)

AllWithdrawn == \A n \in Name : Withdrawn(n)

\* Nothing is left on the seed without an Extension, or with one that could
\* go away at once.
Guarded ==
    /\ ext.st = "absent" => AllWithdrawn
    /\ ext.st = "active" /\ ~ext.finalizer /\ ext.op # "migrate" => AllWithdrawn

\* All of it.  Progress needs SingleVersion, Owned and Guarded need
\* SameNames; the rest holds for any releases.  That every invariant
\* the proofs rest on holds in the model, step by step, is what this checks.
Inductive ==
    /\ TypeOK /\ Attached /\ Control /\ Order /\ Swept /\ LiveHasData
    /\ SingleVersion => Progress
    /\ SameNames => Owned /\ Guarded
=============================================================================
