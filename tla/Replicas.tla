------------------------------ MODULE Replicas ------------------------------
(***************************************************************************)
(* The controller as it is deployed: two replicas of the process           *)
(* (cmd/extension/controller), each with a start-up that may fail and a    *)
(* release of its own, and a lease that says which of them works.          *)
(*                                                                         *)
(* Replica 1 has the release and the request of Actuator, replica 2 has    *)
(* another set of these variables; both work on the same objects.  With    *)
(* leader election, as the chart configures it, the two of them are shown  *)
(* to implement the single process of Actuator.                            *)
(*                                                                         *)
(* A leader that cannot renew its lease exits before the lease expires     *)
(* (controller-runtime: 10s and 15s).  Calls that such a leader has sent   *)
(* and that arrive after that are not modelled.                            *)
(***************************************************************************)
EXTENDS Actuator

CONSTANTS
    Sound,          \* releases whose collection loads and verifies
    LeaderElection, \* the flag --leader-election
    MaxRestarts     \* bound: ends of processes

ASSUME ReplicasConstants ==
    /\ Sound \subseteq DOMAIN Releases /\ 1 \in Sound
    /\ LeaderElection \in BOOLEAN
    /\ MaxRestarts \in Nat

VARIABLES
    rel2, pc2, op2, spec2, snap2, i2, got2, todo2, late2,
    phase,      \* how far each replica has come
    holder,     \* the replica in the lease, 0 when it is free or has expired
    front,      \* history: the release that was the last to lead
    spent,      \* history: what the single process would call faults
    restarts    \* what is left of the bound

Replica == {1, 2}
Other(p) == 3 - p

local1  == <<rel, request>>
local2  == <<rel2, pc2, op2, spec2, snap2, i2, got2, todo2, late2>>
ctl     == <<phase, holder, front, restarts>>
repVars == <<garden, seed, bounds, local1, local2, ctl, spent>>

Two == INSTANCE Actuator WITH
    rel <- rel2, pc <- pc2, op <- op2, spec <- spec2, snap <- snap2,
    i <- i2, got <- got2, todo <- todo2, late <- late2

RelOf(p) == IF p = 1 THEN rel ELSE rel2
Idle(p)  == IF p = 1 THEN pc = "idle" ELSE pc2 = "idle"

RepInit ==
    /\ Init /\ Two!Init
    /\ phase = [p \in Replica |-> "down"]
    /\ holder = 0 /\ front = 1 /\ spent = 0 /\ restarts = MaxRestarts

-----------------------------------------------------------------------------
(* The life of a process *)

\* runManager up to m.Start, which has no effect on the cluster (Startup has
\* its steps): without a collection that verifies the process ends with an
\* error and is started again.
Boot(p) ==
    /\ phase[p] = "down" /\ RelOf(p) \in Sound
    /\ phase' = [phase EXCEPT ![p] = "standby"]
    /\ UNCHANGED <<garden, seed, bounds, local1, local2, holder, front, restarts, spent>>

\* Mutated: the flag is not passed to the manager and keeps its default.
ElectDefault(p) ==
    /\ phase[p] = "standby"
    /\ phase' = [phase EXCEPT ![p] = "leading"]
    /\ front' = RelOf(p)
    /\ spent' = spent + (IF RelOf(p) # front THEN 1 ELSE 0)
    /\ UNCHANGED <<garden, seed, bounds, local1, local2, holder, restarts>>

\* The manager starts its controllers, at once or when it gets the lease.
Elect(p) ==
    /\ phase[p] = "standby"
    /\ LeaderElection => holder = 0
    /\ phase' = [phase EXCEPT ![p] = "leading"]
    /\ holder' = IF LeaderElection THEN p ELSE holder
    /\ front' = RelOf(p)
    /\ spent' = spent + (IF RelOf(p) # front THEN 1 ELSE 0)
    /\ UNCHANGED <<garden, seed, bounds, local1, local2, restarts>>

\* A process crashes, is stopped or gives up its lease, and its pod comes
\* back with release r.  A rollout stops at a release that does not start.
Exit(p, r) ==
    /\ restarts > 0 /\ restarts' = restarts - 1
    /\ phase[p] # "down"
    /\ r \in Sound \/ RelOf(Other(p)) \in Sound
    /\ phase' = [phase EXCEPT ![p] = "down"]
    /\ spent' = spent + (IF Idle(p) THEN 0 ELSE 1)
    /\ \/ p = 1 /\ NoRequest /\ rel' = r /\ UNCHANGED local2
       \/ p = 2 /\ Two!NoRequest /\ rel2' = r /\ UNCHANGED local1
    /\ UNCHANGED <<garden, seed, bounds, holder, front>>

\* Mutated: the lock is for life, and is given back only by a holder that has
\* come back itself.
ExpireOnReturn ==
    /\ holder # 0 /\ phase[holder] = "standby"
    /\ holder' = 0
    /\ UNCHANGED <<garden, seed, bounds, local1, local2, phase, front, restarts, spent>>

\* A lease that nobody renews expires.
Expire ==
    /\ holder # 0 /\ phase[holder] # "leading"
    /\ holder' = 0
    /\ UNCHANGED <<garden, seed, bounds, local1, local2, phase, front, restarts, spent>>

-----------------------------------------------------------------------------
(* The specification *)

\* What goes on outside of the processes.
Outside ==
    /\ Users \/ Gardener \/ ResourceManager
    /\ UNCHANGED <<local2, ctl, spent>>

\* The controller of a manager that has started works on requests.
Work(p) ==
    /\ phase[p] = "leading"
    /\ \/ p = 1 /\ Worker /\ UNCHANGED local2
       \/ p = 2 /\ Two!Worker /\ UNCHANGED local1
    /\ UNCHANGED <<ctl, spent>>

FailedCall(p) ==
    /\ \/ p = 1 /\ Fault /\ UNCHANGED local2
       \/ p = 2 /\ Two!Fault /\ UNCHANGED local1
    /\ spent' = spent + 1
    /\ UNCHANGED ctl

RepNext ==
    \/ Outside
    \/ \E p \in Replica : Boot(p) \/ Elect(p) \/ Work(p) \/ FailedCall(p)
    \/ \E p \in Replica, r \in DOMAIN Releases : Exit(p, r)
    \/ Expire

RepSpec == RepInit /\ [][RepNext]_repVars

\* Kubernetes restarts processes and every standby asks for the lease again
\* and again; for the rest see Actuator.
RepFairSpec ==
    /\ RepSpec
    /\ WF_repVars(Gardener /\ UNCHANGED <<local2, ctl, spent>>)
    /\ \A n \in Name : WF_repVars(Finalize(n) /\ UNCHANGED <<local2, ctl, spent>>)
    /\ \A p \in Replica : WF_repVars(Boot(p)) /\ WF_repVars(Work(p))
    /\ WF_repVars(\E p \in Replica : Elect(p))
    /\ WF_repVars(Expire)

-----------------------------------------------------------------------------
(* Properties *)

RepTypeOK ==
    /\ TypeOK /\ Two!TypeOK
    /\ phase \in [Replica -> {"down", "standby", "leading"}]
    /\ holder \in Replica \cup {0}
    /\ front \in DOMAIN Releases
    /\ spent \in 0..(MaxFaults + 2 * MaxRestarts)
    /\ restarts \in 0..MaxRestarts

\* The process that both replicas together look like.
One == INSTANCE Actuator WITH
    MaxFaults <- MaxFaults + 2 * MaxRestarts,
    faults    <- MaxFaults + 2 * MaxRestarts - spent,
    rel  <- front,
    pc   <- IF phase[2] = "leading" THEN pc2   ELSE pc,
    op   <- IF phase[2] = "leading" THEN op2   ELSE op,
    spec <- IF phase[2] = "leading" THEN spec2 ELSE spec,
    snap <- IF phase[2] = "leading" THEN snap2 ELSE snap,
    i    <- IF phase[2] = "leading" THEN i2    ELSE i,
    got  <- IF phase[2] = "leading" THEN got2  ELSE got,
    todo <- IF phase[2] = "leading" THEN todo2 ELSE todo,
    late <- IF phase[2] = "leading" THEN late2 ELSE late

\* Two replicas do on the seed what one process could do: a change of the
\* leader is no more than a fault or an upgrade, never do calls of two
\* requests mix, whatever each of them has read and whichever release each
\* of them is.  What holds for every behaviour of Actuator holds for the
\* controller as it is deployed.
ImplementsActuator == One!Spec

\* Through changes of the leader the packs still end up as the Extension
\* asks for, by the collection of the last leader, even if one of the
\* replicas is stuck at a release that does not start.
RepConverges == One!Converges
=============================================================================
