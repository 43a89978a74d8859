--------------------------- MODULE ReplicasProofs ---------------------------
(***************************************************************************)
(* With leader election two replicas are one process: every step of        *)
(* Replicas is a step of Actuator or a stutter, for any packs, releases,   *)
(* Shoots and bounds.  What is proved of Actuator is then cited for the    *)
(* replicas, through the instance Solo of its proofs.                      *)
(***************************************************************************)
EXTENDS Replicas, SequenceTheorems, TLAPS

-----------------------------------------------------------------------------
(* The inductive invariant *)

\* No request, in either replica.
Rest1 == /\ pc = "idle" /\ op = "none" /\ spec = NoExt.provider /\ snap = NoShoot
         /\ i = 1 /\ got = <<>> /\ todo = {} /\ late = {}

Rest2 == /\ pc2 = "idle" /\ op2 = "none" /\ spec2 = NoExt.provider /\ snap2 = NoShoot
         /\ i2 = 1 /\ got2 = <<>> /\ todo2 = {} /\ late2 = {}

\* A replica that does not lead has no request, and one that is between two
\* requests remembers nothing of the last one.
Resting == /\ phase[1] # "leading" \/ pc = "idle" => Rest1
           /\ phase[2] # "leading" \/ pc2 = "idle" => Rest2

\* Whoever leads is in the lease, so there is one at most.
Exclusive ==
    \A p \in Replica : phase[p] = "leading" => holder = p /\ front = RelOf(p)

\* The life of a process costs the single process two faults: one when it
\* ends within a request, one when another release takes over.  The second is
\* still to come when nobody leads, unless no release has changed so far.
Budget == (MaxFaults - faults) + 2 * (MaxRestarts - restarts)

Charged ==
    /\ spent <= Budget
    /\ phase[1] # "leading" /\ phase[2] # "leading" =>
          spent + 1 <= Budget \/ (rel = front /\ rel2 = front)

ControlType ==
    /\ phase \in [Replica -> {"down", "standby", "leading"}]
    /\ holder \in Replica \cup {0}
    /\ rel \in DOMAIN Releases /\ rel2 \in DOMAIN Releases /\ front \in DOMAIN Releases

CountType ==
    /\ faults \in 0..MaxFaults /\ restarts \in 0..MaxRestarts /\ spent \in Nat

RepInv == ControlType /\ CountType /\ Exclusive /\ Resting /\ Charged

LEMMA Bounds == MaxFaults \in Nat /\ MaxRestarts \in Nat /\ MaxFaults + 2 * MaxRestarts \in Nat
<1>1. MaxFaults \in Nat /\ MaxRestarts \in Nat
  BY ConstantsType, ReplicasConstants
<1> QED
  BY <1>1

\* What the steps of a request change: the two ends of a request apart, it
\* stays in progress, and the release and the number of faults stay.
LEMMA WorkerFacts ==
    ASSUME Worker
    PROVE  /\ NoRequest \/ pc' # "idle"
           /\ UNCHANGED <<rel, bounds>>
BY DEF Worker, StartReconcile, StartDelete, GetCluster, NextPack, ReadPatch, WriteSecret,
       WriteMR, AfterPacks, DeleteMR, DeleteSecret, AfterDeletes, Finish, Abort

LEMMA Worker2Facts ==
    ASSUME Two!Worker
    PROVE  /\ Two!NoRequest \/ pc2' # "idle"
           /\ UNCHANGED <<rel2, bounds>>
BY DEF Two!Worker, Two!StartReconcile, Two!StartDelete, Two!GetCluster, Two!NextPack,
       Two!ReadPatch, Two!WriteSecret, Two!WriteMR, Two!AfterPacks, Two!DeleteMR,
       Two!DeleteSecret, Two!AfterDeletes, Two!Finish, Two!Abort, Two!bounds, bounds

LEMMA Rested == NoRequest => Rest1'
BY DEF NoRequest, Rest1, NoExt, NoShoot

LEMMA Rested2 == Two!NoRequest => Rest2'
BY DEF Two!NoRequest, Rest2, NoExt, NoShoot, Two!NoExt, Two!NoShoot

LEMMA RepInvInit == RepInit => RepInv
<1> SUFFICES ASSUME RepInit PROVE RepInv
  OBVIOUS
<1>1. Init /\ Two!Init
  BY DEF RepInit
<1>2. /\ phase = [p \in Replica |-> "down"] /\ holder = 0
      /\ front = 1 /\ spent = 0 /\ restarts = MaxRestarts
      /\ rel = 1 /\ rel2 = 1 /\ faults = MaxFaults
  BY <1>1 DEF RepInit, Init, Two!Init
<1>3. 1 \in DOMAIN Releases
  BY ReplicasConstants
<1>4. ControlType
  BY <1>2, <1>3 DEF ControlType
<1>5. phase[1] # "leading" /\ phase[2] # "leading"
  BY <1>2 DEF Replica
<1>6. Exclusive
  BY <1>2 DEF Exclusive
<1>7. Resting
  BY <1>1 DEF Resting, Rest1, Rest2, Init, Two!Init, NoExt, NoShoot, Two!NoExt, Two!NoShoot
<1>8. Budget = 0 /\ CountType
  BY <1>2, Bounds DEF Budget, CountType
<1>9. Charged
  BY <1>2, <1>5, <1>8 DEF Charged
<1> QED
  BY <1>4, <1>6, <1>7, <1>8, <1>9 DEF RepInv

\* The two replicas.
LEMMA ReplicaFacts ==
    /\ Replica = {1, 2} /\ RelOf(1) = rel /\ RelOf(2) = rel2
    /\ Idle(1) = (pc = "idle") /\ Idle(2) = (pc2 = "idle")
BY DEF Replica, RelOf, Idle

-----------------------------------------------------------------------------
(* The invariant is inductive *)

\* When the processes do nothing, nothing changes for the invariant.
LEMMA Untouched ==
    ASSUME RepInv, UNCHANGED <<local1, local2, phase, holder, front, restarts, spent, faults>>
    PROVE  RepInv'
<1>1. ControlType' /\ CountType' /\ Exclusive'
  BY DEF RepInv, ControlType, CountType, Exclusive, RelOf, local1, local2
<1>2. Resting'
  BY DEF RepInv, Resting, Rest1, Rest2, local1, local2, request
<1>3. Charged'
  BY DEF RepInv, Charged, Budget, local1, local2
<1> QED
  BY <1>1, <1>2, <1>3 DEF RepInv

\* What happens to the phase of a replica.
LEMMA PhaseSet ==
    ASSUME RepInv, NEW p \in Replica, NEW ph \in {"down", "standby", "leading"},
           phase' = [phase EXCEPT ![p] = ph]
    PROVE  /\ phase' \in [Replica -> {"down", "standby", "leading"}]
           /\ phase'[p] = ph
           /\ \A q \in Replica : q # p => phase'[q] = phase[q]
BY DEF RepInv, ControlType

LEMMA BootInv == \A p \in Replica : RepInv /\ Boot(p) => RepInv'
<1> SUFFICES ASSUME NEW p \in Replica, RepInv, Boot(p) PROVE RepInv'
  OBVIOUS
<1>1. /\ phase[p] = "down" /\ phase' = [phase EXCEPT ![p] = "standby"]
      /\ UNCHANGED <<bounds, local1, local2, holder, front, restarts, spent>>
  BY DEF Boot
<1>2. /\ phase' \in [Replica -> {"down", "standby", "leading"}]
      /\ \A q \in Replica : phase'[q] = "leading" <=> phase[q] = "leading"
  BY <1>1, PhaseSet
<1>3. ControlType' /\ CountType' /\ Exclusive'
  BY <1>1, <1>2 DEF RepInv, ControlType, CountType, Exclusive, RelOf, local1, local2, bounds
<1>4. Resting'
  BY <1>1, <1>2, ReplicaFacts DEF RepInv, Resting, Rest1, Rest2, local1, local2, request
<1>5. Charged'
  BY <1>1, <1>2, ReplicaFacts DEF RepInv, Charged, Budget, local1, local2, bounds
<1> QED
  BY <1>3, <1>4, <1>5 DEF RepInv

\* Under leader election nobody leads when a replica is elected.
LEMMA ElectFacts ==
    ASSUME LeaderElection, RepInv, NEW p \in Replica, Elect(p)
    PROVE  /\ \A q \in Replica : phase[q] # "leading" /\ (phase'[q] = "leading" <=> q = p)
           /\ Rest1 /\ Rest2 /\ UNCHANGED <<local1, local2>>
           /\ spent' <= Budget /\ spent' \in Nat
           /\ RelOf(p) # front => spent + 1 <= Budget
<1>1. \A q \in Replica : phase[q] # "leading"
  <2>1. 0 \notin Replica
    BY DEF Replica
  <2> QED
    BY <2>1 DEF Elect, RepInv, Exclusive
<1>2. Rest1 /\ Rest2 /\ UNCHANGED <<local1, local2>>
  BY <1>1, ReplicaFacts DEF Elect, RepInv, Resting
<1>3. RelOf(p) # front => spent + 1 <= Budget
  BY <1>1, ReplicaFacts DEF RepInv, Charged
<1>4. spent' <= Budget /\ spent' \in Nat
  <2>1. spent' = spent + (IF RelOf(p) # front THEN 1 ELSE 0)
    BY DEF Elect
  <2>2. spent \in Nat /\ spent <= Budget
    BY DEF RepInv, CountType, Charged
  <2> QED
    BY <1>3, <2>1, <2>2
<1>5. \A q \in Replica : phase'[q] = "leading" <=> q = p
  BY <1>1, PhaseSet DEF Elect
<1> QED
  BY <1>1, <1>2, <1>3, <1>4, <1>5

LEMMA ElectInv ==
    LeaderElection => \A p \in Replica : RepInv /\ Elect(p) => RepInv'
<1> SUFFICES ASSUME LeaderElection, NEW p \in Replica, RepInv, Elect(p) PROVE RepInv'
  OBVIOUS
<1>1. /\ phase' = [phase EXCEPT ![p] = "leading"] /\ holder' = p /\ front' = RelOf(p)
      /\ UNCHANGED <<bounds, local1, local2, restarts>>
  BY DEF Elect
<1>2. phase' \in [Replica -> {"down", "standby", "leading"}]
  BY <1>1, PhaseSet
<1>3. ControlType'
  BY <1>1, <1>2, ReplicaFacts DEF RepInv, ControlType, local1, local2
<1>4. CountType'
  BY <1>1, ElectFacts DEF RepInv, CountType, bounds
<1>5. Exclusive'
  <2>1. RelOf(p)' = RelOf(p)
    BY <1>1 DEF RelOf, local1, local2
  <2> QED
    BY <1>1, <2>1, ElectFacts DEF Exclusive
<1>6. Resting'
  BY ElectFacts DEF Resting, Rest1, Rest2, local1, local2, request
<1>7. Charged'
  <2>1. Budget' = Budget /\ phase'[p] = "leading"
    BY <1>1, ElectFacts DEF Budget, bounds
  <2> QED
    BY <2>1, ElectFacts, ReplicaFacts DEF Charged
<1> QED
  BY <1>3, <1>4, <1>5, <1>6, <1>7 DEF RepInv

\* The end of a process.
LEMMA ExitFacts ==
    ASSUME RepInv, NEW p \in Replica, NEW r \in DOMAIN Releases, Exit(p, r)
    PROVE  /\ \A q \in Replica : IF q = p THEN phase'[q] # "leading" ELSE phase'[q] = phase[q]
           /\ spent' \in Nat /\ Budget' = Budget + 2 /\ Budget' <= MaxFaults + 2 * MaxRestarts
           /\ spent' <= spent + 1 /\ spent + 2 <= Budget'
           /\ phase[p] # "leading" => spent' = spent
<1>1. /\ restarts > 0 /\ restarts' = restarts - 1
      /\ phase' = [phase EXCEPT ![p] = "down"]
      /\ spent' = spent + (IF Idle(p) THEN 0 ELSE 1)
      /\ UNCHANGED bounds
  BY DEF Exit
<1>2. faults \in 0..MaxFaults /\ restarts \in 0..MaxRestarts /\ spent \in Nat
  BY DEF RepInv, CountType
<1>3. Budget' = Budget + 2 /\ Budget' <= MaxFaults + 2 * MaxRestarts
  BY <1>1, <1>2, Bounds DEF Budget, bounds
<1>4. spent <= Budget /\ Budget \in Int
  BY <1>2, Bounds DEF RepInv, Charged, Budget
<1>5. phase[p] # "leading" => Idle(p)
  BY ReplicaFacts DEF RepInv, Resting, Rest1, Rest2
<1>6. /\ spent' \in Nat /\ spent' <= spent + 1 /\ spent + 2 <= Budget'
      /\ phase[p] # "leading" => spent' = spent
  BY <1>1, <1>2, <1>3, <1>4, <1>5
<1>7. \A q \in Replica : IF q = p THEN phase'[q] # "leading" ELSE phase'[q] = phase[q]
  BY <1>1, PhaseSet
<1> QED
  BY <1>3, <1>6, <1>7

LEMMA ExitInv ==
    \A p \in Replica, r \in DOMAIN Releases : RepInv /\ Exit(p, r) => RepInv'
<1> SUFFICES ASSUME NEW p \in Replica, NEW r \in DOMAIN Releases, RepInv, Exit(p, r)
             PROVE  RepInv'
  OBVIOUS
<1>1. /\ restarts > 0 /\ restarts' = restarts - 1
      /\ phase' = [phase EXCEPT ![p] = "down"]
      /\ \/ p = 1 /\ NoRequest /\ rel' = r /\ UNCHANGED local2
         \/ p = 2 /\ Two!NoRequest /\ rel2' = r /\ UNCHANGED local1
      /\ UNCHANGED <<bounds, holder, front>>
  BY DEF Exit
<1>2. phase' \in [Replica -> {"down", "standby", "leading"}]
  BY <1>1, PhaseSet
<1>3. ControlType'
  BY <1>1, <1>2 DEF RepInv, ControlType, local1, local2
<1>4. CountType'
  <2>1. restarts \in 0..MaxRestarts /\ MaxRestarts \in Nat
    BY Bounds DEF RepInv, CountType
  <2>2. restarts' \in 0..MaxRestarts
    BY <1>1, <2>1
  <2> QED
    BY <1>1, <2>2, ExitFacts DEF RepInv, CountType, bounds
<1>5. Exclusive'
  BY <1>1, ExitFacts, ReplicaFacts DEF RepInv, Exclusive, RelOf, local1, local2
<1>6. Resting'
  <2>1. CASE p = 1
    <3>1. NoRequest /\ UNCHANGED local2 /\ phase'[2] = phase[2]
      BY <1>1, <2>1, ExitFacts, ReplicaFacts
    <3>2. phase'[2] # "leading" \/ pc2' = "idle" => Rest2'
      BY <3>1 DEF RepInv, Resting, Rest2, local2
    <3> QED
      BY <3>1, <3>2, Rested DEF Resting
  <2>2. CASE p = 2
    <3>1. Two!NoRequest /\ UNCHANGED local1 /\ phase'[1] = phase[1]
      BY <1>1, <2>2, ExitFacts, ReplicaFacts
    <3>2. phase'[1] # "leading" \/ pc' = "idle" => Rest1'
      BY <3>1 DEF RepInv, Resting, Rest1, local1, request
    <3> QED
      BY <3>1, <3>2, Rested2 DEF Resting
  <2> QED
    BY <2>1, <2>2, ReplicaFacts
<1>7. Charged'
  <2>1. spent \in Nat
    BY DEF RepInv, CountType
  <2>2. spent' <= Budget' /\ (spent' + 1 <= Budget')
    <3>1. Budget' \in Int
      BY <1>4, Bounds DEF CountType, Budget
    <3> QED
      BY <2>1, <3>1, ExitFacts
  <2> QED
    BY <2>2 DEF Charged
<1> QED
  BY <1>3, <1>4, <1>5, <1>6, <1>7 DEF RepInv

LEMMA WorkInv == \A p \in Replica : RepInv /\ Work(p) => RepInv'
<1> SUFFICES ASSUME NEW p \in Replica, RepInv, Work(p) PROVE RepInv'
  OBVIOUS
<1>1. /\ phase[p] = "leading" /\ UNCHANGED <<phase, holder, front, restarts, spent>>
      /\ \/ p = 1 /\ Worker /\ UNCHANGED local2
         \/ p = 2 /\ Two!Worker /\ UNCHANGED local1
  BY DEF Work, ctl
<1>2. UNCHANGED <<rel, rel2, bounds>>
  BY <1>1, WorkerFacts, Worker2Facts DEF local1, local2
<1>3. ControlType' /\ CountType' /\ Exclusive' /\ Charged'
  BY <1>1, <1>2 DEF RepInv, ControlType, CountType, Exclusive, Charged, Budget, RelOf, bounds
<1>4. Resting'
  <2>1. CASE p = 1
    <3>1. NoRequest \/ pc' # "idle"
      BY <1>1, <2>1, WorkerFacts
    <3>2. phase'[2] # "leading" \/ pc2' = "idle" => Rest2'
      BY <1>1, <2>1 DEF RepInv, Resting, Rest2, local2
    <3> QED
      BY <1>1, <2>1, <3>1, <3>2, Rested DEF Resting
  <2>2. CASE p = 2
    <3>1. Two!NoRequest \/ pc2' # "idle"
      BY <1>1, <2>2, Worker2Facts
    <3>2. phase'[1] # "leading" \/ pc' = "idle" => Rest1'
      BY <1>1, <2>2 DEF RepInv, Resting, Rest1, local1, request
    <3> QED
      BY <1>1, <2>2, <3>1, <3>2, Rested2 DEF Resting
  <2> QED
    BY <2>1, <2>2, ReplicaFacts
<1> QED
  BY <1>3, <1>4 DEF RepInv

\* Only a replica that leads has a call that can fail.
LEMMA FailedCallFacts ==
    ASSUME RepInv, NEW p \in Replica, FailedCall(p)
    PROVE  /\ phase[p] = "leading" /\ faults' = faults - 1 /\ spent' = spent + 1
           /\ faults' \in 0..MaxFaults
           /\ Budget' = Budget + 1 /\ Budget' <= MaxFaults + 2 * MaxRestarts
           /\ spent + 1 <= Budget'
           /\ UNCHANGED <<rel, rel2, phase, holder, front, restarts>>
<1>1. /\ faults > 0 /\ faults' = faults - 1 /\ spent' = spent + 1
      /\ UNCHANGED <<rel, rel2, phase, holder, front, restarts>>
  BY DEF FailedCall, Fault, Two!Fault, ctl, local1, local2
<1>2. phase[p] = "leading"
  BY DEF FailedCall, Fault, Two!Fault, RepInv, Resting, Rest1, Rest2
<1>3. faults \in 0..MaxFaults /\ restarts \in 0..MaxRestarts /\ spent \in Nat
  BY DEF RepInv, CountType
<1>4. /\ Budget' = Budget + 1 /\ Budget' <= MaxFaults + 2 * MaxRestarts
      /\ faults' \in 0..MaxFaults /\ Budget \in Int
  BY <1>1, <1>3, Bounds DEF Budget
<1>5. spent <= Budget
  BY DEF RepInv, Charged
<1>6. spent + 1 <= Budget'
  BY <1>3, <1>4, <1>5
<1> QED
  BY <1>1, <1>2, <1>4, <1>6

LEMMA FailedCallInv == \A p \in Replica : RepInv /\ FailedCall(p) => RepInv'
<1> SUFFICES ASSUME NEW p \in Replica, RepInv, FailedCall(p) PROVE RepInv'
  OBVIOUS
<1>1. \/ p = 1 /\ NoRequest /\ UNCHANGED local2
      \/ p = 2 /\ Two!NoRequest /\ UNCHANGED local1
  BY DEF FailedCall, Fault, Two!Fault
<1>2. ControlType' /\ Exclusive'
  BY FailedCallFacts DEF RepInv, ControlType, Exclusive, RelOf
<1>3. CountType'
  BY FailedCallFacts DEF RepInv, CountType
<1>4. Charged'
  BY FailedCallFacts, ReplicaFacts DEF Charged
<1>5. Resting'
  <2>1. CASE p = 1
    <3>1. phase'[2] # "leading" \/ pc2' = "idle" => Rest2'
      BY <1>1, <2>1, FailedCallFacts DEF RepInv, Resting, Rest2, local2
    <3> QED
      BY <1>1, <2>1, <3>1, Rested DEF Resting
  <2>2. CASE p = 2
    <3>1. phase'[1] # "leading" \/ pc' = "idle" => Rest1'
      BY <1>1, <2>2, FailedCallFacts DEF RepInv, Resting, Rest1, local1, request
    <3> QED
      BY <1>1, <2>2, <3>1, Rested2 DEF Resting
  <2> QED
    BY <2>1, <2>2, ReplicaFacts
<1> QED
  BY <1>2, <1>3, <1>4, <1>5 DEF RepInv

\* When a lease expires its holder does not lead, nor does anybody else.
LEMMA ExpireInv == RepInv /\ Expire => RepInv'
<1> SUFFICES ASSUME RepInv, Expire PROVE RepInv'
  OBVIOUS
<1>1. \A p \in Replica : phase[p] # "leading"
  BY DEF Expire, RepInv, Exclusive
<1>2. /\ holder' = 0
      /\ UNCHANGED <<bounds, local1, local2, phase, front, restarts, spent>>
  BY DEF Expire
<1>3. ControlType' /\ CountType' /\ Exclusive'
  BY <1>1, <1>2 DEF RepInv, ControlType, CountType, Exclusive, local1, local2, bounds
<1>4. Resting' /\ Charged'
  BY <1>2 DEF RepInv, Resting, Rest1, Rest2, Charged, Budget, local1, local2, request, bounds
<1> QED
  BY <1>3, <1>4 DEF RepInv

\* What goes on outside does not concern the processes.
LEMMA OutsideInv == RepInv /\ Outside => RepInv'
<1> SUFFICES ASSUME RepInv, Outside PROVE RepInv'
  OBVIOUS
<1>1. UNCHANGED <<local2, phase, holder, front, restarts, spent>>
  BY DEF Outside, ctl
<1>2. UNCHANGED <<rel, request, faults>>
  BY DEF Outside, Users, EditShoot, EditSecret, RequestMigrate, Gardener, SyncCluster,
         CreateExtension, UpdateExtension, DeleteExtension, LeaveSeed, ResourceManager,
         Finalize, bounds
<1> QED
  BY <1>1, <1>2, Untouched DEF local1

LEMMA RepInvNext == LeaderElection /\ RepInv /\ [RepNext]_repVars => RepInv'
<1> SUFFICES ASSUME LeaderElection, RepInv, [RepNext]_repVars PROVE RepInv'
  OBVIOUS
<1>1. CASE UNCHANGED repVars
  BY <1>1, Untouched DEF repVars, ctl, bounds
<1> QED
  BY <1>1, OutsideInv, BootInv, ElectInv, ExitInv, WorkInv, FailedCallInv, ExpireInv
     DEF RepNext

LEMMA RepInvCorrect == LeaderElection => (RepSpec => []RepInv)
<1> SUFFICES ASSUME LeaderElection PROVE RepSpec => []RepInv
  OBVIOUS
<1>1. RepInv /\ [RepNext]_repVars => RepInv'
  BY RepInvNext
<1> QED
  BY <1>1, RepInvInit, PTL DEF RepSpec

-----------------------------------------------------------------------------
(* The instances agree on the data *)

LEMMA SameErrors ==
    \A ps, j : One!ErrorsAt(ps, j) = ErrorsAt(ps, j) /\ Two!ErrorsAt(ps, j) = ErrorsAt(ps, j)
BY Zenon DEF ErrorsAt, One!ErrorsAt, Two!ErrorsAt, Error, One!Error, Two!Error,
             EarlierNamesakes, One!EarlierNamesakes, Two!EarlierNamesakes

LEMMA SameValidity ==
    \A ps : (One!IsValid(ps) <=> IsValid(ps)) /\ (Two!IsValid(ps) <=> IsValid(ps))
<1> SUFFICES ASSUME NEW ps
             PROVE  /\ One!ValidationErrors(ps) = ValidationErrors(ps)
                    /\ Two!ValidationErrors(ps) = ValidationErrors(ps)
  BY DEF IsValid, One!IsValid, Two!IsValid
<1>1. /\ {One!ErrorsAt(ps, j) : j \in DOMAIN ps} = {ErrorsAt(ps, j) : j \in DOMAIN ps}
      /\ {Two!ErrorsAt(ps, j) : j \in DOMAIN ps} = {ErrorsAt(ps, j) : j \in DOMAIN ps}
  BY SameErrors
<1> QED
  BY <1>1, Zenon DEF ValidationErrors, One!ValidationErrors, Two!ValidationErrors,
                     Error, One!Error, Two!Error

LEMMA SameData ==
    /\ One!NoExt = NoExt /\ Two!NoExt = NoExt
    /\ One!NoShoot = NoShoot /\ Two!NoShoot = NoShoot
    /\ One!NoData = NoData /\ Two!NoData = NoData
    /\ One!Absent = Absent /\ Two!Absent = Absent
    /\ One!Broken = Broken /\ Two!Broken = Broken
BY DEF NoExt, One!NoExt, Two!NoExt, NoShoot, One!NoShoot, Two!NoShoot, NoData, One!NoData,
       Two!NoData, Absent, One!Absent, Two!Absent, Broken, One!Broken, Two!Broken

-----------------------------------------------------------------------------
(* The work of a leader is the work of the single process *)

\* Replica p leads before and after the step, with the release of One.
Leader1 == /\ phase[2] # "leading" /\ phase'[2] # "leading" /\ front = rel
           /\ UNCHANGED <<front, spent>>

Leader2 == /\ phase[2] = "leading" /\ phase'[2] = "leading" /\ front = rel2
           /\ UNCHANGED <<front, spent>>

LEMMA Abort1 == Leader1 /\ Abort => One!Abort
BY SameData DEF Leader1, Abort, One!Abort, NoRequest, One!NoRequest, garden, One!garden,
                seed, One!seed, bounds, One!bounds

LEMMA Start1 ==
    ASSUME Leader1
    PROVE  /\ StartReconcile => One!StartReconcile
           /\ \A how : StartDelete(how) => One!StartDelete(how)
BY DEF Leader1, StartReconcile, One!StartReconcile, StartDelete, One!StartDelete,
       coll, One!coll, garden, One!garden, seed, One!seed, bounds, One!bounds

LEMMA Read1 ==
    ASSUME Leader1
    PROVE  /\ GetCluster => One!GetCluster
           /\ NextPack => One!NextPack
           /\ ReadPatch => One!ReadPatch
<1>1. GetCluster => One!GetCluster
  BY Abort1, SameValidity
     DEF Leader1, GetCluster, One!GetCluster, packs, One!packs, garden, One!garden,
         seed, One!seed, bounds, One!bounds
<1>2. NextPack => One!NextPack
  BY Abort1
     DEF Leader1, NextPack, One!NextPack, packs, One!packs, coll, One!coll,
         PackExists, One!PackExists, garden, One!garden, seed, One!seed, bounds, One!bounds
<1>3. ReadPatch => One!ReadPatch
  BY Abort1, SameData
     DEF Leader1, ReadPatch, One!ReadPatch, packs, One!packs, garden, One!garden,
         seed, One!seed, bounds, One!bounds
<1> QED
  BY <1>1, <1>2, <1>3

LEMMA Write1 ==
    ASSUME Leader1
    PROVE  /\ WriteSecret => One!WriteSecret
           /\ WriteMR => One!WriteMR
           /\ AfterPacks => One!AfterPacks
<1>1. WriteSecret => One!WriteSecret
  BY Abort1, SameData
     DEF Leader1, WriteSecret, One!WriteSecret, packs, One!packs, garden, One!garden,
         bounds, One!bounds
<1>2. WriteMR => One!WriteMR
  BY DEF Leader1, WriteMR, One!WriteMR, packs, One!packs, garden, One!garden, bounds, One!bounds
<1>3. AfterPacks => One!AfterPacks
  BY DEF Leader1, AfterPacks, One!AfterPacks, packs, One!packs, coll, One!coll, Disabled,
         One!Disabled, garden, One!garden, seed, One!seed, bounds, One!bounds
<1> QED
  BY <1>1, <1>2, <1>3

LEMMA Delete1 ==
    ASSUME Leader1
    PROVE  /\ \A k : DeleteMR(k) => One!DeleteMR(k)
           /\ \A k : DeleteSecret(k) => One!DeleteSecret(k)
           /\ AfterDeletes => One!AfterDeletes
           /\ Finish => One!Finish
<1>1. /\ \A k : DeleteMR(k) => One!DeleteMR(k)
      /\ \A k : DeleteSecret(k) => One!DeleteSecret(k)
  BY SameData
     DEF Leader1, DeleteMR, One!DeleteMR, DeleteSecret, One!DeleteSecret, IsNext, One!IsNext,
         coll, One!coll, garden, One!garden, seed, One!seed, bounds, One!bounds
<1>2. AfterDeletes => One!AfterDeletes
  BY DEF Leader1, AfterDeletes, One!AfterDeletes, garden, One!garden, seed, One!seed,
         bounds, One!bounds
<1>3. Finish => One!Finish
  BY SameData
     DEF Leader1, Finish, One!Finish, NoRequest, One!NoRequest, Deleting, One!Deleting,
         seed, One!seed, bounds, One!bounds
<1> QED
  BY <1>1, <1>2, <1>3

LEMMA Work1 == Leader1 /\ Worker => One!Worker
BY Start1, Read1, Write1, Delete1 DEF Leader1, Worker, One!Worker, coll, One!coll

LEMMA Abort2 == Leader2 /\ Two!Abort => One!Abort
BY SameData DEF Leader2, Two!Abort, One!Abort, Two!NoRequest, One!NoRequest, Two!garden, One!garden,
                Two!seed, One!seed, Two!bounds, One!bounds

LEMMA Start2 ==
    ASSUME Leader2
    PROVE  /\ Two!StartReconcile => One!StartReconcile
           /\ \A how : Two!StartDelete(how) => One!StartDelete(how)
BY DEF Leader2, Two!StartReconcile, One!StartReconcile, Two!StartDelete, One!StartDelete,
       Two!coll, One!coll, Two!garden, One!garden, Two!seed, One!seed, Two!bounds, One!bounds

LEMMA Read2 ==
    ASSUME Leader2
    PROVE  /\ Two!GetCluster => One!GetCluster
           /\ Two!NextPack => One!NextPack
           /\ Two!ReadPatch => One!ReadPatch
<1>1. Two!GetCluster => One!GetCluster
  BY Abort2, SameValidity
     DEF Leader2, Two!GetCluster, One!GetCluster, Two!packs, One!packs, Two!garden, One!garden,
         Two!seed, One!seed, Two!bounds, One!bounds
<1>2. Two!NextPack => One!NextPack
  BY Abort2
     DEF Leader2, Two!NextPack, One!NextPack, Two!packs, One!packs, Two!coll, One!coll,
         Two!PackExists, One!PackExists, Two!garden, One!garden, Two!seed, One!seed, Two!bounds, One!bounds
<1>3. Two!ReadPatch => One!ReadPatch
  BY Abort2, SameData
     DEF Leader2, Two!ReadPatch, One!ReadPatch, Two!packs, One!packs, Two!garden, One!garden,
         Two!seed, One!seed, Two!bounds, One!bounds
<1> QED
  BY <1>1, <1>2, <1>3

LEMMA Write2 ==
    ASSUME Leader2
    PROVE  /\ Two!WriteSecret => One!WriteSecret
           /\ Two!WriteMR => One!WriteMR
           /\ Two!AfterPacks => One!AfterPacks
<1>1. Two!WriteSecret => One!WriteSecret
  BY Abort2, SameData
     DEF Leader2, Two!WriteSecret, One!WriteSecret, Two!packs, One!packs, Two!garden, One!garden,
         Two!bounds, One!bounds
<1>2. Two!WriteMR => One!WriteMR
  BY DEF Leader2, Two!WriteMR, One!WriteMR, Two!packs, One!packs, Two!garden, One!garden, Two!bounds, One!bounds
<1>3. Two!AfterPacks => One!AfterPacks
  BY DEF Leader2, Two!AfterPacks, One!AfterPacks, Two!packs, One!packs, Two!coll, One!coll, Two!Disabled,
         One!Disabled, Two!garden, One!garden, Two!seed, One!seed, Two!bounds, One!bounds
<1> QED
  BY <1>1, <1>2, <1>3

LEMMA Delete2 ==
    ASSUME Leader2
    PROVE  /\ \A k : Two!DeleteMR(k) => One!DeleteMR(k)
           /\ \A k : Two!DeleteSecret(k) => One!DeleteSecret(k)
           /\ Two!AfterDeletes => One!AfterDeletes
           /\ Two!Finish => One!Finish
<1>1. /\ \A k : Two!DeleteMR(k) => One!DeleteMR(k)
      /\ \A k : Two!DeleteSecret(k) => One!DeleteSecret(k)
  BY SameData
     DEF Leader2, Two!DeleteMR, One!DeleteMR, Two!DeleteSecret, One!DeleteSecret, Two!IsNext, One!IsNext,
         Two!coll, One!coll, Two!garden, One!garden, Two!seed, One!seed, Two!bounds, One!bounds
<1>2. Two!AfterDeletes => One!AfterDeletes
  BY DEF Leader2, Two!AfterDeletes, One!AfterDeletes, Two!garden, One!garden, Two!seed, One!seed,
         Two!bounds, One!bounds
<1>3. Two!Finish => One!Finish
  BY SameData
     DEF Leader2, Two!Finish, One!Finish, Two!NoRequest, One!NoRequest, Two!Deleting, One!Deleting,
         Two!seed, One!seed, Two!bounds, One!bounds
<1> QED
  BY <1>1, <1>2, <1>3

LEMMA Work2 == Leader2 /\ Two!Worker => One!Worker
BY Start2, Read2, Write2, Delete2 DEF Leader2, Two!Worker, One!Worker, Two!coll, One!coll

-----------------------------------------------------------------------------
(* Replicas implements Actuator *)

\* What users, Gardener and the resource manager do is the same for both.
LEMMA SameOutside ==
    ASSUME RepInv, Outside
    PROVE  One!Users \/ One!Gardener \/ One!ResourceManager
<1>1. UNCHANGED <<local2, front, phase, spent>>
  BY DEF Outside, ctl
<1>2. CASE Users
  BY <1>1, <1>2, SameData
     DEF Users, EditShoot, EditSecret, RequestMigrate, One!Users, One!EditShoot,
         One!EditSecret, One!RequestMigrate, seed, One!seed, request, One!request, local2
<1>3. CASE Gardener
  BY <1>1, <1>3, SameData
     DEF Gardener, SyncCluster, CreateExtension, UpdateExtension, DeleteExtension, LeaveSeed,
         Wanted, One!Gardener, One!SyncCluster, One!CreateExtension, One!UpdateExtension,
         One!DeleteExtension, One!LeaveSeed, One!Wanted, seed, One!seed, request,
         One!request, bounds, One!bounds, local2
<1>4. CASE ResourceManager
  BY <1>1, <1>4
     DEF ResourceManager, Finalize, One!ResourceManager, One!Finalize, garden, One!garden,
         request, One!request, bounds, One!bounds, local2
<1> QED
  BY <1>2, <1>3, <1>4 DEF Outside

\* Nothing happens in the single process when nothing happens to the objects
\* and whoever leads, or nobody.
LEMMA SameRest ==
    ASSUME UNCHANGED <<garden, seed, bounds, front, spent, local1, local2>>,
           phase'[2] = "leading" <=> phase[2] = "leading"
    PROVE  UNCHANGED One!vars
BY DEF One!vars, garden, One!garden, seed, One!seed, request, One!request, bounds, One!bounds,
       local1, local2

\* A change of the leader is an upgrade, or nothing at all when the new one has
\* the release of the last one.
LEMMA ElectStep ==
    ASSUME LeaderElection, RepInv, NEW p \in Replica, Elect(p)
    PROVE  [One!Next]_(One!vars)
<1>1. /\ phase[2] # "leading" /\ phase'[2] = "leading" <=> p = 2
      /\ Rest1 /\ Rest2 /\ UNCHANGED <<local1, local2>>
  BY ElectFacts, ReplicaFacts
<1>2. /\ front' = RelOf(p) /\ spent' = spent + (IF RelOf(p) # front THEN 1 ELSE 0)
      /\ UNCHANGED <<garden, seed, bounds>>
  BY DEF Elect
<1>3. One!NoRequest
  BY ElectFacts, ReplicaFacts, SameData DEF One!NoRequest, Rest1, Rest2, local1, local2, request
<1>4. CASE RelOf(p) = front
  <2>1. spent' = spent /\ front' = front
    <3>1. spent \in Nat
      BY DEF RepInv, CountType
    <3> QED
      BY <1>2, <1>4, <3>1
  <2>2. UNCHANGED <<One!garden, One!seed, front, One!bounds>>
    BY <1>2, <2>1 DEF One!garden, garden, One!seed, seed, One!bounds, bounds
  <2>3. Rest1 /\ Rest1' /\ Rest2 /\ Rest2'
    BY <1>1 DEF Rest1, Rest2, local1, local2, request
  <2>4. UNCHANGED One!request
    BY <2>3 DEF Rest1, Rest2, One!request
  <2> QED
    BY <2>2, <2>4 DEF One!vars
<1>5. CASE RelOf(p) # front
  <2>1. /\ MaxFaults + 2 * MaxRestarts - spent > 0
        /\ (MaxFaults + 2 * MaxRestarts - spent)' = (MaxFaults + 2 * MaxRestarts - spent) - 1
    <3>1. spent + 1 <= Budget
      BY <1>5, ElectFacts
    <3>2. spent' = spent + 1
      BY <1>2, <1>5
    <3>3. /\ faults \in 0..MaxFaults /\ restarts \in 0..MaxRestarts
          /\ spent \in Nat
      BY DEF RepInv, CountType
    <3> QED
      BY <3>1, <3>2, <3>3, Bounds DEF Budget
  <2>2. front' \in DOMAIN Releases
    BY <1>2, ReplicaFacts DEF RepInv, ControlType
  <2>3. front' # front /\ UNCHANGED <<One!garden, One!seed, edits>>
    BY <1>2, <1>5 DEF One!garden, garden, One!seed, seed, bounds
  <2>4. One!Upgrade(front')
    BY <1>3, <2>1, <2>3, Zenon DEF One!Upgrade
  <2> QED
    BY <2>2, <2>4 DEF One!Next, One!Faults
<1> QED
  BY <1>4, <1>5

\* The request of whoever leads is given up, and nobody leads then or still
\* the other one does.
LEMMA GivenUpStep ==
    ASSUME One!NoRequest, UNCHANGED <<garden, seed, edits, front>>,
           (IF phase[2] = "leading" THEN pc2 ELSE pc) # "idle",
           spent \in Nat, spent' = spent + 1, spent + 1 <= MaxFaults + 2 * MaxRestarts
    PROVE  One!Next
<1>1. /\ MaxFaults + 2 * MaxRestarts - spent > 0
      /\ (MaxFaults + 2 * MaxRestarts - spent)' = (MaxFaults + 2 * MaxRestarts - spent) - 1
  BY Bounds
<1>2. UNCHANGED <<One!garden, One!seed, front, edits>>
  BY DEF One!garden, garden, One!seed, seed
<1>3. One!Fault
  BY <1>1, <1>2, Zenon DEF One!Fault
<1> QED
  BY <1>3 DEF One!Next, One!Faults

\* A process that ends within a request is a fault of the single process, any
\* other one is not seen.
LEMMA ExitStep ==
    ASSUME RepInv, NEW p \in Replica, NEW r \in DOMAIN Releases, Exit(p, r)
    PROVE  [One!Next]_(One!vars)
<1>1. /\ spent' = spent + (IF Idle(p) THEN 0 ELSE 1)
      /\ \/ p = 1 /\ NoRequest /\ UNCHANGED local2
         \/ p = 2 /\ Two!NoRequest /\ UNCHANGED local1
      /\ UNCHANGED <<garden, seed, bounds, front>>
  BY DEF Exit
<1>2. spent \in Nat /\ spent + 2 <= MaxFaults + 2 * MaxRestarts
  <2>1. spent \in Nat
    BY DEF RepInv, CountType
  <2>2. Budget' \in Int
    BY ExitInv, Bounds DEF RepInv, CountType, Budget
  <2> QED
    BY <2>1, <2>2, ExitFacts, Bounds
<1>3. phase[1] # "leading" \/ phase[2] # "leading"
  BY DEF RepInv, Exclusive, Replica
<1>4. CASE Idle(p)
  <2>1. spent' = spent
    BY <1>1, <1>2, <1>4
  <2>2. CASE p = 1
    <3>1. Rest1 /\ Rest1' /\ UNCHANGED local2 /\ phase'[2] = phase[2]
      <4>1. pc = "idle" /\ NoRequest /\ UNCHANGED local2
        BY <1>1, <1>4, <2>2 DEF Idle
      <4>2. phase'[2] = phase[2]
        BY <2>2, ExitFacts, ReplicaFacts
      <4> QED
        BY <4>1, <4>2, Rested DEF RepInv, Resting
    <3>2. UNCHANGED One!vars
      BY <1>1, <2>1, <3>1 DEF Rest1, local2, One!vars, One!garden, garden, One!seed, seed,
                              One!request, One!bounds, bounds
    <3> QED
      BY <3>2
  <2>3. CASE p = 2
    <3>1. /\ Rest2 /\ Rest2' /\ UNCHANGED local1 /\ phase'[2] # "leading"
          /\ phase[2] = "leading" => Rest1
      <4>1. pc2 = "idle" /\ Two!NoRequest /\ UNCHANGED local1
        BY <1>1, <1>4, <2>3 DEF Idle
      <4>2. phase'[2] # "leading"
        BY <2>3, ExitFacts, ReplicaFacts
      <4> QED
        BY <1>3, <4>1, <4>2, Rested2 DEF RepInv, Resting
    <3>2. UNCHANGED One!vars
      BY <1>1, <2>1, <3>1 DEF Rest1, Rest2, local1, request, One!vars, One!garden, garden,
                              One!seed, seed, One!request, One!bounds, bounds
    <3> QED
      BY <3>2
  <2> QED
    BY <2>2, <2>3, ReplicaFacts
<1>5. CASE ~Idle(p)
  <2>1. spent' = spent + 1 /\ spent + 1 <= MaxFaults + 2 * MaxRestarts
    BY <1>1, <1>2, <1>5, Bounds
  <2>2. CASE p = 1
    <3>1. phase[1] = "leading" /\ pc # "idle" /\ phase[2] # "leading" /\ phase'[2] # "leading"
      BY <1>3, <1>5, <2>2, ExitFacts, ReplicaFacts DEF RepInv, Resting, Rest1
    <3>2. One!NoRequest
      BY <1>1, <2>2, <3>1, SameData DEF NoRequest, One!NoRequest
    <3> QED
      BY <1>1, <1>2, <2>1, <3>1, <3>2, GivenUpStep DEF bounds
  <2>3. CASE p = 2
    <3>1. /\ phase[2] = "leading" /\ pc2 # "idle" /\ phase'[2] # "leading"
          /\ Rest1 /\ UNCHANGED local1
      BY <1>1, <1>3, <1>5, <2>3, ExitFacts, ReplicaFacts DEF RepInv, Resting, Rest2
    <3>2. One!NoRequest
      BY <3>1, SameData DEF Rest1, One!NoRequest, local1, request
    <3> QED
      BY <1>1, <1>2, <2>1, <3>1, <3>2, GivenUpStep DEF bounds
  <2> QED
    BY <2>2, <2>3, ReplicaFacts
<1> QED
  BY <1>4, <1>5

LEMMA WorkStep ==
    ASSUME RepInv, NEW p \in Replica, Work(p)
    PROVE  One!Next
<1>1. /\ phase[p] = "leading" /\ UNCHANGED <<phase, front, spent>>
      /\ \/ p = 1 /\ Worker
         \/ p = 2 /\ Two!Worker
  BY DEF Work, ctl
<1>2. front = RelOf(p) /\ (p = 1 => phase[2] # "leading")
  BY <1>1 DEF RepInv, Exclusive, Replica
<1>3. One!Worker
  BY <1>1, <1>2, Work1, Work2, ReplicaFacts DEF Leader1, Leader2
<1> QED
  BY <1>3 DEF One!Next

LEMMA FailedCallStep ==
    ASSUME RepInv, NEW p \in Replica, FailedCall(p)
    PROVE  One!Next
<1>1. /\ \/ p = 1 /\ pc # "idle" /\ NoRequest
         \/ p = 2 /\ pc2 # "idle" /\ Two!NoRequest
      /\ UNCHANGED <<garden, seed, edits>>
  BY DEF FailedCall, Fault, Two!Fault, Two!garden, garden, Two!seed, seed
<1>2. phase[p] = "leading" /\ (p = 1 => phase[2] # "leading")
  BY FailedCallFacts DEF RepInv, Exclusive, Replica
<1>3. One!NoRequest
  BY <1>1, <1>2, SameData, FailedCallFacts DEF NoRequest, Two!NoRequest, One!NoRequest
<1>4. spent \in Nat /\ spent + 1 <= MaxFaults + 2 * MaxRestarts
  <2>1. spent \in Nat
    BY DEF RepInv, CountType
  <2>2. Budget' \in Int
    BY FailedCallInv, Bounds DEF RepInv, CountType, Budget
  <2> QED
    BY <2>1, <2>2, FailedCallFacts, Bounds
<1> QED
  BY <1>1, <1>2, <1>3, <1>4, FailedCallFacts, GivenUpStep

LEMMA RepStep ==
    ASSUME LeaderElection, RepInv, [RepNext]_repVars
    PROVE  [One!Next]_(One!vars)
<1>1. CASE Outside
  BY <1>1, SameOutside DEF One!Next
<1>2. CASE \E p \in Replica : Boot(p)
  <2>1. PICK p \in Replica : Boot(p)
    BY <1>2
  <2>2. /\ UNCHANGED <<garden, seed, bounds, front, spent, local1, local2>>
        /\ phase[p] = "down" /\ phase' = [phase EXCEPT ![p] = "standby"]
    BY <2>1 DEF Boot
  <2>3. phase'[2] = "leading" <=> phase[2] = "leading"
    BY <2>2, PhaseSet, ReplicaFacts
  <2> QED
    BY <2>2, <2>3, SameRest
<1>3. CASE Expire \/ UNCHANGED repVars
  <2>1. UNCHANGED <<garden, seed, bounds, front, spent, local1, local2, phase>>
    BY <1>3 DEF Expire, repVars, ctl
  <2> QED
    BY <2>1, SameRest
<1> QED
  BY <1>1, <1>2, <1>3, ElectStep, ExitStep, WorkStep, FailedCallStep DEF RepNext

\* Through elections, crashes and rollouts, two replicas under leader election
\* (cmd/extension/controller) do no more than one process could.
THEOREM ImplementsActuatorCorrect == LeaderElection => (RepSpec => ImplementsActuator)
<1> SUFFICES ASSUME LeaderElection PROVE RepSpec => ImplementsActuator
  OBVIOUS
<1>1. RepInit => One!Init
  <2> SUFFICES ASSUME RepInit PROVE One!Init
    OBVIOUS
  <2>1. Init /\ phase[2] # "leading" /\ front = 1 /\ spent = 0
    BY DEF RepInit, Replica
  <2>2. MaxFaults + 2 * MaxRestarts - spent = MaxFaults + 2 * MaxRestarts
    BY <2>1, Bounds
  <2> QED
    BY <2>1, <2>2, SameData DEF Init, One!Init
<1>2. RepInv /\ [RepNext]_repVars => [One!Next]_(One!vars)
  BY RepStep
<1>3. RepSpec => []RepInv
  BY RepInvCorrect
<1> QED
  BY <1>1, <1>2, <1>3, PTL DEF RepSpec, ImplementsActuator, One!Spec

-----------------------------------------------------------------------------
(* What is proved of the single process *)

\* The proofs about Actuator, with the single process in the place of it.
Solo == INSTANCE ActuatorProofs WITH
    MaxFaults <- MaxFaults + 2 * MaxRestarts,
    faults    <- MaxFaults + 2 * MaxRestarts - spent,
    rel  <- front,
    pc   <- IF phase[2] = "leading" THEN pc2   ELSE pc,
    op   <- IF phase[2] = "leading" THEN op2   ELSE op,
    spec <- IF phase[2] = "leading" THEN spec2 ELSE spec,
    snap <- IF phase[2] = "leading" THEN snap2 ELSE snap,
    i    <- IF phase[2] = "leading" THEN i2    ELSE i,
    got  <- IF phase[2] = "leading" THEN got2  ELSE got,
    todo <- IF phase[2] = "leading" THEN todo2 ELSE todo,
    late <- IF phase[2] = "leading" THEN late2 ELSE late

\* The assumption on the constants holds for the single process.
LEMMA SoloConstants ==
    /\ Name \subseteq STRING /\ Version \subseteq STRING /\ Ref \subseteq STRING
    /\ "" \notin Version
    /\ {Solo!Absent, Solo!Broken} \cap Value = {}
    /\ Releases \in Seq(Solo!Collection) /\ Releases # <<>>
    /\ Shoots \subseteq Solo!Shoot
    /\ MaxEdits \in Nat /\ MaxFaults + 2 * MaxRestarts \in Nat
<1>1. /\ Solo!Absent = Absent /\ Solo!Broken = Broken
      /\ Solo!Collection = Collection /\ Solo!Shoot = Shoot
  BY DEF Absent, Broken, Collection, Asset, Shoot, Provider, PackSpec, Resource,
         Solo!Absent, Solo!Broken, Solo!Collection, Solo!Asset, Solo!Shoot, Solo!Provider,
         Solo!PackSpec, Solo!Resource
<1> QED
  BY <1>1, Bounds, ConstantsType

\* One and Solo are two names for the same process.
LEMMA SoloInit == One!Init => Solo!Init
BY DEF One!Init, Solo!Init, One!NoExt, Solo!NoExt, One!NoShoot, Solo!NoShoot,
       One!Absent, Solo!Absent, One!NoData, Solo!NoData

LEMMA SoloOutside ==
    One!Users \/ One!Gardener \/ One!ResourceManager =>
        Solo!Users \/ Solo!Gardener \/ Solo!ResourceManager
<1>1. One!Users => Solo!Users
  BY
     DEF One!Users, Solo!Users, One!EditShoot, Solo!EditShoot, One!EditSecret,
         Solo!EditSecret, One!RequestMigrate, Solo!RequestMigrate, One!Absent, Solo!Absent,
         One!Broken, Solo!Broken, One!seed, Solo!seed, One!request, Solo!request
<1>2. One!Gardener => Solo!Gardener
  BY
     DEF One!Gardener, Solo!Gardener, One!SyncCluster, Solo!SyncCluster,
         One!CreateExtension, Solo!CreateExtension, One!UpdateExtension,
         Solo!UpdateExtension, One!DeleteExtension, Solo!DeleteExtension, One!LeaveSeed,
         Solo!LeaveSeed, One!Wanted, Solo!Wanted, One!NoExt, Solo!NoExt, One!NoData,
         Solo!NoData, One!seed, Solo!seed, One!request, Solo!request, One!bounds,
         Solo!bounds
<1>3. One!ResourceManager => Solo!ResourceManager
  BY
     DEF One!ResourceManager, Solo!ResourceManager, One!Finalize, Solo!Finalize,
         One!garden, Solo!garden, One!request, Solo!request, One!bounds, Solo!bounds
<1> QED
  BY <1>1, <1>2, <1>3

LEMMA SoloAbort == One!Abort => Solo!Abort
BY
   DEF One!Abort, Solo!Abort, One!NoRequest, Solo!NoRequest, One!NoExt, Solo!NoExt,
       One!NoShoot, Solo!NoShoot, One!garden, Solo!garden, One!seed, Solo!seed, One!bounds,
       Solo!bounds

LEMMA SoloValidity == \A ps : One!IsValid(ps) <=> Solo!IsValid(ps)
<1>1. \A ps, j : One!ErrorsAt(ps, j) = Solo!ErrorsAt(ps, j)
  BY Zenon
     DEF One!ErrorsAt, Solo!ErrorsAt, One!Error, Solo!Error, One!EarlierNamesakes,
         Solo!EarlierNamesakes
<1> SUFFICES ASSUME NEW ps PROVE One!ValidationErrors(ps) = Solo!ValidationErrors(ps)
  BY DEF One!IsValid, Solo!IsValid
<1>2. {One!ErrorsAt(ps, j) : j \in DOMAIN ps} = {Solo!ErrorsAt(ps, j) : j \in DOMAIN ps}
  BY <1>1
<1> QED
  BY <1>2, Zenon
     DEF One!ValidationErrors, Solo!ValidationErrors, One!Error, Solo!Error

LEMMA SoloWorker == One!Worker => Solo!Worker
<1>1. One!GetCluster => Solo!GetCluster
  BY SoloAbort, SoloValidity
     DEF One!GetCluster, Solo!GetCluster, One!packs, Solo!packs, One!garden,
         Solo!garden, One!seed, Solo!seed, One!bounds, Solo!bounds
<1>2. /\ One!NextPack => Solo!NextPack
      /\ One!ReadPatch => Solo!ReadPatch
      /\ One!WriteSecret => Solo!WriteSecret
  BY SoloAbort
     DEF One!NextPack, Solo!NextPack, One!ReadPatch, Solo!ReadPatch, One!WriteSecret,
         Solo!WriteSecret, One!Absent, Solo!Absent, One!Broken, Solo!Broken, One!PackExists,
         Solo!PackExists, One!packs, Solo!packs, One!coll, Solo!coll, One!garden,
         Solo!garden, One!seed, Solo!seed, One!bounds, Solo!bounds
<1>3. /\ One!StartReconcile => Solo!StartReconcile
      /\ \A how : One!StartDelete(how) => Solo!StartDelete(how)
      /\ One!WriteMR => Solo!WriteMR
      /\ One!AfterPacks => Solo!AfterPacks
  BY
     DEF One!StartReconcile, Solo!StartReconcile, One!StartDelete, Solo!StartDelete,
         One!WriteMR, Solo!WriteMR, One!AfterPacks, Solo!AfterPacks, One!Disabled,
         Solo!Disabled, One!packs, Solo!packs, One!coll, Solo!coll, One!garden, Solo!garden,
         One!seed, Solo!seed, One!bounds, Solo!bounds
<1>4. /\ \A k : One!DeleteMR(k) => Solo!DeleteMR(k)
      /\ \A k : One!DeleteSecret(k) => Solo!DeleteSecret(k)
      /\ One!AfterDeletes => Solo!AfterDeletes
  BY
     DEF One!DeleteMR, Solo!DeleteMR, One!DeleteSecret, Solo!DeleteSecret,
         One!AfterDeletes, Solo!AfterDeletes, One!IsNext, Solo!IsNext, One!NoData,
         Solo!NoData, One!coll, Solo!coll, One!garden, Solo!garden, One!seed, Solo!seed,
         One!bounds, Solo!bounds
<1>5. One!Finish => Solo!Finish
  BY
     DEF One!Finish, Solo!Finish, One!NoRequest, Solo!NoRequest, One!Deleting,
         Solo!Deleting, One!NoExt, Solo!NoExt, One!NoShoot, Solo!NoShoot, One!seed,
         Solo!seed, One!bounds, Solo!bounds
<1> QED
  BY <1>1, <1>2, <1>3, <1>4, <1>5 DEF One!Worker, Solo!Worker, One!coll, Solo!coll

LEMMA SoloFaults == One!Faults => Solo!Faults
BY
   DEF One!Faults, Solo!Faults, One!Fault, Solo!Fault, One!Upgrade, Solo!Upgrade,
       One!NoRequest, Solo!NoRequest, One!NoExt, Solo!NoExt, One!NoShoot, Solo!NoShoot,
       One!garden, Solo!garden, One!seed, Solo!seed

LEMMA SoloIsOne == One!Spec => Solo!Spec
<1>1. [One!Next]_(One!vars) => [Solo!Next]_(Solo!vars)
  <2>1. One!Next => Solo!Next
    BY SoloOutside, SoloWorker, SoloFaults DEF One!Next, Solo!Next
  <2>2. UNCHANGED One!vars => UNCHANGED Solo!vars
    BY
       DEF One!vars, Solo!vars, One!garden, Solo!garden, One!seed, Solo!seed,
           One!request, Solo!request, One!bounds, Solo!bounds
  <2> QED
    BY <2>1, <2>2
<1> QED
  BY <1>1, SoloInit, PTL DEF One!Spec, Solo!Spec

LEMMA SoloReleases ==
    (SingleVersion => Solo!SingleVersion) /\ (SameNames => Solo!SameNames)
BY DEF SingleVersion, Solo!SingleVersion, SameNames, Solo!SameNames, NamesOf, Solo!NamesOf

\* Two replicas, too, are no more than PackStore on the seed: with leader
\* election all that PackStore promises of one process holds of both.
THEOREM ReplicasImplementPackStore ==
    LeaderElection /\ SingleVersion /\ SameNames => (RepSpec => Solo!ImplementsPackStore)
<1> SUFFICES ASSUME LeaderElection, SingleVersion, SameNames
             PROVE  RepSpec => Solo!ImplementsPackStore
  OBVIOUS
<1>1. RepSpec => One!Spec
  BY ImplementsActuatorCorrect DEF ImplementsActuator
<1>2. Solo!Spec => Solo!ImplementsPackStore
  BY SoloConstants, SoloReleases, Solo!ImplementsPackStoreCorrect
<1> QED
  BY <1>1, <1>2, SoloIsOne, PTL

\* No order of elections, crashes and rollouts leaves a pack on the seed
\* without an Extension, or a ManagedResource without its secret.
THEOREM ReplicasLeaveNothing ==
    LeaderElection /\ SameNames => (RepSpec => [](GoneMeansWithdrawn /\ LiveHasData))
<1> SUFFICES ASSUME LeaderElection, SameNames
             PROVE  RepSpec => [](GoneMeansWithdrawn /\ LiveHasData)
  OBVIOUS
<1>1. RepSpec => One!Spec
  BY ImplementsActuatorCorrect DEF ImplementsActuator
<1>2. Solo!Spec => []Solo!GoneMeansWithdrawn
  BY SoloConstants, SoloReleases, Solo!GoneMeansWithdrawnCorrect
<1>3. Solo!Spec => []Solo!LiveHasData
  BY SoloConstants, Solo!LiveHasDataCorrect
<1>4. Solo!GoneMeansWithdrawn /\ Solo!LiveHasData => GoneMeansWithdrawn /\ LiveHasData
  BY DEF GoneMeansWithdrawn, Solo!GoneMeansWithdrawn, Withdrawn, Solo!Withdrawn,
         LiveHasData, Solo!LiveHasData, NoData, Solo!NoData
<1> QED
  BY <1>1, <1>2, <1>3, <1>4, SoloIsOne, PTL

-----------------------------------------------------------------------------
(* Type correctness *)

LEMMA SoloTyped == LeaderElection => (RepSpec => [](RepInv /\ Solo!TypeOK))
<1> SUFFICES ASSUME LeaderElection PROVE RepSpec => [](RepInv /\ Solo!TypeOK)
  OBVIOUS
<1>1. RepSpec => One!Spec
  BY ImplementsActuatorCorrect DEF ImplementsActuator
<1>2. Solo!Spec => []Solo!TypeOK
  BY SoloConstants, Solo!TypeCorrect, PTL
<1>3. RepSpec => []RepInv
  BY RepInvCorrect
<1> QED
  BY <1>1, <1>2, <1>3, SoloIsOne, PTL

\* What is said of both replicas from what is said of the single process.
LEMMA SoloTypes ==
    ASSUME Solo!TypeOK
    PROVE  /\ shoot \in Shoot /\ cluster \in Shoot /\ edits \in 0..MaxEdits
           /\ ext \in [st : {"absent", "active", "deleting", "migrated"},
                       op : {"reconcile", "restore", "migrate"},
                       finalizer : BOOLEAN, provider : Provider]
           /\ refs \in [Ref -> Value \cup {Absent, Broken}]
           /\ mr \in [Name -> {"absent", "live", "terminating"}]
           /\ mrData \in [Name -> Data \cup {NoData}]
           /\ MaxFaults + 2 * MaxRestarts - spent \in 0..(MaxFaults + 2 * MaxRestarts)
BY Zenon
   DEF Solo!TypeOK, Solo!Shoot, Solo!Resource, Solo!Provider, Solo!PackSpec, Solo!Absent,
       Solo!Broken, Solo!Data, Solo!NoData, Shoot, Resource, Provider, PackSpec, Absent, Broken,
       Data, NoData

\* A request, of either replica, that is well typed.
RequestOK(c, step, method, provider, s, n, values, left, names) ==
    /\ step \in Steps
    /\ method \in {"none", "reconcile", "restore", "migrate", "delete", "forceDelete"}
    /\ provider \in Provider /\ s \in Shoot
    /\ n \in 1..(Len(provider.packs) + 1)
    /\ values \in Seq(Value \cup {Broken})
    /\ left \subseteq DOMAIN c
    /\ names \subseteq Name

LEMMA NothingOK ==
    ASSUME NEW c
    PROVE  RequestOK(c, "idle", "none", NoExt.provider, NoShoot, 1, <<>>, {}, {})
<1>1. NoExt.provider \in Provider /\ NoShoot \in Shoot
  BY DEF NoExt, NoShoot, Provider, Shoot, PackSpec, Resource
<1>2. 1 \in 1..(Len(NoExt.provider.packs) + 1)
  <2>1. NoExt.provider.packs = <<>>
    BY DEF NoExt
  <2>2. Len(NoExt.provider.packs) = 0
    BY <2>1, EmptySeq
  <2> QED
    BY <2>2
<1>3. <<>> \in Seq(Value \cup {Broken})
  BY EmptySeq
<1> QED
  BY <1>1, <1>2, <1>3 DEF RequestOK, Steps

LEMMA SoloRequest ==
    ASSUME Solo!TypeOK
    PROVE  /\ phase[2] = "leading" =>
                 RequestOK(Releases[front], pc2, op2, spec2, snap2, i2, got2, todo2, late2)
           /\ phase[2] # "leading" =>
                 RequestOK(Releases[front], pc, op, spec, snap, i, got, todo, late)
BY DEF Solo!TypeOK, Solo!Steps, Solo!Provider, Solo!PackSpec, Solo!Shoot, Solo!Resource,
       Solo!packs, Solo!coll, Solo!Broken, RequestOK, Steps, Provider, PackSpec, Shoot,
       Resource, Broken

LEMMA RequestsOK ==
    ASSUME RepInv, Solo!TypeOK
    PROVE  /\ RequestOK(Releases[rel], pc, op, spec, snap, i, got, todo, late)
           /\ RequestOK(Releases[rel2], pc2, op2, spec2, snap2, i2, got2, todo2, late2)
<1>1. RequestOK(Releases[rel], pc, op, spec, snap, i, got, todo, late)
  <2>1. CASE phase[1] = "leading"
    <3>1. phase[2] # "leading" /\ front = rel
      BY <2>1, ReplicaFacts DEF RepInv, Exclusive
    <3> QED
      BY <3>1, SoloRequest
  <2>2. CASE phase[1] # "leading"
    <3>1. Rest1
      BY <2>2 DEF RepInv, Resting
    <3> QED
      BY <3>1, NothingOK DEF Rest1
  <2> QED
    BY <2>1, <2>2
<1>2. RequestOK(Releases[rel2], pc2, op2, spec2, snap2, i2, got2, todo2, late2)
  <2>1. CASE phase[2] = "leading"
    <3>1. front = rel2
      BY <2>1, ReplicaFacts DEF RepInv, Exclusive
    <3> QED
      BY <2>1, <3>1, SoloRequest
  <2>2. CASE phase[2] # "leading"
    <3>1. Rest2
      BY <2>2 DEF RepInv, Resting
    <3> QED
      BY <3>1, NothingOK DEF Rest2
  <2> QED
    BY <2>1, <2>2
<1> QED
  BY <1>1, <1>2

\* Both replicas are well typed, and what the single process would call faults
\* stays within what the lives of the processes account for.
THEOREM RepTypeCorrect == LeaderElection => (RepSpec => []RepTypeOK)
<1> SUFFICES ASSUME LeaderElection PROVE RepSpec => []RepTypeOK
  OBVIOUS
<1>1. RepInv /\ Solo!TypeOK => RepTypeOK
  <2> SUFFICES ASSUME RepInv, Solo!TypeOK PROVE RepTypeOK
    OBVIOUS
  <2>1. TypeOK
    BY SoloTypes, RequestsOK
       DEF TypeOK, RequestOK, packs, coll, RepInv, ControlType, CountType
  <2>2. Two!TypeOK
    BY SoloTypes, RequestsOK
       DEF Two!TypeOK, RequestOK, RepInv, ControlType, CountType, Two!packs, Two!coll,
           Two!Steps, Two!Provider, Two!PackSpec, Two!Shoot, Two!Resource, Two!Absent,
           Two!Broken, Two!Data, Two!NoData, Steps, Provider, PackSpec, Shoot, Resource,
           Absent, Broken, Data, NoData
  <2>3. spent \in 0..(MaxFaults + 2 * MaxRestarts)
    BY SoloTypes, Bounds DEF RepInv, CountType
  <2> QED
    BY <2>1, <2>2, <2>3 DEF RepTypeOK, RepInv, ControlType, CountType
<1>2. RepSpec => [](RepInv /\ Solo!TypeOK)
  BY SoloTyped
<1> QED
  BY <1>1, <1>2, PTL
=============================================================================
