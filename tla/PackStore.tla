------------------------------ MODULE PackStore ------------------------------
(***************************************************************************)
(* What the extension promises of the packs of one shoot: no requests, no  *)
(* API calls, no secrets and no collection, only what is installed, what   *)
(* was asked for and what is being done about it.  Actuator implements it  *)
(* (ActuatorStore).                                                        *)
(***************************************************************************)
CONSTANTS Name, Version

None == ""
Packs == [Name -> Version \cup {None}]
Nothing == [n \in Name |-> None]

\* To have exactly these packs, to keep what there is, or no goal.
Goal   == [kind : {"none", "keep", "packs"}, packs : Packs]
NoGoal == [kind |-> "none", packs |-> Nothing]
Keep   == [kind |-> "keep", packs |-> Nothing]
Empty  == [kind |-> "packs", packs |-> Nothing]

VARIABLES
    stage,      \* of the shoot on this seed
    wanted,     \* what the Extension asks for; no goal when that is unusable
    goal,       \* what is being done
    installed,  \* the version of each pack that is applied to the shoot
    leaving,    \* packs whose objects are being removed from the shoot
    missed      \* packs that were leaving when they were to be installed

vars == <<stage, wanted, goal, installed, leaving, missed>>

Init ==
    /\ stage = "none" /\ wanted = NoGoal /\ goal = NoGoal
    /\ installed = Nothing /\ leaving = {} /\ missed = {}

-----------------------------------------------------------------------------
(* The shoot comes and goes *)

Attach ==
    /\ stage = "none" /\ stage' = "attached"
    /\ wanted' \in Goal
    /\ UNCHANGED <<goal, installed, leaving, missed>>

Ask ==
    /\ stage = "attached" /\ wanted' \in Goal
    /\ UNCHANGED <<stage, goal, installed, leaving, missed>>

\* The extension is to go, which takes no work when nothing was begun.
Detach ==
    /\ stage = "attached"
    /\ \/ stage' = "deleting" /\ UNCHANGED wanted
       \/ /\ goal = NoGoal /\ installed = Nothing
          /\ stage' = "none" /\ wanted' = NoGoal
    /\ UNCHANGED <<goal, installed, leaving, missed>>

\* The shoot is on another seed by now; its objects are not removed.
Leave ==
    /\ stage = "migrated" /\ goal = NoGoal
    /\ stage' = "none" /\ wanted' = NoGoal
    /\ installed' = Nothing /\ leaving' = {}
    /\ UNCHANGED <<goal, missed>>

-----------------------------------------------------------------------------
(* Work on a goal *)

\* Work begins on what is wanted at that moment, or on the removal of all.
Begin ==
    /\ goal = NoGoal
    /\ \/ stage = "attached" /\ goal' = wanted
       \/ stage = "deleting" /\ goal' = Empty
    /\ UNCHANGED <<stage, wanted, installed, leaving, missed>>

\* The shoot turns out to be hibernated.
Skip ==
    /\ stage \in {"attached", "deleting"} /\ installed' = installed
    /\ goal # Empty /\ goal' = Keep
    /\ UNCHANGED <<stage, wanted, leaving, missed>>

\* A pack is installed in the version of the goal, or its version changes in
\* place.
Install(n) ==
    /\ goal.kind = "packs" /\ goal.packs[n] # None
    /\ n \notin leaving
    /\ installed' = [installed EXCEPT ![n] = goal.packs[n]]
    /\ UNCHANGED <<stage, wanted, goal, leaving, missed>>

Miss(n) ==
    /\ goal.kind = "packs" /\ goal.packs[n] # None
    /\ n \in leaving
    /\ missed' = missed \cup {n}
    /\ UNCHANGED <<stage, wanted, goal, installed, leaving>>

InPlace == \A n \in Name :
    goal.packs[n] # None => installed[n] = goal.packs[n] \/ n \in missed

\* A pack is taken down when it is not in the goal and all that is has its
\* place.
Remove(n) ==
    /\ goal.kind = "packs" /\ goal.packs[n] = None /\ InPlace
    /\ installed[n] # None
    /\ installed' = [installed EXCEPT ![n] = None]
    /\ leaving' = leaving \cup {n}
    /\ UNCHANGED <<stage, wanted, goal, missed>>

Removed(n) ==
    /\ n \in leaving /\ leaving' = leaving \ {n}
    /\ UNCHANGED <<stage, wanted, goal, installed, missed>>

\* The goal is reached: what it has is installed and nothing else is.
Reached ==
    \/ goal.kind = "keep"
    \/ /\ goal.kind = "packs" /\ InPlace
       /\ \A n \in Name : goal.packs[n] = None => installed[n] = None

Succeed ==
    /\ Reached
    /\ goal' = NoGoal /\ missed' = {}
    /\ \/ UNCHANGED <<stage, wanted>>
       \/ stage = "attached" /\ stage' = "migrated" /\ UNCHANGED wanted
       \/ /\ stage = "deleting" /\ goal = Empty
          /\ stage' = "none" /\ wanted' = NoGoal
    /\ UNCHANGED <<installed, leaving>>

\* Work is given up; it begins again with what is wanted then.
GiveUp ==
    /\ goal' = NoGoal /\ missed' = {}
    /\ UNCHANGED <<stage, wanted, installed, leaving>>

Next ==
    \/ Attach \/ Ask \/ Detach \/ Leave
    \/ Begin \/ Skip \/ Succeed \/ GiveUp
    \/ \E n \in Name : Install(n) \/ Miss(n) \/ Remove(n) \/ Removed(n)

Spec == Init /\ [][Next]_vars
=============================================================================
