---------------------------- MODULE ActuatorStore ----------------------------
(***************************************************************************)
(* Actuator as an implementation of PackStore: a pack is installed in the  *)
(* version its secret holds, from the call that creates its ManagedResource*)
(* to the call that deletes it, and a request works on what the Extension  *)
(* asked for when it started.                                              *)
(***************************************************************************)
EXTENDS ActuatorInvariants

VersionIn(ps, n) ==
    IF \E j \in DOMAIN ps : ps[j].name = n
    THEN ps[CHOOSE j \in DOMAIN ps : ps[j].name = n].version ELSE ""

ToHave(kind, ps) == [kind |-> kind, packs |-> [n \in Name |-> VersionIn(ps, n)]]

\* What a provider config asks for.
GoalOf(provider) ==
    IF provider.kind = "config" /\ IsValid(provider.packs)
    THEN ToHave("packs", provider.packs) ELSE ToHave("none", <<>>)

\* What the request in progress is to bring about.
GoalOfRequest ==
    CASE Deleting                        -> ToHave("packs", <<>>)
      [] Reconciling /\ snap.hibernated  -> ToHave("keep", <<>>)
      [] Reconciling /\ ~snap.hibernated -> GoalOf(spec)
      [] OTHER                           -> ToHave("none", <<>>)

Stage == CASE ext.st = "absent" -> "none"
           [] ext.st = "active" -> "attached"
           [] OTHER             -> ext.st

Installed == [n \in Name |-> IF mr[n] = "live" THEN mrData[n].version ELSE ""]

Store == INSTANCE PackStore WITH
    stage     <- Stage,
    wanted    <- GoalOf(ext.provider),
    goal      <- GoalOfRequest,
    installed <- Installed,
    leaving   <- {n \in Name : mr[n] = "terminating"},
    missed    <- late

\* Whatever calls a request consists of, wherever it is cut short and whatever
\* it has read, on the seed this is no more than PackStore: versions change in
\* place, packs are taken down when all that is to stay is there, a request
\* that succeeds has done all it was asked for, and the Extension is released
\* when nothing is left.  Releases have one version of each pack and the same
\* packs, as in the theorems.
ImplementsPackStore == Store!Spec
=============================================================================
