----------------------------- MODULE MCActuator -----------------------------
(* Actuator on two packs and one referenced secret.                          *)
EXTENDS ActuatorStore

\* The packs a config may list.
Foo(v)     == [name |-> "foo", version |-> v, patches |-> <<>>]
PatchedFoo == [name |-> "foo", version |-> "v1", patches |-> <<"r", "r">>]
Bar        == [name |-> "bar", version |-> "v1", patches |-> <<>>]

\* A shoot that is awake and lists the given packs and one secret resource.
With(ps) == [deleting   |-> FALSE, hibernated |-> FALSE, extension |-> "enabled",
             provider   |-> [kind |-> "config", packs |-> ps],
             resources  |-> {[name |-> "r", kind |-> "Secret"]}]

MCShoots ==
    {With(<<PatchedFoo>>),
     With(<<Foo("v2"), Bar>>),
     With(<<Bar, PatchedFoo>>),
     [With(<<Bar>>) EXCEPT !.hibernated = TRUE],
     [With(<<PatchedFoo>>) EXCEPT !.extension = "disabled"]}

\* Two Shoots that the webhook would not let through.
MCBadShoots ==
    {[With(<<Bar, PatchedFoo>>) EXCEPT !.resources = {[name |-> "r", kind |-> "Other"]}],
     With(<<Foo("v1"), Bar, Foo("v2")>>)}

MCAllShoots == MCShoots \cup MCBadShoots

\* An upgrade replaces a version of foo.
MCReleases == << <<[name |-> "bar", version |-> "v1"], [name |-> "foo", version |-> "v1"]>>,
                 <<[name |-> "bar", version |-> "v1"], [name |-> "foo", version |-> "v2"]>> >>

\* The layout in the comment of assets.New: two versions of one pack.
MCTwoVersions == << <<[name |-> "foo", version |-> "v1"], [name |-> "foo", version |-> "v2"]>> >>

\* An upgrade drops a pack.
MCDropsPack == << MCReleases[1], <<[name |-> "foo", version |-> "v1"]>> >>
=============================================================================
