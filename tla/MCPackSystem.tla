---------------------------- MODULE MCPackSystem ----------------------------
(* PackSystem on the packs and Shoots of MCActuator.                         *)
EXTENDS PackSystem

Foo(v)     == [name |-> "foo", version |-> v, patches |-> <<>>]
PatchedFoo == [name |-> "foo", version |-> "v1", patches |-> <<"r", "r">>]
Bar        == [name |-> "bar", version |-> "v1", patches |-> <<>>]

\* A shoot that is awake and lists the given packs and one resource.
With(ps, kind) ==
    [deleting   |-> FALSE, hibernated |-> FALSE, extension |-> "enabled",
     provider   |-> [kind |-> "config", packs |-> ps],
     resources  |-> {[name |-> "r", kind |-> kind]}]

\* Shoots the webhook lets through and, for each of its checks, one that only
\* this check keeps out.
MCShoots ==
    {With(<<PatchedFoo>>, "Secret"),
     With(<<Bar>>, "Other"),
     [With(<<Bar>>, "Other") EXCEPT !.hibernated = TRUE],
     [With(<<PatchedFoo>>, "Other") EXCEPT !.extension = "disabled"],
     [With(<<Foo("v9")>>, "Other") EXCEPT !.deleting = TRUE],
     With(<<PatchedFoo>>, "Other"),
     With(<<Foo("v2")>>, "Secret"),
     With(<<Bar, Foo("v1"), Bar>>, "Secret"),
     [With(<<Bar>>, "Secret") EXCEPT !.provider.kind = "undecodable"]}

MCOneRelease == << <<[name |-> "bar", version |-> "v1"], [name |-> "foo", version |-> "v1"]>> >>

\* The second release replaces a version of foo.
MCTwoReleases == MCOneRelease \o
    << <<[name |-> "bar", version |-> "v1"], [name |-> "foo", version |-> "v2"]>> >>
=============================================================================
