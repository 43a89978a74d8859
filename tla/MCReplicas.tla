----------------------------- MODULE MCReplicas -----------------------------
(* Replicas on one pack that may be patched and one that may be dropped.     *)
EXTENDS Replicas

Foo(v)     == [name |-> "foo", version |-> v, patches |-> <<>>]
PatchedFoo == [name |-> "foo", version |-> "v1", patches |-> <<"r">>]
Bar        == [name |-> "bar", version |-> "v1", patches |-> <<>>]

\* A shoot that is awake and lists the given packs and one secret resource.
With(ps) == [deleting   |-> FALSE, hibernated |-> FALSE, extension |-> "enabled",
             provider   |-> [kind |-> "config", packs |-> ps],
             resources  |-> {[name |-> "r", kind |-> "Secret"]}]

MCShoots ==
    {With(<<PatchedFoo>>),
     With(<<Bar, Foo("v2")>>),
     [With(<<PatchedFoo>>) EXCEPT !.extension = "disabled"]}

\* The second release replaces a version of foo, the third does not verify.
MCReleases == << <<[name |-> "bar", version |-> "v1"], [name |-> "foo", version |-> "v1"]>>,
                 <<[name |-> "bar", version |-> "v1"], [name |-> "foo", version |-> "v2"]>>,
                 <<[name |-> "bar", version |-> "v1"], [name |-> "foo", version |-> "v2"]>> >>
=============================================================================
