---------------------------- MODULE MCPackBuild ----------------------------
(* PackBuild with two versions and with resources at both levels.            *)
EXTENDS PackBuild

Write(p, c) == [path |-> p, content |-> c]

FlatSpec   == [version |-> "v1", desc |-> "d", test |-> "passes",
               package |-> <<Write("a", "x"), Write("b", "x")>>]
OneSpec    == [version |-> "v1", desc |-> "e", test |-> "undefined",
               package |-> <<Write("a", "y")>>]
NestedSpec == [version |-> "v2", desc |-> "d", test |-> "passes",
               package |-> <<Write("a", "x"), Write("n", "y")>>]
BlankSpec  == [version |-> "v2", desc |-> "", test |-> "fails",
               package |-> <<Write("b", "x")>>]

MCSpecs     == {FlatSpec, OneSpec, NestedSpec, BlankSpec}
MCFlatSpecs == {FlatSpec, OneSpec}
=============================================================================
