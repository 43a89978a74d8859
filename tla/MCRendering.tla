---------------------------- MODULE MCRendering ----------------------------
(* Rendering of a pack with a namespace and two objects of one name, with up *)
(* to two patches from secrets whose names may collide.                      *)
EXTENDS Rendering

MCField == {"x", "y", Label}
Obj(kind, name) == [id |-> [kind |-> kind, name |-> name],
                    fields |-> [f \in MCField |-> "pack"]]

MCPack == << [file |-> <<"ns">>,  obj |-> Obj("Namespace", "b")],
             [file |-> <<"dep">>, obj |-> Obj("Deployment", "a")],
             [file |-> <<"svc">>, obj |-> Obj("Service", "a")] >>

Dep == MCPack[2].obj.id
Svc == MCPack[3].obj.id

MCRef == {<<"a">>, <<"a", "b">>}
MCKey == {<<"b", "c">>, <<"c">>}

NoSet == [f \in MCField |-> Keep]
MCPatches == {[own |-> Dep, set |-> [NoSet EXCEPT !["x"] = "one"]],
              [own |-> Svc, set |-> [NoSet EXCEPT !["x"] = "two", ![Label] = "two"]],
              [own |-> Dep, set |-> [NoSet EXCEPT !["y"] = "two"]]}

MCTargets == {NoTarget} \cup {[given |-> TRUE, ids |-> ids] : ids \in {{}, {Dep}, {Dep, Svc}}}

MCSpecs == UNION {[1..n -> [ref : MCRef, target : MCTargets]] : n \in 0..2}

MCSecrets == [MCRef -> UNION {[K -> MCPatches] : K \in SUBSET MCKey}]

MCInputs == [pack : {MCPack}, specs : MCSpecs, secrets : MCSecrets]
=============================================================================
