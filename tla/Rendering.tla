----------------------------- MODULE Rendering -----------------------------
(***************************************************************************)
(* How the actuator renders one pack (pkg/actuator/pack: reconcilePack,    *)
(* kustomizeFilesystemForPack): the resources of the pack and the patches  *)
(* from the referenced secrets become files of a file system in memory,    *)
(* kustomize turns them into objects, and the objects are labelled and     *)
(* collected for the ManagedResource.                                      *)
(*                                                                         *)
(* The keys of a secret are visited in Go's map order, which is any order. *)
(* Reading the secrets, which change meanwhile, is the business of         *)
(* Actuator; here they stay as they are.                                   *)
(*                                                                         *)
(* Names of referenced resources, keys and files are sequences of words,   *)
(* the words that dashes separate.                                         *)
(***************************************************************************)
EXTENDS Integers, Sequences

CONSTANTS
    Word,       \* words of names
    Ref, Key,   \* names of referenced resources and keys of their secrets
    Kind,       \* kinds of objects
    ObjName,    \* names of objects
    Field,      \* fields of an object, the labels of the pack among them
    Val,        \* values of fields
    Ours,       \* the value the labels of the pack have
    Inputs      \* the packs, patches and secrets to be rendered

Label == "label"
Keep  == "keep"     \* a patch leaves the field alone

Id     == [kind : Kind, name : ObjName]
Object == [id : Id, fields : [Field -> Val]]
Patch  == [own : Id, set : [Field -> Val \cup {Keep}]]
File   == Seq(Word)

\* The target of a patch: the objects that its selector selects.  Without a
\* target the patch applies to the object it names.
Target   == [given : BOOLEAN, ids : SUBSET Id]
NoTarget == [given |-> FALSE, ids |-> {}]

\* A resource file of the pack; an entry of Patches in the config; the data
\* of the secrets.
Resource  == [file : File, obj : Object]
PatchSpec == [ref : Ref, target : Target]
Secrets   == [Ref -> UNION {[K -> Patch] : K \in SUBSET Key}]

ASSUME RenderingConstants ==
    /\ Ref \subseteq Seq(Word) /\ Key \subseteq Seq(Word)
    /\ {"patch", "ref"} \subseteq Word
    /\ Label \in Field /\ Keep \notin Val /\ Ours \in Val
    /\ \A in \in Inputs : /\ in.pack \in Seq(Resource)
                          /\ in.specs \in Seq(PatchSpec)
                          /\ in.secrets \in Secrets

VARIABLES
    in,         \* packAsset, packSpec.Patches and the secrets
    pc,
    fs,         \* the file system: the contents of its files
    resources,  \* file names for the kustomization's resources
    patches,    \* its patches
    p,          \* index of the entry of packSpec.Patches that is next
    left,       \* keys of its secret that have not been visited
    out,        \* resMap.Resources()
    data        \* the objects in the registry, by their file names

vars == <<in, pc, fs, resources, patches, p, left, out, data>>

\* WriteFile, for the file system and for the registry.
Write(f, name, content) ==
    [x \in DOMAIN f \cup {name} |-> IF x = name THEN content ELSE f[x]]

\* fmt.Sprintf("patch-%s-%s", secret.Name, key); the secret of a referenced
\* resource is named "ref-" and the name of the resource.
PatchFile(ref, key) == <<"patch", "ref">> \o ref \o key

Init ==
    /\ in \in Inputs
    /\ pc = "resources" /\ fs = <<>> /\ resources = <<>>
    /\ patches = <<>> /\ p = 1 /\ left = {} /\ out = <<>> /\ data = <<>>

-----------------------------------------------------------------------------
(* kustomizeFilesystemForPack *)

AddResource ==
    LET r == in.pack[Len(resources) + 1] IN
    /\ pc = "resources" /\ Len(resources) < Len(in.pack)
    /\ fs' = Write(fs, r.file, r.obj)
    /\ resources' = Append(resources, r.file)
    /\ UNCHANGED <<in, pc, patches, p, left, out, data>>

\* The head of the loop over the patches.
NextPatch ==
    /\ \/ pc = "resources" /\ Len(resources) = Len(in.pack) /\ p' = 1
       \/ pc = "keys" /\ left = {} /\ p' = p + 1
    /\ IF p' <= Len(in.specs)
       THEN pc' = "keys" /\ left' = DOMAIN in.secrets[in.specs[p'].ref]
       ELSE pc' = "run" /\ left' = {}
    /\ UNCHANGED <<in, fs, resources, patches, out, data>>

\* Mutated: the file is written, but the patch goes to the front.
AddPatchInFront(key) ==
    LET spec == in.specs[p]
        file == PatchFile(spec.ref, key) IN
    /\ pc = "keys" /\ key \in left
    /\ fs' = Write(fs, file, in.secrets[spec.ref][key])
    /\ patches' = <<[path |-> file, target |-> spec.target]>> \o patches
    /\ left' = left \ {key}
    /\ UNCHANGED <<in, pc, resources, p, out, data>>

\* Mutated: a secret that was referenced before is not used again.
AddPatchOnce(key) ==
    LET spec == in.specs[p]
        file == PatchFile(spec.ref, key) IN
    /\ pc = "keys" /\ key \in left
    /\ fs' = Write(fs, file, in.secrets[spec.ref][key])
    /\ patches' = IF file \in DOMAIN fs THEN patches
                  ELSE Append(patches, [path |-> file, target |-> spec.target])
    /\ left' = left \ {key}
    /\ UNCHANGED <<in, pc, resources, p, out, data>>

\* One key of the secret: its data becomes a file and a patch.
AddPatch(key) ==
    LET spec == in.specs[p]
        file == PatchFile(spec.ref, key) IN
    /\ pc = "keys" /\ key \in left
    /\ fs' = Write(fs, file, in.secrets[spec.ref][key])
    /\ patches' = Append(patches, [path |-> file, target |-> spec.target])
    /\ left' = left \ {key}
    /\ UNCHANGED <<in, pc, resources, p, out, data>>

-----------------------------------------------------------------------------
(* kustomize (external) *)

Selects(patch, target, id) == IF target.given THEN id \in target.ids ELSE patch.own = id

Override(fields, set) == [f \in Field |-> IF set[f] = Keep THEN fields[f] ELSE set[f]]

\* The objects of the resources' files.
Objects == [k \in DOMAIN resources |-> fs[resources[k]]]

\* What patch n makes of objects.
PatchedBy(n, objs) ==
    LET patch == fs[patches[n].path] IN
    [k \in DOMAIN objs |->
        IF Selects(patch, patches[n].target, objs[k].id)
        THEN [objs[k] EXCEPT !.fields = Override(@, patch.set)]
        ELSE objs[k]]

\* The objects after the first n patches.
After[n \in 0..Len(patches)] == IF n = 0 THEN Objects ELSE PatchedBy(n, After[n - 1])

\* A patch without a target has to name an object of the pack; a target that
\* selects nothing is no error.
Runs ==
    \A n \in DOMAIN patches :
        ~patches[n].target.given =>
            \E k \in DOMAIN Objects : Objects[k].id = fs[patches[n].path].own

Kustomize ==
    /\ pc = "run"
    /\ IF Runs THEN pc' = "register" /\ out' = After[Len(patches)]
               ELSE pc' = "failed" /\ out' = out
    /\ UNCHANGED <<in, fs, resources, patches, p, left, data>>

-----------------------------------------------------------------------------
(* The rest of reconcilePack *)

\* Mutated: the label is set from a field that nobody fills in.
LabelledEmpty(obj) == [obj EXCEPT !.fields[Label] = ""]

\* The labels of the pack win over those from the pack and its patches.
Labelled(obj) == [obj EXCEPT !.fields[Label] = Ours]

\* Mutated: files of the registry are named after the object.
FileInRegistryByName(idx) == out[idx + 1].id.name

\* The object's index, starting from 0.
FileInRegistry(idx) == idx

\* Mutated: namespaces are collected like any other object.
KeptAll == DOMAIN out

\* The objects that go into the registry; namespaces do not.
Kept == {k \in DOMAIN out : out[k].id.kind # "Namespace"}

\* The loop over the objects; of two objects with one file name the later
\* one would stay.
Register ==
    /\ pc = "register"
    /\ LET names == {FileInRegistry(k - 1) : k \in Kept}
           last(n) == CHOOSE k \in Kept : /\ FileInRegistry(k - 1) = n
                                          /\ \A m \in Kept : FileInRegistry(m - 1) = n => m <= k
       IN  data' = [n \in names |-> Labelled(out[last(n)])]
    /\ pc' = "done"
    /\ UNCHANGED <<in, fs, resources, patches, p, left, out>>

Next ==
    \/ AddResource \/ NextPatch
    \/ \E key \in Key : AddPatch(key)
    \/ Kustomize \/ Register

Spec == Init /\ [][Next]_vars

-----------------------------------------------------------------------------
(* Properties *)

TypeOK ==
    /\ in \in Inputs
    /\ pc \in {"resources", "keys", "run", "register", "done", "failed"}
    /\ DOMAIN fs \subseteq File /\ \A f \in DOMAIN fs : fs[f] \in Object \cup Patch
    /\ resources \in Seq(File)
    /\ patches \in Seq([path : File, target : Target])
    /\ p \in 1..(Len(in.specs) + 1) /\ left \subseteq Key
    /\ out \in Seq(Object)
    /\ \A n \in DOMAIN data : data[n] \in Object

\* What the entry at x and one of the keys of its secret contribute.
Uses == {u \in (DOMAIN in.specs) \X Key :
            u[2] \in DOMAIN in.secrets[in.specs[u[1]].ref]}
FileOf(u)  == PatchFile(in.specs[u[1]].ref, u[2])
PatchOf(u) == in.secrets[in.specs[u[1]].ref][u[2]]

\* No two names of a secret and a key join to the same file name.
NamesDiffer ==
    \A u, v \in Uses : FileOf(u) = FileOf(v) =>
        in.specs[u[1]].ref = in.specs[v[1]].ref /\ u[2] = v[2]

\* The file system has the resources of the pack "and any patches, which have
\* been specified as part of the config.Pack spec": every key of every
\* referenced secret is there, as it is in the secret, with the target it was
\* specified for.
HasAllPatches ==
    pc \in {"run", "register", "done"} =>
        \A u \in Uses : \E n \in DOMAIN patches :
            /\ patches[n].target = in.specs[u[1]].target
            /\ fs[patches[n].path] = PatchOf(u)

\* So it is as long as the file names of the patches differ.
HasAllPatchesIfNamesDiffer == NamesDiffer => HasAllPatches

\* The uses of keys that set a field of an object, and those of them that come
\* from the last entry of Patches.  An entry has one use for each key of its
\* secret, and several of them may set the field.
Sets(u, id, f) == Selects(PatchOf(u), in.specs[u[1]].target, id) /\ PatchOf(u).set[f] # Keep

Setters(id, f) == {u \in Uses : Sets(u, id, f)}
LastOf(us)     == {u \in us : \A v \in us : v[1] <= u[1]}

\* The values that a field of an object of the pack may end up with.
Expected(obj, f) ==
    LET us == Setters(obj.id, f) IN
    IF f = Label THEN {Ours}
    ELSE IF us = {} THEN {obj.fields[f]}
    ELSE {PatchOf(u).set[f] : u \in LastOf(us)}

IsExpected(o, obj) == o.id = obj.id /\ \A f \in Field : o.fields[f] \in Expected(obj, f)

IsNamespace(obj) == obj.id.kind = "Namespace"

\* Whatever the order of keys: the ManagedResource has the objects of the pack
\* but namespaces, each of them once and nothing else.  Every field is as the
\* last entry of Patches that sets it says, or as in the pack, and the labels
\* are those of the pack even if a patch says otherwise.  Where keys of that
\* entry contradict each other one of them wins, and never one of an earlier
\* entry.
DeliversPatchedPack ==
    pc = "done" /\ NamesDiffer =>
        /\ \A n \in DOMAIN data : \E k \in DOMAIN in.pack :
              ~IsNamespace(in.pack[k].obj) /\ IsExpected(data[n], in.pack[k].obj)
        /\ \A k \in DOMAIN in.pack : ~IsNamespace(in.pack[k].obj) =>
              \E n \in DOMAIN data : data[n].id = in.pack[k].obj.id
        /\ \A m, n \in DOMAIN data : data[m].id = data[n].id => m = n
=============================================================================
