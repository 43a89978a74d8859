--------------------------- MODULE RenderingProofs ---------------------------
(***************************************************************************)
(* Every patch reaches kustomize as the user wrote it, as long as the file *)
(* names of the patches differ; they do when the names of the referenced   *)
(* resources have no dash.  What reaches the registry then is the pack as  *)
(* the user has patched it.                                                *)
(*                                                                         *)
(* The invariant follows the two loops of kustomizeFilesystemForPack: what *)
(* they have passed is in the file system, under its own name, and on the  *)
(* list of patches, which follows the order of the entries.  What the      *)
(* patches do to an object is by induction on their number.                *)
(***************************************************************************)
EXTENDS Rendering, SequenceTheorems, WellFoundedInduction, TLAPS

\* The entry and the key of u have been visited.
Passed(u) ==
    \/ pc = "keys" /\ (u[1] < p \/ (u[1] = p /\ u[2] \notin left))
    \/ pc \in {"run", "register", "done", "failed"}

\* What the entry and the key of u contribute is there.
Written(u) ==
    /\ FileOf(u) \in DOMAIN fs /\ fs[FileOf(u)] = PatchOf(u)
    /\ \E n \in DOMAIN patches : /\ patches[n].path = FileOf(u)
                                 /\ patches[n].target = in.specs[u[1]].target

\* A weak type of the loop variables.
Loop ==
    /\ in.specs \in Seq(PatchSpec)
    /\ p \in Nat /\ patches \in Seq([path : File, target : Target])
    /\ pc = "keys" => /\ p \in DOMAIN in.specs
                      /\ left \subseteq DOMAIN in.secrets[in.specs[p].ref]

AllWritten == \A u \in Uses : Passed(u) => Written(u)

Inv == Loop /\ (NamesDiffer => AllWritten)

-----------------------------------------------------------------------------
LEMMA UsesType ==
    \A u \in Uses : /\ u[1] \in DOMAIN in.specs /\ u[2] \in Key
                    /\ u[2] \in DOMAIN in.secrets[in.specs[u[1]].ref]
BY DEF Uses

\* The secrets have the types that the file names need.
LEMMA InputType ==
    ASSUME in \in Inputs
    PROVE  /\ in.specs \in Seq(PatchSpec)
           /\ \A u \in Uses : /\ in.specs[u[1]].ref \in Ref /\ in.specs[u[1]].target \in Target
                              /\ FileOf(u) \in File
<1>1. in.specs \in Seq(PatchSpec)
  BY RenderingConstants
<1>2. ASSUME NEW u \in Uses
      PROVE  /\ in.specs[u[1]].ref \in Ref /\ in.specs[u[1]].target \in Target
             /\ FileOf(u) \in File
  <2>1. in.specs[u[1]] \in PatchSpec
    BY <1>1, UsesType
  <2>2. in.specs[u[1]].ref \in Ref /\ in.specs[u[1]].target \in Target
    BY <2>1 DEF PatchSpec
  <2>3. in.specs[u[1]].ref \in Seq(Word) /\ u[2] \in Seq(Word)
    BY <2>2, UsesType, RenderingConstants
  <2>4. <<"patch", "ref">> \in Seq(Word)
    BY RenderingConstants
  <2> QED
    BY <2>2, <2>3, <2>4 DEF FileOf, PatchFile, File
<1> QED
  BY <1>1, <1>2

LEMMA InvInit == Init => Inv
<1> SUFFICES ASSUME Init PROVE Inv
  OBVIOUS
<1>1. in.specs \in Seq(PatchSpec)
  BY InputType DEF Init
<1> QED
  BY <1>1 DEF Init, Inv, Loop, AllWritten, Passed

\* What does not write to the file system leaves what is written.
LEMMA WrittenStays ==
    ASSUME UNCHANGED <<in, fs, patches>>, NEW u
    PROVE  Written(u) <=> Written(u)'
BY DEF Written, FileOf, PatchOf

LEMMA AddResourceStep ==
    ASSUME Inv, AddResource PROVE Inv'
BY DEF Inv, Loop, NamesDiffer, AllWritten, Passed, AddResource, Uses, FileOf

LEMMA NextPatchStep ==
    ASSUME Inv, NextPatch PROVE Inv'
<1> USE DEF Inv
<1>1. in' = in /\ fs' = fs /\ patches' = patches
  BY DEF NextPatch
<1>2. NamesDiffer' <=> NamesDiffer
  BY <1>1 DEF NamesDiffer, Uses, FileOf
<1>3. Uses' = Uses
  BY <1>1 DEF Uses
<1>4. DOMAIN in.specs = 1..Len(in.specs) /\ Len(in.specs) \in Nat
  BY DEF Loop
<1>5. Loop'
  <2>1. p' \in Nat
    BY DEF NextPatch, Loop
  <2>2. ASSUME pc' = "keys"
        PROVE  p' \in DOMAIN in.specs /\ left' = DOMAIN in.secrets[in.specs[p'].ref]
    BY <1>4, <2>2, <2>1 DEF NextPatch, Loop
  <2> QED
    BY <1>1, <2>1, <2>2 DEF Loop
<1>6. ASSUME NamesDiffer, NEW u \in Uses, Passed(u)'
      PROVE  Passed(u)
  <2>1. u[1] \in 1..Len(in.specs) /\ u[2] \in DOMAIN in.secrets[in.specs[u[1]].ref]
    BY <1>4, UsesType
  <2>2. CASE pc = "resources"
    BY <1>4, <1>6, <2>1, <2>2 DEF NextPatch, Passed, Loop
  <2>3. CASE pc = "keys" /\ left = {} /\ p' = p + 1
    <3>1. u[1] < p \/ u[1] = p
      BY <1>4, <1>6, <2>1, <2>3 DEF NextPatch, Passed, Loop
    <3> QED
      BY <2>3, <3>1 DEF Passed
  <2> QED
    BY <2>2, <2>3 DEF NextPatch
<1> QED
  BY <1>1, <1>2, <1>3, <1>5, <1>6, WrittenStays DEF AllWritten

LEMMA UsesStay ==
    ASSUME in' = in PROVE (NamesDiffer' <=> NamesDiffer) /\ Uses' = Uses
BY DEF NamesDiffer, Uses, FileOf

LEMMA AddPatchStep ==
    ASSUME Inv, in \in Inputs, NEW key \in Key, AddPatch(key) PROVE Inv'
<1> USE DEF Inv
<1> DEFINE spec == in.specs[p]
           file == PatchFile(spec.ref, key)
<1>1. /\ pc = "keys" /\ pc' = "keys" /\ key \in left /\ p' = p /\ in' = in
      /\ left' = left \ {key}
      /\ fs' = Write(fs, file, in.secrets[spec.ref][key])
      /\ patches' = Append(patches, [path |-> file, target |-> spec.target])
  BY DEF AddPatch
<1>2. spec \in PatchSpec
  BY <1>1 DEF Loop
<1>3. spec.ref \in Seq(Word) /\ key \in Seq(Word) /\ spec.target \in Target
  BY <1>2, RenderingConstants DEF PatchSpec
<1>4. <<"patch", "ref">> \in Seq(Word)
  BY RenderingConstants
<1>5. file \in File
  BY <1>3, <1>4 DEF PatchFile, File
<1>6. [path |-> file, target |-> spec.target] \in [path : File, target : Target]
  BY <1>3, <1>5
<1>7. Loop'
  BY <1>1, <1>6 DEF Loop
<1>8. ASSUME NamesDiffer, NEW u \in Uses, Passed(u)'
      PROVE  Written(u)'
  <2>1. u[1] \in DOMAIN in.specs /\ u[2] \in Key
    BY UsesType
  <2>2. FileOf(u)' = FileOf(u) /\ PatchOf(u)' = PatchOf(u)
    BY <1>1 DEF FileOf, PatchOf
  <2> HIDE DEF file
  <2>3. CASE u[1] = p /\ u[2] = key
    <3>1. FileOf(u) = file /\ PatchOf(u) = in.secrets[spec.ref][key]
      BY <2>3 DEF FileOf, PatchOf, file
    <3>2. patches'[Len(patches')].path = file /\ patches'[Len(patches')].target = spec.target
          /\ Len(patches') \in DOMAIN patches'
      BY <1>1, <1>6 DEF Loop
    <3> QED
      BY <1>1, <2>2, <2>3, <3>1, <3>2 DEF Written, Write
  <2>4. CASE ~(u[1] = p /\ u[2] = key)
    <3>1. Passed(u)
      BY <1>1, <1>8, <2>1, <2>4 DEF Passed, Loop
    <3>2. Written(u)
      BY <1>8, <3>1 DEF AllWritten
    <3>3. FileOf(u) \in DOMAIN fs' /\ fs'[FileOf(u)] = PatchOf(u)
      <4>1. CASE FileOf(u) # file
        BY <1>1, <3>2, <4>1 DEF Written, Write
      <4>2. CASE FileOf(u) = file
        <5> DEFINE v == <<p, key>>
        <5>1. v \in Uses
          BY <1>1 DEF Uses, Loop
        <5>2. FileOf(v) = file
          BY DEF FileOf, file
        <5>3. in.specs[u[1]].ref = spec.ref /\ u[2] = key
          BY <1>8, <4>2, <5>1, <5>2 DEF NamesDiffer
        <5> QED
          BY <1>1, <4>2, <5>3 DEF Write, PatchOf
      <4> QED
        BY <4>1, <4>2
    <3>4. PICK n \in DOMAIN patches : /\ patches[n].path = FileOf(u)
                                      /\ patches[n].target = in.specs[u[1]].target
      BY <3>2 DEF Written
    <3>5. n \in DOMAIN patches' /\ patches'[n] = patches[n]
      BY <1>1, <1>6 DEF Loop
    <3> QED
      BY <1>1, <2>2, <3>3, <3>4, <3>5 DEF Written
  <2> QED
    BY <2>3, <2>4
<1>9. (NamesDiffer' <=> NamesDiffer) /\ Uses' = Uses
  BY <1>1, UsesStay
<1> QED
  BY <1>7, <1>8, <1>9 DEF AllWritten

LEMMA OtherSteps ==
    ASSUME Inv, Kustomize \/ Register \/ UNCHANGED vars PROVE Inv'
<1>1. in' = in /\ fs' = fs /\ patches' = patches /\ p' = p /\ left' = left
  BY DEF Kustomize, Register, vars
<1>2. Loop'
  BY <1>1 DEF Inv, Loop, Kustomize, Register, vars
<1>3. (NamesDiffer' <=> NamesDiffer) /\ Uses' = Uses
  BY <1>1 DEF NamesDiffer, Uses, FileOf
<1>4. ASSUME NEW u \in Uses, Passed(u)' PROVE Passed(u)
  BY <1>1, <1>4 DEF Passed, Kustomize, Register, vars
<1> QED
  BY <1>1, <1>2, <1>3, <1>4, WrittenStays DEF Inv, AllWritten

LEMMA InvStep ==
    ASSUME Inv, in \in Inputs, [Next]_vars PROVE Inv'
BY AddResourceStep, NextPatchStep, AddPatchStep, OtherSteps DEF Next

LEMMA InputStays == Spec => [](in \in Inputs)
<1>1. Init => in \in Inputs
  BY DEF Init
<1>2. in \in Inputs /\ [Next]_vars => (in \in Inputs)'
  BY DEF Next, vars, AddResource, NextPatch, AddPatch, Kustomize, Register
<1> QED
  BY <1>1, <1>2, PTL DEF Spec

LEMMA InvHolds == Inv => HasAllPatchesIfNamesDiffer
<1> SUFFICES ASSUME Inv, NamesDiffer, pc \in {"run", "register", "done"}, NEW u \in Uses
             PROVE  \E n \in DOMAIN patches :
                       /\ patches[n].target = in.specs[u[1]].target
                       /\ fs[patches[n].path] = PatchOf(u)
  BY DEF HasAllPatchesIfNamesDiffer, HasAllPatches
<1>1. Written(u)
  BY DEF Inv, AllWritten, Passed
<1> QED
  BY <1>1 DEF Written

\* Whatever a pack, its patches and their secrets are, kustomize gets every
\* patch with its content and its target, as long as no two names of secrets
\* and keys join to the same file name.
THEOREM PatchesComplete == Spec => []HasAllPatchesIfNamesDiffer
<1>1. Init => Inv
  BY InvInit
<1>2. Inv /\ in \in Inputs /\ [Next]_vars => Inv'
  BY InvStep
<1>3. Inv => HasAllPatchesIfNamesDiffer
  BY InvHolds
<1> QED
  BY <1>1, <1>2, <1>3, InputStays, PTL DEF Spec

-----------------------------------------------------------------------------
\* Equal concatenations have equal parts if the first parts are as long.
LEMMA SplitEqual ==
    ASSUME NEW a \in Seq(Word), NEW b \in Seq(Word), NEW c \in Seq(Word), NEW d \in Seq(Word),
           Len(a) = Len(c), a \o b = c \o d
    PROVE  a = c /\ b = d
<1>1. Len(a) \in Nat /\ Len(b) \in Nat /\ Len(d) \in Nat
  BY LenProperties
<1>2. /\ Len(a \o b) = Len(a) + Len(b)
      /\ \A x \in 1..(Len(a) + Len(b)) :
            (a \o b)[x] = IF x <= Len(a) THEN a[x] ELSE b[x - Len(a)]
  BY ConcatProperties
<1>3. /\ Len(c \o d) = Len(c) + Len(d)
      /\ \A x \in 1..(Len(c) + Len(d)) :
            (c \o d)[x] = IF x <= Len(c) THEN c[x] ELSE d[x - Len(c)]
  BY ConcatProperties
<1>4. Len(b) = Len(d)
  BY <1>1, <1>2, <1>3
<1>5. ASSUME NEW x \in 1..Len(a) PROVE a[x] = c[x]
  BY <1>1, <1>2, <1>3, <1>4
<1>6. ASSUME NEW x \in 1..Len(b) PROVE b[x] = d[x]
  <2>1. /\ Len(a) + x \in 1..(Len(a) + Len(b)) /\ ~(Len(a) + x <= Len(a))
        /\ (Len(a) + x) - Len(a) = x
    BY <1>1
  <2> QED
    BY <1>2, <1>3, <1>4, <2>1
<1>7. a = c
  BY <1>5, SeqEqual
<1>8. b = d
  BY <1>4, <1>6, SeqEqual
<1> QED
  BY <1>7, <1>8

\* File names tell apart the keys of secrets whose names have as many words.
LEMMA PatchFileInjective ==
    ASSUME NEW r \in Seq(Word), NEW q \in Seq(Word), NEW k \in Seq(Word), NEW m \in Seq(Word),
           Len(r) = Len(q), PatchFile(r, k) = PatchFile(q, m)
    PROVE  r = q /\ k = m
<1> DEFINE h == <<"patch", "ref">>
<1>1. (h \o r) \o k = (h \o q) \o m
  BY DEF PatchFile
<1>2. h \in Seq(Word)
  BY RenderingConstants
<1> HIDE DEF h
<1>3. /\ h \o r \in Seq(Word) /\ Len(h \o r) = Len(h) + Len(r)
      /\ h \o q \in Seq(Word) /\ Len(h \o q) = Len(h) + Len(q)
  BY <1>2, ConcatProperties
<1>4. h \o r = h \o q /\ k = m
  BY <1>1, <1>3, SplitEqual
<1>5. r = q
  BY <1>2, <1>4, SplitEqual
<1> QED
  BY <1>4, <1>5

\* When the names of all referenced resources have as many dashes, none for
\* example, no patch is ever lost or used for the target of another.
THEOREM SameWordsComplete ==
    ASSUME \A r, q \in Ref : Len(r) = Len(q)
    PROVE  Spec => []HasAllPatches
<1>1. in \in Inputs => NamesDiffer
  <2> SUFFICES ASSUME in \in Inputs, NEW u \in Uses, NEW v \in Uses, FileOf(u) = FileOf(v)
               PROVE  in.specs[u[1]].ref = in.specs[v[1]].ref /\ u[2] = v[2]
    BY DEF NamesDiffer
  <2>1. /\ in.specs[u[1]].ref \in Ref /\ in.specs[v[1]].ref \in Ref
        /\ u[2] \in Key /\ v[2] \in Key
    BY InputType, UsesType
  <2>2. Ref \subseteq Seq(Word) /\ Key \subseteq Seq(Word)
    BY RenderingConstants
  <2> QED
    BY <2>1, <2>2, PatchFileInjective DEF FileOf
<1>2. in \in Inputs /\ HasAllPatchesIfNamesDiffer => HasAllPatches
  BY <1>1 DEF HasAllPatchesIfNamesDiffer
<1> QED
  BY <1>2, InputStays, PatchesComplete, PTL

-----------------------------------------------------------------------------
(* Numbers *)

\* A set of numbers has a least one.
LEMMA LeastNat == \A T \in SUBSET Nat : T # {} => \E x \in T : \A y \in T : x <= y
<1> SUFFICES ASSUME NEW T \in SUBSET Nat, T # {} PROVE \E x \in T : \A y \in T : x <= y
  OBVIOUS
<1> DEFINE R == OpToRel(<, Nat)
<1>1. R = {ss \in Nat \X Nat : ss[1] < ss[2]}
  BY DEF OpToRel
<1>2. IsWellFoundedOn(R, Nat)
  BY NatLessThanWellFounded
<1> HIDE DEF R
<1>3. PICK x \in T : \A y \in T : ~ (<<y, x>> \in R)
  BY <1>2, WFMin
<1>4. ASSUME NEW y \in T PROVE x <= y
  <2>1. x \in Nat /\ y \in Nat /\ <<y, x>> \notin R
    BY <1>3
  <2>2. <<y, x>> \in Nat \X Nat /\ ~(<<y, x>>[1] < <<y, x>>[2])
    BY <1>1, <2>1
  <2>3. ~(y < x)
    BY <2>2
  <2> QED
    BY <2>1, <2>3
<1> QED
  BY <1>4

\* A set of numbers up to n has a greatest one.
LEMMA GreatestUpTo ==
    ASSUME NEW n \in Nat, NEW T \in SUBSET (0..n), T # {}
    PROVE  \E x \in T : \A y \in T : y <= x
<1> DEFINE D == {n - x : x \in T}
<1>1. D \in SUBSET Nat /\ D # {}
  <2>1. \A x \in T : n - x \in Nat
    OBVIOUS
  <2> QED
    BY <2>1
<1>2. PICK z \in D : \A y \in D : z <= y
  BY <1>1, LeastNat
<1>3. PICK x \in T : z = n - x
  BY <1>2
<1>4. \A y \in T : n - x <= n - y
  BY <1>2, <1>3
<1> QED
  BY <1>4

-----------------------------------------------------------------------------
(* What kustomize makes of the objects *)

\* After is what it is defined by: for any number of patches there is such a
\* function.
Unfolds(g, m) == g = [n \in 0..m |-> IF n = 0 THEN Objects ELSE PatchedBy(n, g[n - 1])]

LEMMA UnfoldsExists == \A m \in Nat : \E g : Unfolds(g, m)
<1> DEFINE Bad == {m \in Nat : ~ \E g : Unfolds(g, m)}
<1>1. SUFFICES ASSUME Bad # {} PROVE FALSE
  OBVIOUS
<1>2. PICK m \in Bad : \A y \in Bad : m <= y
  BY <1>1, LeastNat
<1>3. CASE m = 0
  <2>1. Unfolds([n \in 0..0 |-> Objects], 0)
    BY DEF Unfolds
  <2> QED
    BY <1>3, <2>1
<1>4. CASE m # 0
  <2>1. m - 1 \in Nat /\ m - 1 \notin Bad
    BY <1>2, <1>4
  <2>2. PICK g : Unfolds(g, m - 1)
    BY <2>1
  <2> DEFINE h == [n \in 0..m |-> IF n = m THEN PatchedBy(m, g[m - 1]) ELSE g[n]]
  <2>3. /\ g[0] = Objects
        /\ \A n \in 1..(m - 1) : g[n] = PatchedBy(n, g[n - 1])
    BY <2>1, <2>2 DEF Unfolds
  <2>4. \A n \in 0..m : h[n] = IF n = 0 THEN Objects ELSE PatchedBy(n, h[n - 1])
    BY <2>1, <2>3, <1>4
  <2>5. Unfolds(h, m)
    BY <2>4 DEF Unfolds
  <2> QED
    BY <2>5, <1>2
<1> QED
  BY <1>3, <1>4

LEMMA AfterUnfolds ==
    ASSUME Len(patches) \in Nat
    PROVE  /\ After[0] = Objects
           /\ \A n \in 1..Len(patches) : After[n] = PatchedBy(n, After[n - 1])
<1>1. \E g : Unfolds(g, Len(patches))
  BY UnfoldsExists
<1>2. After = CHOOSE g : Unfolds(g, Len(patches))
  BY DEF After, Unfolds
<1>3. Unfolds(After, Len(patches))
  BY <1>1, <1>2
<1> QED
  BY <1>3 DEF Unfolds

\* Patch n gives field f of object k a value.
PatchN(n) == fs[patches[n].path]
SetBy(n, k, f) ==
    Selects(PatchN(n), patches[n].target, Objects[k].id) /\ PatchN(n).set[f] # Keep

\* What kustomize is given.
Rendered ==
    /\ Len(patches) \in Nat
    /\ \A k \in DOMAIN Objects : Objects[k] \in Object
    /\ \A n \in 1..Len(patches) : PatchN(n) \in Patch

\* An object after the first n patches: the last one that sets a field has set
\* it.
FieldIs(n, k, f) ==
    /\ (\A m \in 1..n : ~SetBy(m, k, f)) => After[n][k].fields[f] = Objects[k].fields[f]
    /\ \A m \in 1..n :
          SetBy(m, k, f) /\ (\A j \in 1..n : m < j => ~SetBy(j, k, f)) =>
              After[n][k].fields[f] = PatchN(m).set[f]

Patched(n) ==
    /\ DOMAIN After[n] = DOMAIN Objects
    /\ \A k \in DOMAIN Objects :
          /\ After[n][k] \in Object /\ After[n][k].id = Objects[k].id
          /\ \A f \in Field : FieldIs(n, k, f)

\* One patch.
LEMMA OverrideType ==
    ASSUME NEW obj \in Object, NEW patch \in Patch
    PROVE  /\ [obj EXCEPT !.fields = Override(@, patch.set)] \in Object
           /\ [obj EXCEPT !.fields = Override(@, patch.set)].id = obj.id
           /\ \A f \in Field : [obj EXCEPT !.fields = Override(@, patch.set)].fields[f]
                                 = IF patch.set[f] = Keep THEN obj.fields[f] ELSE patch.set[f]
BY DEF Object, Patch, Override

LEMMA PatchedObject ==
    ASSUME Rendered, NEW n \in 1..Len(patches), Patched(n - 1), NEW k \in DOMAIN Objects
    PROVE  /\ DOMAIN After[n] = DOMAIN Objects
           /\ After[n][k] \in Object /\ After[n][k].id = Objects[k].id
           /\ \A f \in Field : After[n][k].fields[f] =
                 IF SetBy(n, k, f) THEN PatchN(n).set[f] ELSE After[n - 1][k].fields[f]
<1> DEFINE old == After[n - 1][k]
<1>1. After[n] = PatchedBy(n, After[n - 1])
  BY AfterUnfolds DEF Rendered
<1>2. /\ DOMAIN After[n - 1] = DOMAIN Objects
      /\ old \in Object /\ old.id = Objects[k].id /\ PatchN(n) \in Patch
  BY DEF Patched, Rendered
<1>3. /\ DOMAIN After[n] = DOMAIN Objects
      /\ After[n][k] = IF Selects(PatchN(n), patches[n].target, old.id)
                       THEN [old EXCEPT !.fields = Override(@, PatchN(n).set)] ELSE old
  BY <1>1, <1>2 DEF PatchedBy, PatchN
<1> HIDE DEF old
<1>4. CASE Selects(PatchN(n), patches[n].target, old.id)
  <2>1. /\ After[n][k] \in Object /\ After[n][k].id = old.id
        /\ \A f \in Field : After[n][k].fields[f] =
              IF PatchN(n).set[f] = Keep THEN old.fields[f] ELSE PatchN(n).set[f]
    BY <1>2, <1>3, <1>4, OverrideType
  <2> QED
    BY <1>2, <1>3, <1>4, <2>1 DEF SetBy, old
<1>5. CASE ~Selects(PatchN(n), patches[n].target, old.id)
  BY <1>2, <1>3, <1>5 DEF SetBy, old
<1> QED
  BY <1>4, <1>5

LEMMA PatchedAll == Rendered => \A n \in 0..Len(patches) : Patched(n)
<1> SUFFICES ASSUME Rendered PROVE \A n \in 0..Len(patches) : Patched(n)
  OBVIOUS
<1> DEFINE Bad == {n \in 0..Len(patches) : ~Patched(n)}
<1>1. SUFFICES ASSUME Bad # {} PROVE FALSE
  OBVIOUS
<1>2. Bad \in SUBSET Nat /\ Len(patches) \in Nat
  BY DEF Rendered
<1>3. PICK n \in Bad : \A y \in Bad : n <= y
  BY <1>1, <1>2, LeastNat
<1>4. CASE n = 0
  <2>1. After[0] = Objects
    BY <1>2, AfterUnfolds
  <2>2. Patched(0)
    BY <2>1 DEF Patched, FieldIs, Rendered
  <2> QED
    BY <1>3, <1>4, <2>2
<1>5. CASE n # 0
  <2>1. n \in 1..Len(patches) /\ n - 1 \in 0..Len(patches) /\ n - 1 \notin Bad
    BY <1>2, <1>3, <1>5
  <2>2. Patched(n - 1)
    BY <2>1
  <2>3. ASSUME NEW k \in DOMAIN Objects, NEW f \in Field PROVE FieldIs(n, k, f)
    <3>1. After[n][k].fields[f] =
             IF SetBy(n, k, f) THEN PatchN(n).set[f] ELSE After[n - 1][k].fields[f]
      BY <2>1, <2>2, <2>3, PatchedObject
    <3>2. FieldIs(n - 1, k, f)
      BY <2>2, <2>3 DEF Patched
    <3>3. 1..n = 1..(n - 1) \cup {n} /\ \A m \in 1..(n - 1) : m < n
      BY <2>1
    <3>4. CASE SetBy(n, k, f)
      <4>1. ASSUME NEW m \in 1..n, \A j \in 1..n : m < j => ~SetBy(j, k, f) PROVE m = n
        BY <4>1, <3>3, <3>4
      <4> QED
        BY <3>1, <3>3, <3>4, <4>1 DEF FieldIs
    <3>5. CASE ~SetBy(n, k, f)
      <4>1. After[n][k].fields[f] = After[n - 1][k].fields[f]
        BY <3>1, <3>5
      <4>2. ASSUME NEW m \in 1..n, SetBy(m, k, f), \A j \in 1..n : m < j => ~SetBy(j, k, f)
            PROVE  After[n][k].fields[f] = PatchN(m).set[f]
        <5>1. m \in 1..(n - 1) /\ \A j \in 1..(n - 1) : m < j => ~SetBy(j, k, f)
          BY <4>2, <3>3, <3>5
        <5> QED
          BY <5>1, <4>1, <4>2, <3>2 DEF FieldIs
      <4>3. (\A m \in 1..n : ~SetBy(m, k, f)) =>
                After[n][k].fields[f] = Objects[k].fields[f]
        BY <4>1, <3>2, <3>3 DEF FieldIs
      <4> QED
        BY <4>2, <4>3 DEF FieldIs
    <3> QED
      BY <3>4, <3>5
  <2>4. Patched(n)
    <3>1. DOMAIN After[n] = DOMAIN Objects
      BY <2>1, <2>2, AfterUnfolds, <1>2 DEF Patched, PatchedBy
    <3> QED
      BY <3>1, <2>1, <2>2, <2>3, PatchedObject DEF Patched
  <2> QED
    BY <1>3, <2>4
<1> QED
  BY <1>4, <1>5

-----------------------------------------------------------------------------
(* The files *)

\* The pack has no file and no object twice, which kustomize would refuse (it
\* moves all of them to one namespace), and no file that is named like one of
\* the patches.
SoundPack ==
    /\ \A x, y \in DOMAIN in.pack :
          x # y => /\ in.pack[x].file # in.pack[y].file
                   /\ in.pack[x].obj.id # in.pack[y].obj.id
    /\ \A x \in DOMAIN in.pack, u \in Uses : in.pack[x].file # FileOf(u)

\* The loop over the resources.
ResourceLoop ==
    /\ resources \in Seq(File) /\ Len(resources) <= Len(in.pack)
    /\ pc # "resources" => Len(resources) = Len(in.pack)
    /\ \A k \in DOMAIN resources : resources[k] = in.pack[k].file

ResourcesWritten ==
    \A k \in DOMAIN resources : /\ in.pack[k].file \in DOMAIN fs
                                /\ fs[in.pack[k].file] = in.pack[k].obj

\* The list of patches is a list of uses, in the order of the entries, and has
\* all that the loop has passed.
Traces(src) ==
    /\ src \in Seq(Uses) /\ Len(src) = Len(patches)
    /\ \A n \in DOMAIN src : /\ patches[n].path = FileOf(src[n])
                             /\ patches[n].target = in.specs[src[n][1]].target
                             /\ Passed(src[n])
    /\ \A m, n \in DOMAIN src : m <= n => src[m][1] <= src[n][1]
    /\ \A u \in Uses : Passed(u) => \E n \in DOMAIN src : src[n] = u

Traced == \E src : Traces(src)

FileInv == /\ ResourceLoop
           /\ SoundPack => ResourcesWritten
           /\ Traced

LEMMA PackType ==
    ASSUME in \in Inputs
    PROVE  /\ in.pack \in Seq(Resource)
           /\ Len(in.pack) \in Nat /\ DOMAIN in.pack = 1..Len(in.pack)
           /\ \A k \in DOMAIN in.pack : in.pack[k].file \in File /\ in.pack[k].obj \in Object
<1>1. in.pack \in Seq(Resource)
  BY RenderingConstants
<1>2. Len(in.pack) \in Nat /\ DOMAIN in.pack = 1..Len(in.pack)
  BY <1>1, LenProperties
<1>3. \A k \in DOMAIN in.pack : in.pack[k] \in Resource
  BY <1>1, <1>2, ElementOfSeq
<1> QED
  BY <1>1, <1>2, <1>3 DEF Resource

\* Whatever depends on the input only.
LEMMA InputKept ==
    ASSUME in' = in
    PROVE  /\ Uses' = Uses /\ SoundPack' = SoundPack
           /\ \A u : FileOf(u)' = FileOf(u) /\ PatchOf(u)' = PatchOf(u)
BY DEF Uses, SoundPack, FileOf, PatchOf

LEMMA FileInvInit == Init => FileInv
<1> SUFFICES ASSUME Init PROVE FileInv
  OBVIOUS
<1>1. /\ in \in Inputs /\ resources = <<>> /\ patches = <<>> /\ pc = "resources"
  BY DEF Init
<1>2. Len(resources) = 0 /\ resources \in Seq(File) /\ DOMAIN resources = {}
  BY <1>1, EmptySeq
<1>3. ResourceLoop /\ ResourcesWritten
  BY <1>1, <1>2, PackType DEF ResourceLoop, ResourcesWritten
<1>4. Traces(<<>>)
  <2>1. <<>> \in Seq(Uses) /\ Len(<<>>) = 0
    BY EmptySeq
  <2>2. \A u \in Uses : ~Passed(u)
    BY <1>1 DEF Passed
  <2>3. DOMAIN <<>> = {}
    BY <1>1, <1>2
  <2> QED
    BY <1>1, <2>1, <2>2, <2>3 DEF Traces
<1> QED
  BY <1>3, <1>4 DEF FileInv, Traced

\* What the loops have passed stays so; it is all that the trace depends on.
LEMMA TraceStays ==
    ASSUME in' = in, patches' = patches, \A u \in Uses : Passed(u)' <=> Passed(u), Traced
    PROVE  Traced'
<1>1. PICK src : Traces(src)
  BY DEF Traced
<1>2. \A n \in DOMAIN src : src[n] \in Uses
  BY <1>1, ElementOfSeq, LenProperties DEF Traces
<1>3. Traces(src)'
  BY <1>1, <1>2, InputKept DEF Traces
<1> QED
  BY <1>3 DEF Traced

LEMMA AddResourceFiles ==
    ASSUME in \in Inputs, FileInv, AddResource PROVE FileInv'
<1> DEFINE x == Len(resources) + 1
           r == in.pack[x]
<1>1. /\ pc = "resources" /\ Len(resources) < Len(in.pack)
      /\ fs' = Write(fs, r.file, r.obj) /\ resources' = Append(resources, r.file)
      /\ UNCHANGED <<in, pc, patches, p, left>>
  BY DEF AddResource
<1>2. /\ resources \in Seq(File) /\ Len(resources) \in Nat /\ DOMAIN resources = 1..Len(resources)
      /\ \A k \in DOMAIN resources : resources[k] = in.pack[k].file
  BY LenProperties DEF FileInv, ResourceLoop
<1>3. x \in DOMAIN in.pack /\ r.file \in File /\ x \in Nat
  BY <1>1, <1>2, PackType
<1>4. /\ resources' \in Seq(File) /\ Len(resources') = x /\ DOMAIN resources' = 1..x
      /\ \A k \in DOMAIN resources : resources'[k] = resources[k]
      /\ resources'[x] = r.file
      /\ DOMAIN resources' = DOMAIN resources \cup {x}
  <2>1. /\ resources' \in Seq(File) /\ Len(resources') = x
        /\ \A k \in 1..Len(resources) : resources'[k] = resources[k]
        /\ resources'[x] = r.file
    BY <1>1, <1>2, <1>3, AppendProperties
  <2>2. DOMAIN resources' = 1..x
    BY <2>1, LenProperties
  <2>3. 1..x = 1..Len(resources) \cup {x}
    BY <1>2
  <2> QED
    BY <1>2, <2>1, <2>2, <2>3
<1>5. ResourceLoop'
  <2>1. Len(resources') <= Len(in'.pack)
    BY <1>1, <1>2, <1>4, PackType
  <2>2. \A k \in DOMAIN resources' : resources'[k] = in'.pack[k].file
    BY <1>1, <1>2, <1>4
  <2> QED
    BY <1>1, <1>4, <2>1, <2>2 DEF ResourceLoop
<1>6. SoundPack' => ResourcesWritten'
  <2> SUFFICES ASSUME SoundPack, NEW k \in DOMAIN resources'
               PROVE  in.pack[k].file \in DOMAIN fs' /\ fs'[in.pack[k].file] = in.pack[k].obj
    BY <1>1, InputKept DEF ResourcesWritten
  <2>1. CASE k = x
    BY <2>1, <1>1 DEF Write
  <2>2. CASE k # x
    <3>1. k \in DOMAIN resources /\ k \in DOMAIN in.pack
      BY <2>2, <1>1, <1>2, <1>4, PackType
    <3>2. in.pack[k].file # r.file
      BY <2>2, <3>1, <1>3 DEF SoundPack
    <3>3. in.pack[k].file \in DOMAIN fs /\ fs[in.pack[k].file] = in.pack[k].obj
      BY <3>1 DEF FileInv, ResourcesWritten
    <3> QED
      BY <3>2, <3>3, <1>1 DEF Write
  <2> QED
    BY <2>1, <2>2
<1>7. Traced'
  BY <1>1, TraceStays DEF FileInv, Passed
<1> QED
  BY <1>5, <1>6, <1>7 DEF FileInv

LEMMA NextPatchFiles ==
    ASSUME in \in Inputs, Inv, FileInv, NextPatch PROVE FileInv'
<1>1. UNCHANGED <<in, fs, resources, patches>>
  BY DEF NextPatch
<1>2. /\ DOMAIN in.specs = 1..Len(in.specs) /\ Len(in.specs) \in Nat /\ p \in Nat
  BY DEF Inv, Loop
<1>3. ResourceLoop'
  <2>1. pc # "resources" \/ Len(resources) = Len(in.pack)
    BY DEF NextPatch
  <2> QED
    BY <1>1, <2>1 DEF FileInv, ResourceLoop
<1>4. SoundPack' => ResourcesWritten'
  BY <1>1, InputKept DEF FileInv, ResourcesWritten
<1>5. ASSUME NEW u \in Uses PROVE Passed(u)' <=> Passed(u)
  <2>1. u[1] \in 1..Len(in.specs) /\ u[2] \in DOMAIN in.secrets[in.specs[u[1]].ref]
    BY <1>2, UsesType
  <2>2. /\ p' \in Nat
        /\ \/ p' <= Len(in.specs) /\ pc' = "keys"
              /\ left' = DOMAIN in.secrets[in.specs[p'].ref]
           \/ ~(p' <= Len(in.specs)) /\ pc' = "run"
    BY <1>2 DEF NextPatch
  <2>3. CASE pc = "resources" /\ p' = 1
    <3>1. ~Passed(u)
      BY <2>3 DEF Passed
    <3>2. ~(u[1] < p') /\ p' <= Len(in.specs)
      BY <1>2, <2>1, <2>3
    <3>3. ~Passed(u)'
      BY <2>1, <2>2, <3>2 DEF Passed
    <3> QED
      BY <3>1, <3>3
  <2>4. CASE pc = "keys" /\ left = {} /\ p' = p + 1
    <3>1. Passed(u) <=> u[1] <= p
      BY <1>2, <2>1, <2>4 DEF Passed
    <3>2. u[1] <= p <=> u[1] < p'
      BY <1>2, <2>1, <2>4
    <3>3. CASE p' <= Len(in.specs)
      BY <2>1, <2>2, <3>1, <3>2, <3>3 DEF Passed
    <3>4. CASE ~(p' <= Len(in.specs))
      <4>1. u[1] < p'
        BY <1>2, <2>1, <2>2, <3>4
      <4> QED
        BY <2>2, <3>1, <3>2, <3>4, <4>1 DEF Passed
    <3> QED
      BY <3>3, <3>4
  <2> QED
    BY <2>3, <2>4 DEF NextPatch
<1>6. Traced'
  BY <1>1, <1>5, TraceStays DEF FileInv
<1> QED
  BY <1>3, <1>4, <1>6 DEF FileInv

LEMMA AddPatchFiles ==
    ASSUME in \in Inputs, Inv, FileInv, NEW key \in Key, AddPatch(key) PROVE FileInv'
<1> DEFINE spec == in.specs[p]
           file == PatchFile(spec.ref, key)
           new  == <<p, key>>
           line == [path |-> file, target |-> spec.target]
<1>1. /\ pc = "keys" /\ pc' = "keys" /\ key \in left /\ p' = p /\ in' = in
      /\ resources' = resources /\ left' = left \ {key}
      /\ fs' = Write(fs, file, in.secrets[spec.ref][key])
      /\ patches' = Append(patches, line)
  BY DEF AddPatch
<1>2. /\ p \in DOMAIN in.specs /\ p \in Nat /\ left \subseteq DOMAIN in.secrets[spec.ref]
      /\ patches \in Seq([path : File, target : Target])
      /\ DOMAIN in.specs = 1..Len(in.specs) /\ Len(in.specs) \in Nat
  BY <1>1 DEF Inv, Loop
<1>3. new \in Uses /\ FileOf(new) = file /\ new[1] = p
  BY <1>1, <1>2 DEF Uses, FileOf
<1>4. ResourceLoop'
  BY <1>1 DEF FileInv, ResourceLoop
<1>5. SoundPack' => ResourcesWritten'
  <2> SUFFICES ASSUME SoundPack, NEW k \in DOMAIN resources
               PROVE  in.pack[k].file \in DOMAIN fs' /\ fs'[in.pack[k].file] = in.pack[k].obj
    BY <1>1, InputKept DEF ResourcesWritten
  <2>1. k \in DOMAIN in.pack
    BY PackType, LenProperties DEF FileInv, ResourceLoop
  <2>2. in.pack[k].file # file
    BY <1>3, <2>1 DEF SoundPack
  <2>3. in.pack[k].file \in DOMAIN fs /\ fs[in.pack[k].file] = in.pack[k].obj
    BY DEF FileInv, ResourcesWritten
  <2> QED
    BY <1>1, <2>2, <2>3 DEF Write
<1>6. Traced'
  <2>1. PICK src : Traces(src)
    BY DEF FileInv, Traced
  <2>2. /\ src \in Seq(Uses) /\ Len(src) = Len(patches) /\ Len(src) \in Nat
        /\ DOMAIN src = 1..Len(src) /\ DOMAIN patches = 1..Len(src)
        /\ \A n \in DOMAIN src : src[n] \in Uses
    BY <2>1, <1>2, LenProperties, ElementOfSeq DEF Traces
  <2> DEFINE N == Len(src) + 1
  <2>0. PICK src2 : src2 = Append(src, new)
    OBVIOUS
  <2>3. /\ src2 \in Seq(Uses) /\ Len(src2) = N
        /\ \A n \in 1..Len(src) : src2[n] = src[n]
        /\ src2[N] = new
    BY <1>3, <2>2, <2>0, AppendProperties
  <2>4. /\ Len(patches') = N
        /\ \A n \in 1..Len(src) : patches'[n] = patches[n]
        /\ patches'[N] = line
    <3>1. line \in [path : File, target : Target]
      BY <1>3, <1>2, InputType
    <3> QED
      BY <1>1, <1>2, <2>2, <3>1, AppendProperties
  <2>5. DOMAIN src2 = DOMAIN src \cup {N} /\ N \in Nat /\ \A n \in DOMAIN src : n < N
    <3>1. DOMAIN src2 = 1..N
      BY <2>3, LenProperties
    <3> QED
      BY <3>1, <2>2
  <2> HIDE DEF N, new, line, file
  <2>6. \A u \in Uses : Passed(u)' <=> Passed(u) \/ u = new
    <3> SUFFICES ASSUME NEW u \in Uses PROVE Passed(u)' <=> Passed(u) \/ u = new
      OBVIOUS
    <3>1. u = <<u[1], u[2]>> /\ u[1] \in Nat /\ u[2] \in DOMAIN in.secrets[in.specs[u[1]].ref]
      BY <1>2 DEF Uses
    <3>2. u = new <=> u[1] = p /\ u[2] = key
      BY <3>1 DEF new
    <3> QED
      BY <1>1, <1>2, <3>1, <3>2 DEF Passed
  <2>7. \A n \in DOMAIN src : src[n][1] <= p
    BY <1>1, <1>2, <2>1, <2>2, UsesType DEF Traces, Passed
  <2>8. ASSUME NEW n \in DOMAIN src2
        PROVE  /\ patches'[n].path = FileOf(src2[n])
               /\ patches'[n].target = in.specs[src2[n][1]].target
               /\ Passed(src2[n])'
    <3>1. CASE n \in DOMAIN src
      <4>1. src2[n] = src[n] /\ patches'[n] = patches[n] /\ src[n] \in Uses
        BY <3>1, <2>2, <2>3, <2>4
      <4> QED
        BY <3>1, <4>1, <2>1, <2>6 DEF Traces
    <3>2. CASE n = N
      <4>1. patches'[n].path = file /\ patches'[n].target = spec.target /\ src2[n] = new
        BY <3>2, <2>3, <2>4 DEF line
      <4> QED
        BY <4>1, <1>3, <2>6
    <3> QED
      BY <3>1, <3>2, <2>5
  <2>9. ASSUME NEW m \in DOMAIN src2, NEW n \in DOMAIN src2, m <= n
        PROVE  src2[m][1] <= src2[n][1]
    <3>1. CASE n \in DOMAIN src
      <4>1. m \in DOMAIN src
        BY <3>1, <2>5, <2>9, <2>2
      <4> QED
        BY <3>1, <4>1, <2>1, <2>2, <2>3, <2>9 DEF Traces
    <3>2. CASE n = N
      <4>1. src2[n][1] = p
        BY <3>2, <1>3, <2>3
      <4>2. CASE m \in DOMAIN src
        BY <4>1, <4>2, <2>2, <2>3, <2>7
      <4>3. CASE m = N
        BY <3>2, <4>1, <4>3, <1>2
      <4> QED
        BY <4>2, <4>3, <2>5
    <3> QED
      BY <3>1, <3>2, <2>5
  <2>10. ASSUME NEW u \in Uses, Passed(u)' PROVE \E n \in DOMAIN src2 : src2[n] = u
    <3>1. CASE Passed(u)
      <4>1. PICK n \in DOMAIN src : src[n] = u
        BY <3>1, <2>1 DEF Traces
      <4> QED
        BY <4>1, <2>2, <2>3, <2>5
    <3>2. CASE u = new
      BY <3>2, <2>3, <2>5
    <3> QED
      BY <3>1, <3>2, <2>6, <2>10
  <2>11. Traces(src2)'
    BY <1>1, <2>3, <2>4, <2>8, <2>9, <2>10, InputKept DEF Traces
  <2> QED
    BY <2>11 DEF Traced
<1> QED
  BY <1>4, <1>5, <1>6 DEF FileInv

LEMMA OtherFiles ==
    ASSUME FileInv, Kustomize \/ Register \/ UNCHANGED vars PROVE FileInv'
<1>1. /\ UNCHANGED <<in, fs, resources, patches, p, left>>
      /\ pc # "resources" \/ pc' = pc
  BY DEF Kustomize, Register, vars
<1>2. ResourceLoop'
  BY <1>1 DEF FileInv, ResourceLoop
<1>3. SoundPack' => ResourcesWritten'
  BY <1>1, InputKept DEF FileInv, ResourcesWritten
<1>4. \A u \in Uses : Passed(u)' <=> Passed(u)
  BY <1>1 DEF Kustomize, Register, vars, Passed
<1>5. Traced'
  BY <1>1, <1>4, TraceStays DEF FileInv
<1> QED
  BY <1>2, <1>3, <1>5 DEF FileInv

LEMMA FileInvStep ==
    ASSUME in \in Inputs, Inv, FileInv, [Next]_vars PROVE FileInv'
BY AddResourceFiles, NextPatchFiles, AddPatchFiles, OtherFiles DEF Next

-----------------------------------------------------------------------------
(* The objects *)

\* What the loop over the objects leaves.
Registry ==
    LET names   == {FileInRegistry(k - 1) : k \in Kept}
        last(n) == CHOOSE k \in Kept :
                      /\ FileInRegistry(k - 1) = n
                      /\ \A m \in Kept : FileInRegistry(m - 1) = n => m <= k
    IN  [n \in names |-> Labelled(out[last(n)])]

\* What kustomize has returned and what is in the registry.
Delivered ==
    /\ out = IF pc \in {"register", "done"} THEN After[Len(patches)] ELSE <<>>
    /\ data = IF pc = "done" THEN Registry ELSE <<>>

LEMMA DeliveredStep ==
    ASSUME Delivered, [Next]_vars PROVE Delivered'
<1>1. CASE AddResource \/ NextPatch \/ \E key \in Key : AddPatch(key)
  <2>1. /\ pc \notin {"register", "done"} /\ pc' \notin {"register", "done"}
        /\ UNCHANGED <<out, data>>
    BY <1>1 DEF AddResource, NextPatch, AddPatch
  <2> QED
    BY <2>1 DEF Delivered
<1>2. CASE Kustomize
  <2>1. UNCHANGED <<fs, resources, patches, data>> /\ pc = "run" /\ pc' # "done"
    BY <1>2 DEF Kustomize
  <2>2. After' = After
    BY <2>1 DEF After, Objects, PatchedBy
  <2>3. out' = IF pc' \in {"register", "done"} THEN After[Len(patches)] ELSE <<>>
    BY <1>2 DEF Kustomize, Delivered
  <2> QED
    BY <2>1, <2>2, <2>3 DEF Delivered
<1>3. CASE Register
  <2>1. UNCHANGED <<fs, resources, patches, out>> /\ pc = "register" /\ pc' = "done"
    BY <1>3 DEF Register
  <2>2. After' = After
    BY <2>1 DEF After, Objects, PatchedBy
  <2>3. Registry' = Registry
    BY <2>1 DEF Registry, Kept
  <2>4. data' = Registry
    BY <1>3 DEF Register, Registry
  <2> QED
    BY <2>1, <2>2, <2>3, <2>4 DEF Delivered
<1>4. CASE UNCHANGED vars
  <2>1. UNCHANGED <<fs, resources, patches, out, data, pc>>
    BY <1>4 DEF vars
  <2>2. After' = After
    BY <2>1 DEF After, Objects, PatchedBy
  <2>3. Registry' = Registry
    BY <2>1 DEF Registry, Kept
  <2> QED
    BY <2>1, <2>2, <2>3 DEF Delivered
<1> QED
  BY <1>1, <1>2, <1>3, <1>4 DEF Next

-----------------------------------------------------------------------------
(* Types *)

FsInv ==
    /\ DOMAIN fs \subseteq File /\ \A f \in DOMAIN fs : fs[f] \in Object \cup Patch
    /\ pc = "resources" => patches = <<>>
    /\ patches \in Seq([path : File, target : Target])
    /\ \A n \in DOMAIN patches : /\ patches[n].path \in DOMAIN fs
                                 /\ fs[patches[n].path] \in Patch

Cursor ==
    /\ pc \in {"resources", "keys", "run", "register", "done", "failed"}
    /\ p \in 1..(Len(in.specs) + 1) /\ left \subseteq Key

LEMMA SecretType ==
    ASSUME in \in Inputs, NEW ref \in Ref
    PROVE  /\ DOMAIN in.secrets[ref] \subseteq Key
           /\ \A key \in DOMAIN in.secrets[ref] : in.secrets[ref][key] \in Patch
<1>1. in.secrets[ref] \in UNION {[K -> Patch] : K \in SUBSET Key}
  BY RenderingConstants DEF Secrets
<1>2. PICK K \in SUBSET Key : in.secrets[ref] \in [K -> Patch]
  BY <1>1
<1> QED
  BY <1>2

LEMMA CursorInit == Init => Cursor
<1> SUFFICES ASSUME Init PROVE Cursor
  OBVIOUS
<1>1. Len(in.specs) \in Nat
  BY InputType, LenProperties DEF Init
<1>2. p = 1 /\ left = {} /\ pc = "resources"
  BY DEF Init
<1>3. p \in 1..(Len(in.specs) + 1)
  BY <1>1, <1>2
<1> QED
  BY <1>2, <1>3 DEF Cursor

LEMMA CursorStep ==
    ASSUME in \in Inputs, Inv, Cursor, [Next]_vars PROVE Cursor'
<1>0. /\ DOMAIN in.specs = 1..Len(in.specs) /\ Len(in.specs) \in Nat
      /\ in.specs \in Seq(PatchSpec)
  BY InputType, LenProperties
<1>1. CASE NextPatch
  <2>1. /\ in' = in
        /\ (p' = 1 \/ (pc = "keys" /\ p' = p + 1))
        /\ \/ p' <= Len(in.specs) /\ pc' = "keys"
              /\ left' = DOMAIN in.secrets[in.specs[p'].ref]
           \/ pc' = "run" /\ left' = {}
    BY <1>1 DEF NextPatch
  <2>2. p' \in 1..(Len(in.specs) + 1)
    <3>1. pc = "keys" => p \in 1..Len(in.specs)
      BY <1>0 DEF Inv, Loop
    <3>2. CASE p' = 1
      BY <1>0, <3>2
    <3>3. CASE pc = "keys" /\ p' = p + 1
      <4>1. p \in 1..Len(in.specs) /\ p' = p + 1
        BY <3>1, <3>3
      <4> QED
        BY <1>0, <4>1
    <3> QED
      BY <2>1, <3>2, <3>3
  <2>3. left' \subseteq Key
    <3>1. CASE p' <= Len(in.specs) /\ left' = DOMAIN in.secrets[in.specs[p'].ref]
      <4>1. p' \in DOMAIN in.specs
        BY <1>0, <2>2, <3>1
      <4>2. in.specs[p'] \in PatchSpec
        BY <1>0, <4>1, ElementOfSeq
      <4>3. in.specs[p'].ref \in Ref
        BY <4>2 DEF PatchSpec
      <4> QED
        BY <3>1, <4>3, SecretType
    <3> QED
      BY <2>1, <3>1
  <2> QED
    BY <2>1, <2>2, <2>3 DEF Cursor
<1>2. CASE AddResource \/ Kustomize \/ Register \/ UNCHANGED vars
  <2>1. UNCHANGED <<in, p, left>> /\ (pc' = pc \/ pc' \in {"register", "done", "failed"})
    BY <1>2 DEF AddResource, Kustomize, Register, vars
  <2> QED
    BY <2>1 DEF Cursor
<1>3. CASE \E key \in Key : AddPatch(key)
  <2>1. UNCHANGED <<in, p, pc>> /\ left' \subseteq left
    BY <1>3 DEF AddPatch
  <2> QED
    BY <2>1 DEF Cursor
<1> QED
  BY <1>1, <1>2, <1>3 DEF Next

LEMMA FsInvInit == Init => FsInv
<1> SUFFICES ASSUME Init PROVE FsInv
  OBVIOUS
<1>1. fs = <<>> /\ patches = <<>>
  BY DEF Init
<1>2. DOMAIN <<>> = {}
  OBVIOUS
<1> QED
  BY <1>1, <1>2, EmptySeq DEF FsInv

\* Writing a file.
LEMMA WriteType ==
    ASSUME NEW f, NEW name \in File, NEW x \in Object \cup Patch,
           DOMAIN f \subseteq File, \A g \in DOMAIN f : f[g] \in Object \cup Patch
    PROVE  /\ DOMAIN Write(f, name, x) = DOMAIN f \cup {name}
           /\ DOMAIN Write(f, name, x) \subseteq File
           /\ \A g \in DOMAIN Write(f, name, x) : Write(f, name, x)[g] \in Object \cup Patch
           /\ Write(f, name, x)[name] = x
           /\ \A g \in DOMAIN f : g # name => Write(f, name, x)[g] = f[g]
BY DEF Write

LEMMA FsInvStep ==
    ASSUME in \in Inputs, Inv, FileInv, FsInv, [Next]_vars PROVE FsInv'
<1>1. CASE AddResource
  <2> DEFINE r == in.pack[Len(resources) + 1]
  <2>1. /\ pc = "resources" /\ Len(resources) < Len(in.pack)
        /\ fs' = Write(fs, r.file, r.obj) /\ patches' = patches /\ pc' = pc
    BY <1>1 DEF AddResource
  <2>2. Len(resources) + 1 \in DOMAIN in.pack
    BY <2>1, PackType, LenProperties DEF FileInv, ResourceLoop
  <2>3. r.file \in File /\ r.obj \in Object
    BY <2>2, PackType
  <2>4. DOMAIN fs' \subseteq File /\ \A f \in DOMAIN fs' : fs'[f] \in Object \cup Patch
    BY <2>1, <2>3, WriteType DEF FsInv
  <2>5. patches' = <<>> /\ DOMAIN <<>> = {}
    BY <2>1 DEF FsInv
  <2> QED
    BY <2>4, <2>5, EmptySeq DEF FsInv
<1>2. ASSUME NEW key \in Key, AddPatch(key) PROVE FsInv'
  <2> DEFINE spec == in.specs[p]
             file == PatchFile(spec.ref, key)
             x    == in.secrets[spec.ref][key]
             line == [path |-> file, target |-> spec.target]
  <2>1. /\ pc = "keys" /\ pc' = pc /\ key \in left
        /\ fs' = Write(fs, file, x) /\ patches' = Append(patches, line)
    BY <1>2 DEF AddPatch
  <2>2. p \in DOMAIN in.specs /\ left \subseteq DOMAIN in.secrets[spec.ref]
    BY <2>1 DEF Inv, Loop
  <2>3. <<p, key>> \in Uses /\ FileOf(<<p, key>>) = file
    BY <1>2, <2>1, <2>2 DEF Uses, FileOf
  <2>4. file \in File /\ spec.ref \in Ref /\ spec.target \in Target
    BY <2>3, InputType
  <2>5. x \in Patch /\ line \in [path : File, target : Target] /\ line.path = file
    BY <2>1, <2>2, <2>4, SecretType
  <2> HIDE DEF x, line, file
  <2>6. /\ DOMAIN fs' = DOMAIN fs \cup {file}
        /\ DOMAIN fs' \subseteq File /\ \A f \in DOMAIN fs' : fs'[f] \in Object \cup Patch
        /\ fs'[file] = x
        /\ \A g \in DOMAIN fs : g # file => fs'[g] = fs[g]
    <3>1. DOMAIN fs \subseteq File /\ \A g \in DOMAIN fs : fs[g] \in Object \cup Patch
      BY DEF FsInv
    <3>2. x \in Object \cup Patch
      BY <2>5
    <3>3. /\ DOMAIN Write(fs, file, x) = DOMAIN fs \cup {file}
          /\ DOMAIN Write(fs, file, x) \subseteq File
          /\ \A g \in DOMAIN Write(fs, file, x) : Write(fs, file, x)[g] \in Object \cup Patch
          /\ Write(fs, file, x)[file] = x
          /\ \A g \in DOMAIN fs : g # file => Write(fs, file, x)[g] = fs[g]
      BY <2>4, <3>1, <3>2, WriteType, Zenon
    <3> QED
      BY <2>1, <3>3, Zenon
  <2>7. /\ patches' \in Seq([path : File, target : Target])
        /\ DOMAIN patches' = DOMAIN patches \cup {Len(patches) + 1}
        /\ \A n \in DOMAIN patches : patches'[n] = patches[n]
        /\ patches'[Len(patches) + 1] = line
    <3>1. /\ patches \in Seq([path : File, target : Target])
          /\ Len(patches) \in Nat /\ DOMAIN patches = 1..Len(patches)
      BY LenProperties DEF FsInv
    <3>2. /\ patches' \in Seq([path : File, target : Target])
          /\ Len(patches') = Len(patches) + 1
          /\ \A n \in 1..Len(patches) : patches'[n] = patches[n]
          /\ patches'[Len(patches) + 1] = line
      BY <2>1, <2>5, <3>1, AppendProperties
    <3>3. DOMAIN patches' = 1..(Len(patches) + 1)
      BY <3>2, LenProperties
    <3>4. 1..(Len(patches) + 1) = 1..Len(patches) \cup {Len(patches) + 1}
      BY <3>1
    <3> QED
      BY <3>1, <3>2, <3>3, <3>4
  <2>8. ASSUME NEW n \in DOMAIN patches'
        PROVE  patches'[n].path \in DOMAIN fs' /\ fs'[patches'[n].path] \in Patch
    <3>1. CASE n \in DOMAIN patches
      <4>1. patches[n].path \in DOMAIN fs /\ fs[patches[n].path] \in Patch
        BY <3>1 DEF FsInv
      <4>2. fs'[patches[n].path] \in Patch
        BY <4>1, <2>5, <2>6
      <4> QED
        BY <3>1, <4>1, <4>2, <2>6, <2>7
    <3>2. CASE n = Len(patches) + 1
      BY <3>2, <2>5, <2>6, <2>7
    <3> QED
      BY <3>1, <3>2, <2>7
  <2>9. pc' # "resources"
    BY <2>1
  <2> QED
    BY <2>6, <2>7, <2>8, <2>9 DEF FsInv
<1>3. CASE NextPatch \/ Kustomize \/ Register \/ UNCHANGED vars
  <2>1. UNCHANGED <<fs, patches>> /\ (pc' = "resources" => pc = "resources")
    BY <1>3 DEF NextPatch, Kustomize, Register, vars
  <2> QED
    BY <2>1 DEF FsInv
<1> QED
  BY <1>1, <1>2, <1>3 DEF Next

LEMMA DeliveredInit == Init => Delivered
BY DEF Init, Delivered

RenderInv == in \in Inputs /\ Inv /\ FileInv /\ Delivered /\ FsInv /\ Cursor

LEMMA RenderInvCorrect == Spec => []RenderInv
<1>1. Init => RenderInv
  BY InvInit, FileInvInit, DeliveredInit, FsInvInit, CursorInit DEF Init, RenderInv
<1>2. RenderInv /\ (in \in Inputs)' /\ [Next]_vars => RenderInv'
  BY InvStep, FileInvStep, DeliveredStep, FsInvStep, CursorStep DEF RenderInv
<1> QED
  BY <1>1, <1>2, InputStays, PTL DEF Spec

\* What kustomize works on are the objects of the pack.
LEMMA ObjectsOfPack ==
    ASSUME RenderInv, SoundPack, pc # "resources"
    PROVE  /\ DOMAIN Objects = DOMAIN in.pack
           /\ \A k \in DOMAIN in.pack : Objects[k] = in.pack[k].obj
           /\ Rendered
<1>1. /\ resources \in Seq(File) /\ Len(resources) = Len(in.pack)
      /\ \A k \in DOMAIN resources : resources[k] = in.pack[k].file
      /\ \A k \in DOMAIN resources : fs[in.pack[k].file] = in.pack[k].obj
  BY DEF RenderInv, FileInv, ResourceLoop, ResourcesWritten
<1>2. DOMAIN resources = DOMAIN in.pack
  BY <1>1, LenProperties, PackType DEF RenderInv
<1>3. DOMAIN Objects = DOMAIN in.pack /\ \A k \in DOMAIN in.pack : Objects[k] = in.pack[k].obj
  BY <1>1, <1>2 DEF Objects
<1>4. Rendered
  <2>1. Len(patches) \in Nat /\ DOMAIN patches = 1..Len(patches)
    BY LenProperties DEF RenderInv, FsInv
  <2>2. \A n \in 1..Len(patches) : PatchN(n) \in Patch
    BY <2>1 DEF RenderInv, FsInv, PatchN
  <2>3. \A k \in DOMAIN Objects : Objects[k] \in Object
    BY <1>3, PackType DEF RenderInv
  <2> QED
    BY <2>1, <2>2, <2>3 DEF Rendered
<1> QED
  BY <1>3, <1>4

LEMMA OutOfPack ==
    ASSUME RenderInv, SoundPack, pc \in {"register", "done"}
    PROVE  /\ out \in Seq(Object) /\ DOMAIN out = DOMAIN in.pack
           /\ \A k \in DOMAIN in.pack :
                 /\ out[k] \in Object /\ out[k].id = in.pack[k].obj.id
                 /\ out[k] = After[Len(patches)][k]
                 /\ \A f \in Field : FieldIs(Len(patches), k, f)
<1>1. out = After[Len(patches)]
  BY DEF RenderInv, Delivered
<1>2. /\ DOMAIN Objects = DOMAIN in.pack
      /\ \A k \in DOMAIN in.pack : Objects[k] = in.pack[k].obj
      /\ Rendered
  BY ObjectsOfPack
<1>3. Len(patches) \in Nat
  BY <1>2 DEF Rendered
<1>4. Patched(Len(patches))
  BY <1>2, <1>3, PatchedAll
<1>5. /\ DOMAIN out = DOMAIN in.pack
      /\ \A k \in DOMAIN in.pack :
            /\ out[k] \in Object /\ out[k].id = in.pack[k].obj.id
            /\ out[k] = After[Len(patches)][k]
            /\ \A f \in Field : FieldIs(Len(patches), k, f)
  BY <1>1, <1>2, <1>4 DEF Patched
<1>6. out = [k \in DOMAIN out |-> out[k]]
  <2>1. CASE Len(patches) = 0
    BY <1>1, <1>3, <2>1, AfterUnfolds DEF Objects
  <2>2. CASE Len(patches) # 0
    <3>1. Len(patches) \in 1..Len(patches)
      BY <1>3, <2>2
    <3>2. out = PatchedBy(Len(patches), After[Len(patches) - 1])
      BY <1>1, <1>3, <3>1, AfterUnfolds
    <3> QED
      BY <3>2 DEF PatchedBy
  <2> QED
    BY <2>1, <2>2
<1>7. Len(in.pack) \in Nat /\ DOMAIN in.pack = 1..Len(in.pack)
  BY PackType DEF RenderInv
<1>8. out \in [1..Len(in.pack) -> Object]
  BY <1>5, <1>6, <1>7
<1>9. out \in Seq(Object)
  BY <1>7, <1>8, SeqDef
<1> QED
  BY <1>5, <1>9

\* The registry has the kept objects, each under its index.
LEMMA RegistryIs ==
    ASSUME DOMAIN out \subseteq Nat
    PROVE  /\ DOMAIN Registry = {k - 1 : k \in Kept}
           /\ \A k \in Kept : Registry[k - 1] = Labelled(out[k])
<1> DEFINE last(n) == CHOOSE k \in Kept :
                         /\ FileInRegistry(k - 1) = n
                         /\ \A m \in Kept : FileInRegistry(m - 1) = n => m <= k
<1>1. Registry = [n \in {k - 1 : k \in Kept} |-> Labelled(out[last(n)])]
  BY DEF Registry, FileInRegistry
<1>2. Kept \subseteq Nat
  BY DEF Kept
<1>3. ASSUME NEW k \in Kept PROVE last(k - 1) = k
  <2>1. /\ FileInRegistry(k - 1) = k - 1
        /\ \A m \in Kept : FileInRegistry(m - 1) = k - 1 => m <= k
    BY <1>2 DEF FileInRegistry
  <2>2. FileInRegistry(last(k - 1) - 1) = k - 1 /\ last(k - 1) \in Kept
    BY <2>1
  <2> HIDE DEF last
  <2>3. PICK z : z = last(k - 1)
    OBVIOUS
  <2>4. z \in Nat /\ k \in Nat /\ z - 1 = k - 1
    BY <2>2, <2>3, <1>2 DEF FileInRegistry
  <2>5. z = k
    BY <2>4
  <2> QED
    BY <2>3, <2>5
<1> HIDE DEF last
<1> QED
  BY <1>1, <1>3

LEMMA LabelledType ==
    ASSUME NEW obj \in Object
    PROVE  /\ Labelled(obj) \in Object /\ Labelled(obj).id = obj.id
           /\ \A f \in Field : Labelled(obj).fields[f] = IF f = Label THEN Ours ELSE obj.fields[f]
BY RenderingConstants DEF Labelled, Object

\* Types of a pack that is sound: a resource that is named like a patch would
\* be replaced by it and kustomize would not take the patch for an object.
THEOREM RenderingTypeCorrect == Spec => [](SoundPack => TypeOK)
<1>1. RenderInv => (SoundPack => TypeOK)
  <2> SUFFICES ASSUME RenderInv, SoundPack PROVE TypeOK
    OBVIOUS
  <2>1. out \in Seq(Object) /\ DOMAIN out \subseteq Nat
    <3>1. CASE pc \in {"register", "done"}
      <4>1. out \in Seq(Object)
        BY <3>1, OutOfPack
      <4> QED
        BY <4>1, LenProperties
    <3>2. CASE pc \notin {"register", "done"}
      <4>1. out = <<>> /\ <<>> \in Seq(Object)
        BY <3>2, EmptySeq DEF RenderInv, Delivered
      <4> QED
        BY <4>1, LenProperties
    <3> QED
      BY <3>1, <3>2
  <2>2. \A n \in DOMAIN data : data[n] \in Object
    <3>1. CASE pc = "done"
      <4>1. data = Registry
        BY <3>1 DEF RenderInv, Delivered
      <4>2. \A k \in Kept : out[k] \in Object
        BY <2>1, ElementOfSeq, LenProperties DEF Kept
      <4> QED
        BY <2>1, <4>1, <4>2, RegistryIs, LabelledType
    <3>2. CASE pc # "done"
      BY <3>2 DEF RenderInv, Delivered
    <3> QED
      BY <3>1, <3>2
  <2>3. resources \in Seq(File)
    BY DEF RenderInv, FileInv, ResourceLoop
  <2> QED
    BY <2>1, <2>2, <2>3 DEF RenderInv, FsInv, Cursor, TypeOK
<1> QED
  BY <1>1, RenderInvCorrect, PTL

-----------------------------------------------------------------------------
(* What is delivered *)

\* The patches that set a field of an object are the uses that do.
LEMMA SetByUse ==
    ASSUME RenderInv, SoundPack, NamesDiffer, pc \in {"register", "done"},
           NEW src, Traces(src),
           NEW n \in DOMAIN src, NEW k \in DOMAIN in.pack, NEW f \in Field
    PROVE  /\ src[n] \in Uses /\ PatchN(n) = PatchOf(src[n])
           /\ SetBy(n, k, f) <=> Sets(src[n], in.pack[k].obj.id, f)
<1>1. src[n] \in Uses
  BY ElementOfSeq, LenProperties DEF Traces
<1>2. /\ patches[n].path = FileOf(src[n])
      /\ patches[n].target = in.specs[src[n][1]].target
      /\ Passed(src[n])
  BY DEF Traces
<1>3. fs[FileOf(src[n])] = PatchOf(src[n])
  BY <1>1, <1>2 DEF RenderInv, Inv, AllWritten, Written
<1>4. PatchN(n) = PatchOf(src[n])
  BY <1>2, <1>3 DEF PatchN
<1>5. Objects[k] = in.pack[k].obj
  BY ObjectsOfPack
<1> QED
  BY <1>1, <1>2, <1>4, <1>5 DEF SetBy, Sets

\* The uses that set a field of object k of the pack.
SettersOf(k, f) == Setters(in.pack[k].obj.id, f)

\* A field that no patch sets is as in the pack.
LEMMA FieldUntouched ==
    ASSUME RenderInv, SoundPack, NamesDiffer, pc \in {"register", "done"},
           NEW k \in DOMAIN in.pack, NEW f \in Field, SettersOf(k, f) = {}
    PROVE  out[k].fields[f] = in.pack[k].obj.fields[f]
<1>1. PICK src : Traces(src)
  BY DEF RenderInv, FileInv, Traced
<1>2. DOMAIN src = 1..Len(patches)
  BY <1>1, LenProperties DEF Traces
<1>3. \A m \in 1..Len(patches) : ~SetBy(m, k, f)
  BY <1>1, <1>2, SetByUse DEF SettersOf, Setters
<1>4. FieldIs(Len(patches), k, f) /\ out[k] = After[Len(patches)][k]
  BY OutOfPack
<1>5. Objects[k] = in.pack[k].obj
  BY ObjectsOfPack
<1> QED
  BY <1>3, <1>4, <1>5 DEF FieldIs

\* The list of patches has a last one that sets the field, and it comes from
\* the last entry that does.
LEMMA LastSetter ==
    ASSUME RenderInv, SoundPack, NamesDiffer, pc \in {"register", "done"},
           NEW k \in DOMAIN in.pack, NEW f \in Field, SettersOf(k, f) # {},
           NEW src, Traces(src)
    PROVE  \E m \in 1..Len(patches) :
              /\ SetBy(m, k, f)
              /\ \A j \in 1..Len(patches) : m < j => ~SetBy(j, k, f)
              /\ src[m] \in LastOf(SettersOf(k, f))
<1> DEFINE T == {m \in 1..Len(patches) : SetBy(m, k, f)}
<1>1. DOMAIN src = 1..Len(patches) /\ Len(patches) \in Nat
  BY LenProperties DEF Traces
<1>2. T \in SUBSET (0..Len(patches))
  BY <1>1
<1>3. \A u \in Uses : \E n \in DOMAIN src : src[n] = u
  BY DEF Traces, Passed
<1>4. T # {}
  <2>1. PICK u \in Uses : Sets(u, in.pack[k].obj.id, f)
    BY DEF SettersOf, Setters
  <2>2. PICK n \in DOMAIN src : src[n] = u
    BY <1>3
  <2> QED
    BY <1>1, <2>1, <2>2, SetByUse
<1>5. PICK m \in T : \A y \in T : y <= m
  BY <1>1, <1>2, <1>4, GreatestUpTo
<1>6. \A j \in 1..Len(patches) : m < j => ~SetBy(j, k, f)
  BY <1>1, <1>5
<1>7. src[m] \in SettersOf(k, f)
  BY <1>1, SetByUse DEF SettersOf, Setters
<1>8. \A v \in SettersOf(k, f) : v[1] <= src[m][1]
  <2> TAKE v \in SettersOf(k, f)
  <2>1. v \in Uses /\ Sets(v, in.pack[k].obj.id, f)
    BY DEF SettersOf, Setters
  <2>2. PICK n \in DOMAIN src : src[n] = v
    BY <1>3, <2>1
  <2>3. n \in T
    BY <1>1, <2>1, <2>2, SetByUse
  <2>4. n <= m /\ m \in DOMAIN src
    BY <1>1, <1>5, <2>3
  <2> QED
    BY <2>2, <2>4 DEF Traces
<1>9. src[m] \in LastOf(SettersOf(k, f))
  BY <1>7, <1>8 DEF LastOf
<1> QED
  BY <1>5, <1>6, <1>9

\* A field that patches set is as some key of the last entry sets it.
LEMMA FieldPatched ==
    ASSUME RenderInv, SoundPack, NamesDiffer, pc \in {"register", "done"},
           NEW k \in DOMAIN in.pack, NEW f \in Field, SettersOf(k, f) # {}
    PROVE  \E u \in LastOf(SettersOf(k, f)) : out[k].fields[f] = PatchOf(u).set[f]
<1>1. PICK src : Traces(src)
  BY DEF RenderInv, FileInv, Traced
<1>2. DOMAIN src = 1..Len(patches)
  BY <1>1, LenProperties DEF Traces
<1>3. PICK m \in 1..Len(patches) :
         /\ SetBy(m, k, f)
         /\ \A j \in 1..Len(patches) : m < j => ~SetBy(j, k, f)
         /\ src[m] \in LastOf(SettersOf(k, f))
  BY <1>1, LastSetter
<1>4. FieldIs(Len(patches), k, f) /\ out[k] = After[Len(patches)][k]
  BY OutOfPack
<1>5. PatchN(m) = PatchOf(src[m])
  BY <1>1, <1>2, SetByUse
<1>6. out[k].fields[f] = PatchOf(src[m]).set[f]
  BY <1>3, <1>4, <1>5 DEF FieldIs
<1> QED
  BY <1>3, <1>6

\* The object in the registry is one that the user expects.
LEMMA LabelledIsExpected ==
    ASSUME RenderInv, SoundPack, NamesDiffer, pc \in {"register", "done"},
           NEW k \in DOMAIN in.pack
    PROVE  IsExpected(Labelled(out[k]), in.pack[k].obj)
<1>1. out[k] \in Object /\ out[k].id = in.pack[k].obj.id
  BY OutOfPack
<1>2. PICK lab : lab = Labelled(out[k])
  OBVIOUS
<1>3. /\ lab.id = in.pack[k].obj.id
      /\ \A f \in Field : lab.fields[f] = IF f = Label THEN Ours ELSE out[k].fields[f]
  BY <1>1, <1>2, LabelledType
<1>4. ASSUME NEW f \in Field PROVE lab.fields[f] \in Expected(in.pack[k].obj, f)
  <2>1. CASE f = Label
    BY <1>3, <2>1 DEF Expected
  <2>2. CASE f # Label /\ SettersOf(k, f) = {}
    BY <1>3, <2>2, FieldUntouched DEF Expected, SettersOf
  <2>3. CASE f # Label /\ SettersOf(k, f) # {}
    <3>1. PICK u \in LastOf(SettersOf(k, f)) : out[k].fields[f] = PatchOf(u).set[f]
      BY <2>3, FieldPatched
    <3> QED
      BY <1>3, <2>3, <3>1 DEF Expected, SettersOf
  <2> QED
    BY <2>1, <2>2, <2>3
<1> QED
  BY <1>2, <1>3, <1>4 DEF IsExpected

\* Whatever the order of the keys and however many patches there are: what the
\* registry ends up with are the objects of the pack but namespaces, once each
\* and nothing else, every field as the last entry of Patches that sets it says
\* or as in the pack, and the labels the actuator's (reconcilePack,
\* kustomizeFilesystemForPack).
THEOREM DeliversCorrect == Spec => [](SoundPack => DeliversPatchedPack)
<1>1. ASSUME RenderInv, SoundPack, pc = "done", NamesDiffer
      PROVE  /\ \A n \in DOMAIN data : \E k \in DOMAIN in.pack :
                   ~IsNamespace(in.pack[k].obj) /\ IsExpected(data[n], in.pack[k].obj)
             /\ \A k \in DOMAIN in.pack : ~IsNamespace(in.pack[k].obj) =>
                   \E n \in DOMAIN data : data[n].id = in.pack[k].obj.id
             /\ \A m, n \in DOMAIN data : data[m].id = data[n].id => m = n
  <2>1. /\ DOMAIN out = DOMAIN in.pack
        /\ \A j \in DOMAIN out : /\ out[j].id = in.pack[j].obj.id
                                 /\ IsExpected(Labelled(out[j]), in.pack[j].obj)
                                 /\ Labelled(out[j]).id = in.pack[j].obj.id
    BY <1>1, OutOfPack, LabelledIsExpected, LabelledType
  <2>2. DOMAIN out \subseteq Nat
    BY <2>1, <1>1, PackType DEF RenderInv
  <2>3. /\ DOMAIN data = {j - 1 : j \in Kept}
        /\ \A j \in Kept : data[j - 1] = Labelled(out[j])
    BY <1>1, <2>2, RegistryIs DEF RenderInv, Delivered
  <2>4. Kept = {k \in DOMAIN in.pack : ~IsNamespace(in.pack[k].obj)}
    BY <2>1 DEF Kept, IsNamespace
  <2>5. ASSUME NEW j \in Kept
        PROVE  /\ j \in DOMAIN in.pack /\ ~IsNamespace(in.pack[j].obj)
               /\ j - 1 \in DOMAIN data /\ data[j - 1].id = in.pack[j].obj.id
               /\ IsExpected(data[j - 1], in.pack[j].obj)
    BY <2>1, <2>3, <2>4
  <2>6. ASSUME NEW m \in DOMAIN data, NEW n \in DOMAIN data, data[m].id = data[n].id
        PROVE  m = n
    <3>1. PICK j \in Kept, k \in Kept : m = j - 1 /\ n = k - 1
      BY <2>3
    <3>2. in.pack[j].obj.id = in.pack[k].obj.id
      BY <2>5, <2>6, <3>1
    <3>3. j = k
      BY <1>1, <2>4, <3>2 DEF SoundPack
    <3> QED
      BY <3>1, <3>3
  <2> QED
    BY <2>3, <2>4, <2>5, <2>6
<1>2. RenderInv => (SoundPack => DeliversPatchedPack)
  BY <1>1 DEF DeliversPatchedPack
<1> QED
  BY <1>2, RenderInvCorrect, PTL
=============================================================================
