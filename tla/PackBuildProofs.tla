--------------------------- MODULE PackBuildProofs ---------------------------
(***************************************************************************)
(* What the two scripts and New together promise of a pack, for any PACKAGE *)
(* specs, any edits and any failing commands.                              *)
(*                                                                         *)
(* SUMS ties the pieces together: nobody but the build writes lines to it, *)
(* so that they are, at any time, checksums of what one package() call     *)
(* wrote (Summed), and of all of it unless the build was interrupted while *)
(* it wrote them.  What is done to the resources afterwards has to fit     *)
(* these lines to pass.                                                    *)
(***************************************************************************)
EXTENDS PackBuild, SequenceTheorems, WellFoundedInduction, TLAPS

Outputs == [Path -> Content \cup {None}]

\* The lines are checksums of what was written, or of all that was written.
Describe(sums, out) == \A k \in DOMAIN sums : sums[k].sum = out[sums[k].path]
Cover(sums, out)    == \A p \in Path : out[p] # None => \E k \in DOMAIN sums : sums[k].path = p

\* A running build: what it has written is all that there is.
Building ==
    /\ pc \in {"idle", "clean"} => cmd = 1 /\ left = {} /\ output = NoFiles
    /\ pc \in {"package", "sums", "append", "done"} => dir.files = output
    /\ pc \in {"sums", "append", "done"} =>
          dir.desc = spec.desc /\ output \in packaged[spec.version]

\* The loop over the resources has summed up all but those that are left.
Summing ==
    /\ pc = "append" =>
          /\ spec.version \in torn /\ dir.eol
          /\ Describe(dir.sums, output)
          /\ \A p \in left : output[p] # None
          /\ \A p \in Path : output[p] # None =>
                p \in left \/ \E k \in DOMAIN dir.sums : dir.sums[k].path = p
    /\ pc = "done" =>
          /\ dir.eol
          /\ Describe(dir.sums, output) /\ Cover(dir.sums, output)

\* Any SUMS comes from one package() call of its version.
SummedAt(v) ==
    tree[v].sums # <<>> =>
        \E out \in packaged[v] : /\ Describe(tree[v].sums, out)
                                 /\ v \notin torn => Cover(tree[v].sums, out)

Summed == \A v \in Version : SummedAt(v)

BuildInv == TypeOK /\ Building /\ Summing /\ Summed

-----------------------------------------------------------------------------
(* Types *)

LEMMA SpecType ==
    ASSUME TypeOK
    PROVE  /\ spec \in Specs /\ spec.version \in Version /\ spec.desc \in Desc
           /\ spec.package \in Seq(Command) /\ Len(spec.package) \in Nat
           /\ \A k \in 1..Len(spec.package) : spec.package[k].path \in Path
                                          /\ spec.package[k].content \in Content
<1>1. spec \in PackageSpec
  BY PackBuildConstants DEF TypeOK
<1>2. spec.package \in Seq(Command) /\ Len(spec.package) \in Nat
  BY <1>1, LenProperties DEF PackageSpec
<1>3. \A k \in 1..Len(spec.package) : spec.package[k] \in Command
  BY <1>2, ElementOfSeq
<1> QED
  BY <1>1, <1>2, <1>3 DEF TypeOK, PackageSpec, Command

LEMMA NumberType ==
    ASSUME TypeOK
    PROVE  /\ cmd \in 1..(Len(spec.package) + 1) /\ edits \in 0..MaxEdits /\ fails \in 0..MaxFails
           /\ MaxEdits \in Nat /\ MaxFails \in Nat
BY PackBuildConstants DEF TypeOK

\* Counting down, and up.
LEMMA CountDown ==
    ASSUME NEW max \in Nat, NEW n \in 0..max, NEW m, m = n \/ (n > 0 /\ m = n - 1)
    PROVE  m \in 0..max
OBVIOUS

LEMMA CountUp ==
    ASSUME NEW max \in Nat, NEW n \in 1..(max + 1), n <= max
    PROVE  n \in 1..max /\ n + 1 \in 1..(max + 1)
OBVIOUS

LEMMA DirType ==
    ASSUME TypeOK, NEW v \in Version
    PROVE  /\ tree[v] \in Dir
           /\ tree[v].files \in Outputs
           /\ tree[v].desc \in Desc \cup {None}
           /\ tree[v].sums \in Seq(Entry)
           /\ tree[v].eol \in BOOLEAN
BY DEF TypeOK, Dir, Outputs

LEMMA LinesType ==
    ASSUME NEW sums \in Seq(Entry)
    PROVE  /\ Len(sums) \in Nat /\ DOMAIN sums = 1..Len(sums)
           /\ \A k \in DOMAIN sums : sums[k].path \in Path /\ sums[k].sum \in Content
<1>1. Len(sums) \in Nat /\ DOMAIN sums = 1..Len(sums)
  BY LenProperties
<1>2. \A k \in DOMAIN sums : sums[k] \in Entry
  BY <1>1, ElementOfSeq
<1> QED
  BY <1>1, <1>2 DEF Entry

\* The fields of a directory before and after a change.
LEMMA DirFields ==
    /\ \A d \in Dir, f \in Outputs : [d EXCEPT !.files = f] \in Dir
    /\ \A d \in Dir, s \in Desc : [d EXCEPT !.desc = s] \in Dir
    /\ \A d \in Dir, s \in Seq(Entry) : [d EXCEPT !.sums = s] \in Dir
    /\ \A d \in Dir, b \in BOOLEAN : [d EXCEPT !.eol = b] \in Dir
BY DEF Dir, Outputs

LEMMA EmptyDirType == EmptyDir \in Dir /\ NoFiles \in Outputs
BY EmptySeq DEF EmptyDir, NoFiles, Dir, Outputs

\* A change of one directory.
LEMMA TreeType ==
    ASSUME TypeOK, NEW v \in Version, NEW d \in Dir, tree' = [tree EXCEPT ![v] = d]
    PROVE  /\ tree' \in [Version -> Dir]
           /\ tree'[v] = d
           /\ \A u \in Version : u # v => tree'[u] = tree[u]
BY DEF TypeOK

-----------------------------------------------------------------------------
(* The changes of the tree *)

LEMMA EditResourceTree ==
    ASSUME TypeOK, NEW v \in Version, NEW p \in Path, NEW c \in Content \cup {None},
           EditResource(v, p, c)
    PROVE  /\ tree' \in [Version -> Dir]
           /\ \A u \in Version : tree'[u].sums = tree[u].sums
<1> DEFINE d == [tree[v] EXCEPT !.files = [@ EXCEPT ![p] = c]]
<1>1. tree' = [tree EXCEPT ![v] = d]
  BY DEF EditResource
<1>2. d \in Dir /\ d.sums = tree[v].sums
  BY DirType, DirFields DEF Outputs, Dir
<1> QED
  BY <1>1, <1>2, TreeType

LEMMA EditSumsTree ==
    ASSUME TypeOK, NEW v \in Version, EditSums(v)
    PROVE  /\ tree' \in [Version -> Dir]
           /\ \A u \in Version : tree'[u].sums = tree[u].sums
<1> DEFINE d == [tree[v] EXCEPT !.eol = FALSE]
<1>1. tree' = [tree EXCEPT ![v] = d]
  BY DEF EditSums
<1>2. d \in Dir /\ d.sums = tree[v].sums
  BY DirType, DirFields DEF Dir
<1> QED
  BY <1>1, <1>2, TreeType

\* A resource of the built directory is written or deleted.
LEMMA FileTree ==
    ASSUME TypeOK, NEW p \in Path, NEW c \in Content \cup {None},
           tree' = [tree EXCEPT ![spec.version].files[p] = c], spec' = spec
    PROVE  /\ tree' \in [Version -> Dir]
           /\ dir'.files = [dir.files EXCEPT ![p] = c]
           /\ \A u \in Version : tree'[u].sums = tree[u].sums
<1> DEFINE d == [dir EXCEPT !.files = [@ EXCEPT ![p] = c]]
<1>1. tree' = [tree EXCEPT ![spec.version] = d]
  BY DEF dir
<1>2. d \in Dir /\ d.sums = dir.sums /\ d.files = [dir.files EXCEPT ![p] = c]
  BY DirType, SpecType, DirFields DEF Outputs, Dir, dir
<1> QED
  BY <1>1, <1>2, TreeType, SpecType DEF dir

LEMMA WriteDescTree ==
    ASSUME TypeOK, WriteDesc
    PROVE  /\ tree' \in [Version -> Dir]
           /\ dir'.files = dir.files /\ dir'.desc = spec.desc
           /\ \A u \in Version : tree'[u].sums = tree[u].sums
<1> DEFINE d == [dir EXCEPT !.desc = spec.desc]
<1>1. tree' = [tree EXCEPT ![spec.version] = d] /\ spec' = spec
  BY DEF WriteDesc, dir
<1>2. d \in Dir /\ d.sums = dir.sums /\ d.files = dir.files /\ d.desc = spec.desc
  BY DirType, SpecType, DirFields DEF Dir, dir
<1> QED
  BY <1>1, <1>2, TreeType, SpecType DEF dir

LEMMA RemoveSumsTree ==
    ASSUME TypeOK, RemoveSums
    PROVE  /\ tree' \in [Version -> Dir]
           /\ dir'.files = dir.files /\ dir'.desc = dir.desc
           /\ dir'.sums = <<>> /\ dir'.eol = TRUE
           /\ \A u \in Version \ {spec.version} : tree'[u] = tree[u]
<1> DEFINE e == [dir EXCEPT !.sums = <<>>]
           d == [e EXCEPT !.eol = TRUE]
<1>1. tree' = [tree EXCEPT ![spec.version] = d] /\ spec' = spec
  BY DEF RemoveSums, dir
<1>2. dir \in Dir /\ <<>> \in Seq(Entry)
  BY DirType, SpecType, EmptySeq DEF dir
<1>3. e \in Dir /\ e.sums = <<>> /\ e.files = dir.files /\ e.desc = dir.desc
  BY <1>2, DirFields DEF Dir
<1>4. d \in Dir /\ d.sums = e.sums /\ d.files = e.files /\ d.desc = e.desc /\ d.eol = TRUE
  BY <1>3, DirFields DEF Dir
<1> QED
  BY <1>1, <1>3, <1>4, TreeType, SpecType DEF dir

LEMMA AppendSumTree ==
    ASSUME TypeOK, NEW p \in Path, dir.files[p] # None,
           tree' = [tree EXCEPT ![spec.version].sums =
                       Append(@, [path |-> p, sum |-> dir.files[p]])],
           spec' = spec
    PROVE  /\ tree' \in [Version -> Dir]
           /\ dir'.files = dir.files /\ dir'.desc = dir.desc /\ dir'.eol = dir.eol
           /\ dir'.sums = Append(dir.sums, [path |-> p, sum |-> dir.files[p]])
           /\ \A u \in Version \ {spec.version} : tree'[u] = tree[u]
<1> DEFINE new == [path |-> p, sum |-> dir.files[p]]
           d   == [dir EXCEPT !.sums = Append(dir.sums, new)]
<1>1. tree' = [tree EXCEPT ![spec.version] = d]
  BY DEF dir
<1>2. dir \in Dir /\ dir.sums \in Seq(Entry) /\ dir.files[p] \in Content
  BY DirType, SpecType DEF dir, Outputs
<1>3. Append(dir.sums, new) \in Seq(Entry)
  BY <1>2, AppendProperties DEF Entry
<1>4. /\ d \in Dir /\ d.sums = Append(dir.sums, new)
      /\ d.files = dir.files /\ d.desc = dir.desc /\ d.eol = dir.eol
  BY <1>2, <1>3, DirFields DEF Dir
<1> QED
  BY <1>1, <1>4, TreeType, SpecType DEF dir

-----------------------------------------------------------------------------
(* The steps *)

LEMMA BuildInvInit == Init => BuildInv
<1> SUFFICES ASSUME Init PROVE BuildInv
  OBVIOUS
<1>1. tree \in [Version -> Dir] /\ output \in Outputs /\ output = NoFiles
  BY EmptyDirType DEF Init
<1>2. spec \in Specs /\ cmd = 1 /\ left = {} /\ pc = "idle"
  BY DEF Init
<1>3. Len(spec.package) \in Nat
  BY <1>2, PackBuildConstants, LenProperties DEF PackageSpec
<1>4. packaged \in [Version -> SUBSET Outputs] /\ torn \subseteq Version /\ failed \in BOOLEAN
  BY DEF Init
<1>5. edits \in 0..MaxEdits /\ fails \in 0..MaxFails
  BY PackBuildConstants DEF Init
<1>6. report = "none"
  BY DEF Init
<1>7. TypeOK
  BY <1>1, <1>2, <1>3, <1>4, <1>5, <1>6 DEF TypeOK, Outputs
<1>8. \A v \in Version : tree[v].sums = <<>>
  BY DEF Init, EmptyDir
<1> QED
  BY <1>1, <1>2, <1>7, <1>8 DEF BuildInv, Building, Summing, Summed, SummedAt

LEMMA SummedKept ==
    ASSUME Summed,
           \A u \in Version : /\ tree'[u].sums = tree[u].sums
                              /\ packaged[u] \subseteq packaged'[u],
           torn \subseteq torn'
    PROVE  Summed'
BY DEF Summed, SummedAt

\* No script is running, before and after.
LEMMA AtRest ==
    ASSUME Building, pc = "idle", UNCHANGED script
    PROVE  Building' /\ Summing' /\ cmd' = 1
BY DEF Building, Summing, script

\* People and pack-verify.sh.
LEMMA EditSteps ==
    ASSUME BuildInv,
           \/ \E s \in Specs : EditSpec(s)
           \/ \E v \in Version, p \in Path, c \in Content \cup {None} : EditResource(v, p, c)
           \/ \E v \in Version : EditSums(v)
           \/ Verify
    PROVE  BuildInv'
<1>1. TypeOK /\ Building /\ Summed
  BY DEF BuildInv
<1>2. /\ pc = "idle" /\ UNCHANGED <<script, history, fails>>
      /\ report' \in {"none", "verified successfully", "failed to verify"}
      /\ edits' = edits \/ (edits > 0 /\ edits' = edits - 1)
  BY DEF EditSpec, EditResource, EditSums, Edit, Verify
<1>3. /\ tree' \in [Version -> Dir]
      /\ \A u \in Version : tree'[u].sums = tree[u].sums
  <2>1. CASE \E s \in Specs : EditSpec(s)
    BY <2>1, <1>1 DEF EditSpec, TypeOK
  <2>2. CASE \E v \in Version, p \in Path, c \in Content \cup {None} : EditResource(v, p, c)
    BY <2>2, <1>1, EditResourceTree
  <2>3. CASE \E v \in Version : EditSums(v)
    BY <2>3, <1>1, EditSumsTree
  <2>4. CASE Verify
    BY <2>4, <1>1 DEF Verify, TypeOK
  <2> QED
    BY <2>1, <2>2, <2>3, <2>4
<1>4. spec' \in Specs
  BY <1>1 DEF EditSpec, EditResource, EditSums, Verify, TypeOK
<1>5. Building' /\ Summing' /\ cmd' = 1
  BY <1>1, <1>2, AtRest
<1>6. Summed'
  BY <1>1, <1>2, <1>3, SummedKept DEF history
<1>7. edits' \in 0..MaxEdits
  BY <1>1, <1>2, NumberType, CountDown
<1>8. cmd' \in 1..(Len(spec'.package) + 1)
  <2>1. Len(spec'.package) \in Nat
    BY <1>4, PackBuildConstants, LenProperties DEF PackageSpec
  <2> QED
    BY <2>1, <1>5
<1>9. /\ UNCHANGED <<pc, left, output, failed, packaged, torn, fails>>
  BY <1>2 DEF script, history
<1>10. TypeOK'
  BY <1>1, <1>2, <1>3, <1>4, <1>7, <1>8, <1>9 DEF TypeOK
<1> QED
  BY <1>5, <1>6, <1>10 DEF BuildInv

LEMMA StartBuildStep == BuildInv /\ StartBuild => BuildInv'
<1> SUFFICES ASSUME BuildInv, StartBuild PROVE BuildInv'
  OBVIOUS
<1>1. TypeOK /\ Building /\ Summed
  BY DEF BuildInv
<1>2. /\ pc = "idle" /\ pc' = "clean" /\ report' = "none"
      /\ UNCHANGED <<tree, spec, cmd, left, output, failed, packaged, torn, edits, fails>>
  BY DEF StartBuild, history
<1>3. TypeOK'
  BY <1>1, <1>2 DEF TypeOK
<1>4. Building' /\ Summing'
  BY <1>1, <1>2 DEF Building, Summing
<1>5. Summed'
  BY <1>1, <1>2, SummedKept
<1> QED
  BY <1>3, <1>4, <1>5 DEF BuildInv

\* The directory is emptied, file by file; then package() is called.
LEMMA CleanStep == BuildInv /\ Clean => BuildInv'
<1> SUFFICES ASSUME BuildInv, Clean PROVE BuildInv'
  OBVIOUS
<1>1. TypeOK /\ Building /\ Summed
  BY DEF BuildInv
<1>2. /\ pc = "clean"
      /\ UNCHANGED <<spec, cmd, left, output, failed, packaged, torn, report, edits, fails>>
  BY DEF Clean, history
<1>3. CASE /\ \E p \in Path : tree' = [tree EXCEPT ![spec.version].files[p] = None]
           /\ pc' = pc
  <2>1. tree' \in [Version -> Dir] /\ \A u \in Version : tree'[u].sums = tree[u].sums
    BY <1>1, <1>2, <1>3, FileTree
  <2>2. TypeOK'
    BY <1>1, <1>2, <1>3, <2>1 DEF TypeOK
  <2>3. Building' /\ Summing'
    BY <1>1, <1>2, <1>3 DEF Building, Summing
  <2>4. Summed'
    BY <1>1, <1>2, <2>1, SummedKept
  <2> QED
    BY <2>2, <2>3, <2>4 DEF BuildInv
<1>4. CASE dir.files = NoFiles /\ pc' = "package" /\ tree' = tree
  <2>1. TypeOK'
    BY <1>1, <1>2, <1>4 DEF TypeOK
  <2>2. dir'.files = output'
    BY <1>1, <1>2, <1>4 DEF Building, dir
  <2>3. Building' /\ Summing'
    BY <1>4, <2>2 DEF Building, Summing
  <2>4. Summed'
    BY <1>1, <1>2, <1>4, SummedKept
  <2> QED
    BY <2>1, <2>3, <2>4 DEF BuildInv
<1> QED
  BY <1>3, <1>4 DEF Clean

\* A command of package() goes through or fails.
LEMMA RunCommandStep == BuildInv /\ RunCommand => BuildInv'
<1> SUFFICES ASSUME BuildInv, RunCommand PROVE BuildInv'
  OBVIOUS
<1> DEFINE c == spec.package[cmd]
<1>1. TypeOK /\ Building /\ Summed
  BY DEF BuildInv
<1>2. /\ pc = "package" /\ pc' = pc /\ cmd <= Len(spec.package) /\ cmd' = cmd + 1
      /\ tree' = [tree EXCEPT ![spec.version].files[c.path] = c.content]
      /\ output' = [output EXCEPT ![c.path] = c.content]
      /\ UNCHANGED <<spec, left, failed, packaged, torn, report, edits, fails>>
  BY DEF RunCommand, history
<1>3. /\ cmd \in 1..Len(spec.package) /\ cmd' \in 1..(Len(spec'.package) + 1)
      /\ c.path \in Path /\ c.content \in Content
  <2>1. cmd \in 1..Len(spec.package) /\ cmd + 1 \in 1..(Len(spec.package) + 1)
    BY <1>1, <1>2, SpecType, NumberType, CountUp
  <2> QED
    BY <2>1, <1>1, <1>2, SpecType
<1>4. /\ tree' \in [Version -> Dir]
      /\ dir'.files = [dir.files EXCEPT ![c.path] = c.content]
      /\ \A u \in Version : tree'[u].sums = tree[u].sums
  BY <1>1, <1>2, <1>3, FileTree
<1>5. output' \in Outputs
  BY <1>1, <1>2, <1>3 DEF TypeOK, Outputs
<1>6. TypeOK'
  BY <1>1, <1>2, <1>3, <1>4, <1>5 DEF TypeOK, Outputs
<1>7. Building' /\ Summing'
  BY <1>1, <1>2, <1>4 DEF Building, Summing
<1>8. Summed'
  BY <1>1, <1>2, <1>4, SummedKept
<1> QED
  BY <1>6, <1>7, <1>8 DEF BuildInv

LEMMA FailCommandStep == BuildInv /\ FailCommand => BuildInv'
<1> SUFFICES ASSUME BuildInv, FailCommand PROVE BuildInv'
  OBVIOUS
<1>1. TypeOK /\ Building /\ Summed
  BY DEF BuildInv
<1>2. /\ pc = "package" /\ pc' = pc /\ cmd <= Len(spec.package) /\ cmd' = cmd + 1
      /\ failed' = TRUE /\ fails > 0 /\ fails' = fails - 1
      /\ UNCHANGED <<tree, spec, left, output, packaged, torn, report, edits>>
  BY DEF FailCommand, history
<1>3. cmd' \in 1..(Len(spec'.package) + 1) /\ fails' \in 0..MaxFails
  <2>1. cmd + 1 \in 1..(Len(spec.package) + 1)
    BY <1>1, <1>2, SpecType, NumberType, CountUp
  <2>2. fails' \in 0..MaxFails
    BY <1>1, <1>2, NumberType, CountDown
  <2> QED
    BY <2>1, <2>2, <1>2
<1>4. TypeOK'
  BY <1>1, <1>2, <1>3 DEF TypeOK
<1>5. Building' /\ Summing'
  BY <1>1, <1>2 DEF Building, Summing, dir
<1>6. Summed'
  BY <1>1, <1>2, SummedKept
<1> QED
  BY <1>4, <1>5, <1>6 DEF BuildInv

\* package() is over and what it wrote goes on record.
LEMMA WriteDescStep == BuildInv /\ WriteDesc => BuildInv'
<1> SUFFICES ASSUME BuildInv, WriteDesc PROVE BuildInv'
  OBVIOUS
<1>1. TypeOK /\ Building /\ Summed
  BY DEF BuildInv
<1>2. /\ pc = "package" /\ pc' = "sums"
      /\ packaged' = [packaged EXCEPT ![spec.version] = @ \cup {output}]
      /\ UNCHANGED <<spec, cmd, left, output, failed, torn, report, edits, fails>>
  BY DEF WriteDesc
<1>3. /\ tree' \in [Version -> Dir]
      /\ dir'.files = dir.files /\ dir'.desc = spec.desc
      /\ \A u \in Version : tree'[u].sums = tree[u].sums
  BY <1>1, WriteDescTree
<1>4. /\ packaged' \in [Version -> SUBSET Outputs]
      /\ output' \in packaged'[spec'.version]
      /\ \A u \in Version : packaged[u] \subseteq packaged'[u]
  BY <1>1, <1>2, SpecType DEF TypeOK, Outputs
<1>5. TypeOK'
  BY <1>1, <1>2, <1>3, <1>4 DEF TypeOK, Outputs
<1>6. Building' /\ Summing'
  BY <1>1, <1>2, <1>3, <1>4 DEF Building, Summing
<1>7. Summed'
  BY <1>1, <1>2, <1>3, <1>4, SummedKept
<1> QED
  BY <1>5, <1>6, <1>7 DEF BuildInv

LEMMA RemoveSumsStep == BuildInv /\ RemoveSums => BuildInv'
<1> SUFFICES ASSUME BuildInv, RemoveSums PROVE BuildInv'
  OBVIOUS
<1>1. TypeOK /\ Building /\ Summed
  BY DEF BuildInv
<1>2. /\ pc = "sums" /\ pc' = "append"
      /\ left' = {p \in Path : dir.files[p] # None}
      /\ torn' = torn \cup {spec.version}
      /\ UNCHANGED <<spec, cmd, output, failed, packaged, report, edits, fails>>
  BY DEF RemoveSums
<1>3. /\ tree' \in [Version -> Dir]
      /\ dir'.files = dir.files /\ dir'.desc = dir.desc
      /\ dir'.sums = <<>> /\ dir'.eol = TRUE
      /\ \A u \in Version \ {spec.version} : tree'[u] = tree[u]
  BY <1>1, RemoveSumsTree
<1>4. TypeOK'
  <2>1. torn' \subseteq Version /\ left' \subseteq Path
    BY <1>1, <1>2, SpecType DEF TypeOK
  <2> QED
    BY <1>1, <1>2, <1>3, <2>1 DEF TypeOK
<1>5. dir.files = output /\ dir.desc = spec.desc /\ output \in packaged[spec.version]
  BY <1>1, <1>2 DEF Building
<1>6. Building'
  BY <1>2, <1>3, <1>5 DEF Building
<1>7. Summing'
  <2>1. Describe(dir'.sums, output')
    BY <1>3 DEF Describe
  <2>2. spec'.version \in torn' /\ dir'.eol
    BY <1>2, <1>3
  <2>3. \A p \in Path : p \in left' <=> output'[p] # None
    BY <1>2, <1>5
  <2> QED
    BY <1>2, <2>1, <2>2, <2>3 DEF Summing
<1>8. Summed'
  <2> SUFFICES ASSUME NEW u \in Version PROVE SummedAt(u)'
    BY DEF Summed
  <2>1. CASE u = spec.version
    BY <2>1, <1>2, <1>3 DEF SummedAt, dir
  <2>2. CASE u # spec.version
    BY <2>2, <1>1, <1>2, <1>3 DEF Summed, SummedAt
  <2> QED
    BY <2>1, <2>2
<1> QED
  BY <1>4, <1>6, <1>7, <1>8 DEF BuildInv

\* One more line.
LEMMA DescribeAppend ==
    ASSUME NEW sums \in Seq(Entry), NEW line \in Entry, NEW out,
           Describe(sums, out), line.sum = out[line.path]
    PROVE  /\ Describe(Append(sums, line), out)
           /\ \A p : (p = line.path \/ \E k \in DOMAIN sums : sums[k].path = p) =>
                 \E k \in DOMAIN Append(sums, line) : Append(sums, line)[k].path = p
<1> DEFINE new == Append(sums, line)
<1>1. /\ Len(sums) \in Nat /\ DOMAIN sums = 1..Len(sums)
      /\ new \in Seq(Entry) /\ Len(new) = Len(sums) + 1 /\ DOMAIN new = 1..Len(new)
      /\ \A k \in 1..Len(sums) : new[k] = sums[k]
      /\ new[Len(sums) + 1] = line
  BY LenProperties, AppendProperties
<1>2. /\ DOMAIN new = DOMAIN sums \cup {Len(sums) + 1}
      /\ \A k \in DOMAIN sums : new[k] = sums[k]
  BY <1>1
<1> HIDE DEF new
<1>3. Describe(new, out)
  BY <1>1, <1>2 DEF Describe
<1>4. \A p : (p = line.path \/ \E k \in DOMAIN sums : sums[k].path = p) =>
            \E k \in DOMAIN new : new[k].path = p
  BY <1>1, <1>2
<1> QED
  BY <1>3, <1>4 DEF new

LEMMA AppendSumStep == BuildInv /\ AppendSum => BuildInv'
<1> SUFFICES ASSUME BuildInv, AppendSum PROVE BuildInv'
  OBVIOUS
<1>1. TypeOK /\ Building /\ Summing /\ Summed
  BY DEF BuildInv
<1>2. PICK p \in left :
        /\ tree' = [tree EXCEPT ![spec.version].sums =
                       Append(@, [path |-> p, sum |-> dir.files[p]])]
        /\ left' = left \ {p}
  BY DEF AppendSum
<1>3. /\ pc = "append" /\ pc' = pc
      /\ UNCHANGED <<spec, cmd, output, failed, packaged, torn, report, edits, fails>>
  BY DEF AppendSum, history
<1> DEFINE line == [path |-> p, sum |-> dir.files[p]]
<1>4. /\ dir.files = output /\ dir.desc = spec.desc /\ output \in packaged[spec.version]
      /\ spec.version \in torn /\ dir.eol
      /\ Describe(dir.sums, output)
      /\ \A q \in left : output[q] # None
      /\ \A q \in Path : output[q] # None =>
            q \in left \/ \E k \in DOMAIN dir.sums : dir.sums[k].path = q
  BY <1>1, <1>3 DEF Building, Summing
<1>5. p \in Path /\ dir.files[p] # None
  BY <1>1, <1>4 DEF TypeOK
<1>6. /\ tree' \in [Version -> Dir]
      /\ dir'.files = dir.files /\ dir'.desc = dir.desc /\ dir'.eol = dir.eol
      /\ dir'.sums = Append(dir.sums, line)
      /\ \A u \in Version \ {spec.version} : tree'[u] = tree[u]
  BY <1>1, <1>2, <1>3, <1>5, AppendSumTree
<1>7. dir.sums \in Seq(Entry) /\ line \in Entry /\ line.path = p /\ line.sum = output[p]
  <2>1. dir.sums \in Seq(Entry) /\ dir.files \in Outputs
    BY <1>1, SpecType, DirType DEF dir
  <2>2. dir.files[p] \in Content
    BY <2>1, <1>5 DEF Outputs
  <2> QED
    BY <2>1, <2>2, <1>4, <1>5 DEF Entry
<1> HIDE DEF line
<1>8. /\ Describe(dir'.sums, output')
      /\ \A q : (q = p \/ \E k \in DOMAIN dir.sums : dir.sums[k].path = q) =>
            \E k \in DOMAIN dir'.sums : dir'.sums[k].path = q
  <2>1. Describe(Append(dir.sums, line), output)
    BY <1>4, <1>7, DescribeAppend
  <2>2. \A q : (q = line.path \/ \E k \in DOMAIN dir.sums : dir.sums[k].path = q) =>
            \E k \in DOMAIN Append(dir.sums, line) : Append(dir.sums, line)[k].path = q
    BY <1>4, <1>7, DescribeAppend, Zenon
  <2>3. dir'.sums = Append(dir.sums, line) /\ output' = output /\ line.path = p
    BY <1>3, <1>6, <1>7
  <2> QED
    BY <2>1, <2>2, <2>3, Zenon
<1>9. TypeOK'
  BY <1>1, <1>2, <1>3, <1>6 DEF TypeOK
<1>10. Building'
  BY <1>3, <1>4, <1>6 DEF Building
<1>11. Summing'
  BY <1>2, <1>3, <1>4, <1>6, <1>8 DEF Summing
<1>12. Summed'
  <2> SUFFICES ASSUME NEW u \in Version PROVE SummedAt(u)'
    BY DEF Summed
  <2>1. CASE u = spec.version
    BY <2>1, <1>3, <1>4, <1>8 DEF SummedAt, dir
  <2>2. CASE u # spec.version
    BY <2>2, <1>1, <1>3, <1>6 DEF Summed, SummedAt
  <2> QED
    BY <2>1, <2>2
<1> QED
  BY <1>9, <1>10, <1>11, <1>12 DEF BuildInv

\* SUMS is complete.
LEMMA BuiltStep == BuildInv /\ Built => BuildInv'
<1> SUFFICES ASSUME BuildInv, Built PROVE BuildInv'
  OBVIOUS
<1>1. TypeOK /\ Building /\ Summing /\ Summed
  BY DEF BuildInv
<1>2. /\ pc = "append" /\ left = {} /\ pc' = "done" /\ torn' = torn \ {spec.version}
      /\ UNCHANGED <<tree, spec, cmd, left, output, failed, packaged, report, edits, fails>>
  BY DEF Built
<1>3. TypeOK'
  BY <1>1, <1>2 DEF TypeOK
<1>4. /\ dir.files = output /\ dir.desc = spec.desc /\ output \in packaged[spec.version]
      /\ dir.eol /\ Describe(dir.sums, output) /\ Cover(dir.sums, output)
  BY <1>1, <1>2 DEF Building, Summing, Cover
<1>5. dir' = dir
  BY <1>2 DEF dir
<1>6. Building' /\ Summing'
  BY <1>2, <1>4, <1>5 DEF Building, Summing
<1>7. Summed'
  <2> SUFFICES ASSUME NEW u \in Version PROVE SummedAt(u)'
    BY DEF Summed
  <2>1. CASE u = spec.version
    BY <2>1, <1>2, <1>4 DEF SummedAt, dir
  <2>2. CASE u # spec.version
    BY <2>2, <1>1, <1>2 DEF Summed, SummedAt
  <2> QED
    BY <2>1, <2>2
<1> QED
  BY <1>3, <1>6, <1>7 DEF BuildInv

LEMMA ExitStep == BuildInv /\ Exit => BuildInv'
<1> SUFFICES ASSUME BuildInv, Exit PROVE BuildInv'
  OBVIOUS
<1>1. TypeOK /\ Summed
  BY DEF BuildInv
<1>2. /\ pc' = "idle" /\ cmd' = 1 /\ left' = {} /\ output' = NoFiles /\ failed' = FALSE
      /\ UNCHANGED <<tree, spec, packaged, torn, report, edits, fails>>
  BY DEF Exit, Idle, history
<1>3. cmd' \in 1..(Len(spec'.package) + 1)
  <2>1. Len(spec.package) \in Nat
    BY <1>1, SpecType
  <2> QED
    BY <2>1, <1>2
<1>4. TypeOK'
  BY <1>1, <1>2, <1>3, EmptyDirType DEF TypeOK, Outputs
<1>5. Building' /\ Summing'
  BY <1>2 DEF Building, Summing, NoFiles
<1>6. Summed'
  BY <1>1, <1>2, SummedKept
<1> QED
  BY <1>4, <1>5, <1>6 DEF BuildInv

LEMMA BuildInvNext == BuildInv /\ [Next]_vars => BuildInv'
<1> SUFFICES ASSUME BuildInv, [Next]_vars PROVE BuildInv'
  OBVIOUS
<1>1. CASE Next
  BY <1>1, EditSteps, StartBuildStep, CleanStep, RunCommandStep, FailCommandStep, WriteDescStep,
     RemoveSumsStep, AppendSumStep, BuiltStep, ExitStep DEF Next
<1>2. CASE UNCHANGED vars
  BY <1>2 DEF vars, script, history, BuildInv, TypeOK, Building, Summing, Summed, SummedAt, dir
<1> QED
  BY <1>1, <1>2

LEMMA BuildInvCorrect == Spec => []BuildInv
BY BuildInvInit, BuildInvNext, PTL DEF Spec

-----------------------------------------------------------------------------
(* What follows *)

\* The line SumOf finds is one of the lines for the resource.
LEMMA GreatestIndex ==
    ASSUME NEW n \in Nat, NEW T \in SUBSET (1..n), T # {}
    PROVE  \E x \in T : \A y \in T : y <= x
<1> DEFINE R == OpToRel(<, Nat)
           D == {n - x : x \in T}
<1>1. R = {ss \in Nat \X Nat : ss[1] < ss[2]}
  BY DEF OpToRel
<1>2. IsWellFoundedOn(R, Nat)
  BY NatLessThanWellFounded
<1> HIDE DEF R
<1>3. D \in SUBSET Nat /\ D # {}
  <2>1. \A x \in T : n - x \in Nat
    OBVIOUS
  <2> QED
    BY <2>1
<1> HIDE DEF D
<1>4. PICK z \in D : \A y \in D : ~ (<<y, z>> \in R)
  BY <1>2, <1>3, WFMin
<1>5. ASSUME NEW y \in D PROVE z <= y
  <2>1. z \in Nat /\ y \in Nat /\ <<y, z>> \notin R
    BY <1>3, <1>4
  <2>2. <<y, z>> \in Nat \X Nat /\ ~(<<y, z>>[1] < <<y, z>>[2])
    BY <1>1, <2>1
  <2>3. ~(y < z)
    BY <2>2
  <2> QED
    BY <2>1, <2>3
<1>6. PICK x \in T : z = n - x
  BY DEF D
<1>7. \A y \in T : n - x <= n - y
  BY <1>5, <1>6 DEF D
<1>8. \A y \in T : y <= x
  BY <1>7
<1> QED
  BY <1>8

LEMMA SumOfLine ==
    ASSUME NEW d \in Dir, NEW f \in Path
    PROVE  \/ /\ SumOf(d, f) = None
              /\ \A k \in LinesRead(d) : d.sums[k].path # f
           \/ \E k \in DOMAIN d.sums : d.sums[k].path = f /\ SumOf(d, f) = d.sums[k].sum
<1> DEFINE lines == {k \in LinesRead(d) : d.sums[k].path = f}
<1>1. d.sums \in Seq(Entry) /\ d.eol \in BOOLEAN
  BY DEF Dir
<1>2. Len(d.sums) \in Nat /\ DOMAIN d.sums = 1..Len(d.sums)
  BY <1>1, LenProperties
<1>3. lines \in SUBSET (1..Len(d.sums))
  BY <1>2 DEF LinesRead
<1>4. CASE lines = {}
  BY <1>4 DEF SumOf
<1>5. CASE lines # {}
  <2> DEFINE last == CHOOSE k \in lines : \A m \in lines : m <= k
  <2>1. last \in lines
    BY <1>2, <1>3, <1>5, GreatestIndex
  <2>2. SumOf(d, f) = d.sums[last].sum
    BY <1>5 DEF SumOf
  <2> QED
    BY <2>1, <2>2, <1>2, <1>3
<1> QED
  BY <1>4, <1>5

LEMMA ReleasedHolds == BuildInv => ReleasedIsBuilt
<1> SUFFICES ASSUME BuildInv, Loads(tree), VerifyPasses
             PROVE  \E out \in packaged[spec.version] : \A f \in File :
                        \/ dir.files[f] = out[f]
                        \/ dir.files[f] = None /\ spec.version \in torn
  BY DEF ReleasedIsBuilt
<1> DEFINE v == spec.version
<1>1. v \in Version /\ dir \in Dir
  BY SpecType, DirType DEF BuildInv, dir
<1>2. dir.sums # <<>> /\ \A k \in DOMAIN dir.sums : dir.files[dir.sums[k].path] = dir.sums[k].sum
  BY DEF VerifyPasses
<1>3. PICK out \in packaged[v] : /\ Describe(dir.sums, out)
                                 /\ v \notin torn => Cover(dir.sums, out)
  BY <1>1, <1>2 DEF BuildInv, Summed, SummedAt, dir
<1>4. DirLoads(dir)
  BY <1>1 DEF Loads, dir
<1>5. ASSUME NEW f \in File, dir.files[f] # None PROVE dir.files[f] = out[f]
  <2>1. f \in Resources(dir) /\ f \in Path
    BY <1>5 DEF Resources, Path
  <2>2. SumOf(dir, f) # None /\ SumOf(dir, f) = dir.files[f]
    BY <2>1, <1>4 DEF DirLoads, Embedded, PackVerifies, ResourceVerifies
  <2>3. PICK k \in DOMAIN dir.sums : dir.sums[k].path = f /\ SumOf(dir, f) = dir.sums[k].sum
    BY <2>1, <2>2, <1>1, SumOfLine
  <2> QED
    BY <2>2, <2>3, <1>3 DEF Describe
<1>6. ASSUME NEW f \in File, dir.files[f] = None, v \notin torn PROVE out[f] = None
  <2> SUFFICES ASSUME out[f] # None PROVE FALSE
    OBVIOUS
  <2>1. PICK k \in DOMAIN dir.sums : dir.sums[k].path = f
    BY <1>3, <1>6 DEF Cover, Path
  <2> QED
    BY <2>1, <1>2, <1>3, <1>6 DEF Describe
<1> QED
  BY <1>5, <1>6, <1>3

LEMMA CoverNeedsLines ==
    ASSUME NEW sums \in Seq(Entry), NEW out, NEW p \in Path, out[p] # None, Cover(sums, out)
    PROVE  sums # <<>>
<1>1. PICK k \in DOMAIN sums : TRUE
  BY DEF Cover
<1>2. k \in 1..Len(sums) /\ Len(sums) \in Nat
  BY LenProperties
<1> QED
  BY <1>2, EmptySeq

LEMMA RebuildHolds == BuildInv => RebuildHeals
<1> SUFFICES ASSUME BuildInv, pc = "done", spec.desc # "", \E f \in File : output[f] # None
             PROVE  VerifyPasses /\ PackVerifies(dir) /\ dir.files = output
  BY DEF RebuildHeals
<1>1. /\ dir.files = output /\ dir.desc = spec.desc /\ dir.eol
      /\ Describe(dir.sums, output) /\ Cover(dir.sums, output)
  BY DEF BuildInv, Building, Summing
<1>2. dir \in Dir /\ dir.sums \in Seq(Entry)
  BY SpecType, DirType DEF BuildInv, dir
<1>3. dir.sums # <<>>
  BY <1>1, <1>2, CoverNeedsLines DEF Path
<1>4. VerifyPasses
  BY <1>1, <1>3 DEF VerifyPasses, Describe
<1>5. ASSUME NEW f \in Resources(dir) PROVE ResourceVerifies(dir, f)
  <2>1. f \in Path /\ output[f] # None
    BY <1>1, <1>5 DEF Resources, Path
  <2>2. \E k \in LinesRead(dir) : dir.sums[k].path = f
    BY <1>1, <2>1 DEF Cover, LinesRead
  <2>3. PICK k \in DOMAIN dir.sums : dir.sums[k].path = f /\ SumOf(dir, f) = dir.sums[k].sum
    BY <1>2, <2>1, <2>2, SumOfLine
  <2> QED
    BY <2>1, <2>3, <1>1 DEF ResourceVerifies, Describe
<1>6. Resources(dir) # {}
  BY <1>1 DEF Resources
<1> QED
  BY <1>1, <1>4, <1>5, <1>6 DEF PackVerifies

\* The variables of PackBuild keep their types.
THEOREM BuildTypeCorrect == Spec => []TypeOK
BY BuildInvCorrect, PTL DEF BuildInv

\* What passes pack-verify.sh and is loaded by New is what package() wrote in
\* a build of this version, or lacks resources because a build was interrupted
\* while it wrote SUMS.
THEOREM ReleasedIsBuiltCorrect == Spec => []ReleasedIsBuilt
BY BuildInvCorrect, ReleasedHolds, PTL

\* A build that gets done leaves a pack that verifies, loads and is what
\* package() wrote, whatever was there before.
THEOREM RebuildHealsCorrect == Spec => []RebuildHeals
BY BuildInvCorrect, RebuildHolds, PTL
=============================================================================
