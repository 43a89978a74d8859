--------------------------- MODULE PackDumpProofs ---------------------------
(***************************************************************************)
(* What "pack dump" leaves on the disk, for any releases and any number of *)
(* commands that are interrupted and run again in the same directory.      *)
(*                                                                         *)
(* The argument is about what a command has written so far: names are the  *)
(* resources whose files it has replaced, names and left together are the  *)
(* pack, and no file ever goes away.                                       *)
(***************************************************************************)
EXTENDS PackDump, SequenceTheorems, TLAPS

Files == [OnDisk -> {NoFile} \cup {Data(c) : c \in Content}
                             \cup {Kustomization(s) : s \in SUBSET File}]

Pack == tree[args.version]

\* The resource f of the pack is in its file.
Dumped(f) == disk[args.version][f] = Data(Pack.files[f])

\* A command in between, and one that is through.
Command ==
    /\ pc = "write" => left \cup names = Resources(Pack) /\ \A f \in names : Dumped(f)
    /\ pc = "dumped" =>
          /\ \A f \in Resources(Pack) : Dumped(f) \/ (f = KFile /\ args.kustomization)
          /\ args.kustomization =>
                disk[args.version][KFile] = Kustomization(Resources(Pack))
    /\ pc \in {"write", "dumped"} /\ ~args.skip => Loads(tree)

\* The bound on the runs of the command apart.
DumpInv ==
    /\ tree \in Trees /\ disk \in [Version -> Files]
    /\ pc \in {"idle", "write", "dumped"} /\ args \in Args
    /\ left \subseteq File /\ names \subseteq File
    /\ Command /\ ListedIsThere

-----------------------------------------------------------------------------
LEMMA KindsDiffer ==
    /\ \A c : Data(c) # NoFile /\ Data(c).kind # "kustomization"
    /\ \A s : /\ Kustomization(s) # NoFile
              /\ Kustomization(s).kind = "kustomization"
              /\ Kustomization(s).resources = s
    /\ NoFile.kind # "kustomization"
BY DEF Data, NoFile, Kustomization

LEMMA TreeType ==
    ASSUME tree \in Trees, NEW v \in Version
    PROVE  /\ tree[v] \in Dir
           /\ Resources(tree[v]) \subseteq File
           /\ \A f \in Resources(tree[v]) : tree[v].files[f] \in Content
<1>1. tree[v] \in Dir
  BY PackDumpConstants
<1>2. tree[v].files \in [Path -> Content \cup {None}]
  BY <1>1 DEF Dir
<1> QED
  BY <1>1, <1>2 DEF Resources, Path

\* What a kustomization lists are resources.
LEMMA ListedType ==
    ASSUME disk \in [Version -> Files], NEW v \in Version,
           disk[v][KFile].kind = "kustomization"
    PROVE  disk[v][KFile].resources \subseteq File
<1>1. disk[v][KFile] \in {NoFile} \cup {Data(c) : c \in Content}
                                  \cup {Kustomization(s) : s \in SUBSET File}
  BY DEF Files, OnDisk
<1>2. PICK s \in SUBSET File : disk[v][KFile] = Kustomization(s)
  BY <1>1, KindsDiffer
<1> QED
  BY <1>2, KindsDiffer

\* One file is written.
LEMMA DiskWrite ==
    ASSUME disk \in [Version -> Files], NEW v \in Version, NEW f \in OnDisk,
           NEW x, x \in {NoFile} \cup {Data(c) : c \in Content}
                          \cup {Kustomization(s) : s \in SUBSET File},
           disk' = [disk EXCEPT ![v][f] = x]
    PROVE  /\ disk' \in [Version -> Files]
           /\ disk'[v][f] = x
           /\ \A g \in OnDisk \ {f} : disk'[v][g] = disk[v][g]
           /\ \A u \in Version \ {v} : disk'[u] = disk[u]
<1> DEFINE S == {NoFile} \cup {Data(c) : c \in Content} \cup {Kustomization(s) : s \in SUBSET File}
           d == [disk[v] EXCEPT ![f] = x]
<1> HIDE DEF S
<1>1. disk[v] \in [OnDisk -> S] /\ x \in S
  BY DEF Files, S
<1>2. d \in [OnDisk -> S] /\ d[f] = x /\ \A g \in OnDisk \ {f} : d[g] = disk[v][g]
  BY <1>1
<1>3. disk' = [disk EXCEPT ![v] = d]
  OBVIOUS
<1>4. d \in Files
  BY <1>2 DEF Files, S
<1> HIDE DEF d
<1> QED
  BY <1>2, <1>3, <1>4

LEMMA DumpInvInit == Init => DumpInv
<1> SUFFICES ASSUME Init PROVE DumpInv
  OBVIOUS
<1>1. disk \in [Version -> Files] /\ \A v \in Version, f \in OnDisk : disk[v][f] = NoFile
  BY DEF Init, Files
<1>2. ListedIsThere
  BY <1>1, KindsDiffer DEF ListedIsThere, OnDisk
<1> QED
  BY <1>1, <1>2 DEF Init, DumpInv, Command

\* Steps that do not write.
LEMMA UpgradeStep == \A t \in Trees : DumpInv /\ Upgrade(t) => DumpInv'
BY DEF DumpInv, Upgrade, Command, ListedIsThere

LEMMA InterruptStep == DumpInv /\ Interrupt => DumpInv'
BY DEF DumpInv, Interrupt, Command, ListedIsThere

LEMMA StartStep == \A a \in Args : DumpInv /\ Start(a) => DumpInv'
<1> SUFFICES ASSUME NEW a \in Args, DumpInv, Start(a) PROVE DumpInv'
  OBVIOUS
<1>1. /\ pc' = "write" /\ args' = a /\ left' = Resources(tree[a.version]) /\ names' = {}
      /\ tree' = tree /\ disk' = disk /\ Opens(tree, a.skip) /\ tree \in Trees
  BY DEF Start, DumpInv
<1>2. left' \subseteq File
  BY <1>1, TreeType DEF Args
<1>3. Command'
  BY <1>1 DEF Command, Opens, Pack
<1> QED
  BY <1>1, <1>2, <1>3 DEF DumpInv, ListedIsThere

\* A resource's file is replaced.
LEMMA WriteResourceStep == \A f \in File : DumpInv /\ WriteResource(f) => DumpInv'
<1> SUFFICES ASSUME NEW f \in File, DumpInv, WriteResource(f) PROVE DumpInv'
  OBVIOUS
<1> DEFINE v == args.version
           x == Data(tree[v].files[f])
<1>1. /\ pc = "write" /\ f \in left /\ left' = left \ {f} /\ names' = names \cup {f}
      /\ disk' = [disk EXCEPT ![v][f] = x]
      /\ UNCHANGED <<tree, pc, args, runs>>
  BY DEF WriteResource
<1>2. /\ tree \in Trees /\ disk \in [Version -> Files] /\ v \in Version
      /\ left \subseteq File /\ names \subseteq File /\ f \in OnDisk
      /\ left \cup names = Resources(Pack) /\ (\A g \in names : Dumped(g))
      /\ ~args.skip => Loads(tree)
  BY <1>1 DEF DumpInv, Command, Args, OnDisk
<1>3. tree[v].files[f] \in Content
  BY <1>1, <1>2, TreeType DEF Pack
<1>4. x \in {NoFile} \cup {Data(c) : c \in Content} \cup {Kustomization(s) : s \in SUBSET File}
  BY <1>3
<1> HIDE DEF x
<1>5. /\ disk' \in [Version -> Files]
      /\ disk'[v][f] = x
      /\ \A g \in OnDisk \ {f} : disk'[v][g] = disk[v][g]
      /\ \A u \in Version \ {v} : disk'[u] = disk[u]
  BY <1>1, <1>2, <1>4, DiskWrite
<1>6. Command'
  <2>1. left' \cup names' = Resources(Pack)'
    BY <1>1, <1>2 DEF Pack
  <2>2. ASSUME NEW g \in names' PROVE Dumped(g)'
    <3>1. CASE g = f
      BY <3>1, <1>1, <1>5 DEF Dumped, Pack, x
    <3>2. CASE g # f
      BY <3>2, <2>2, <1>1, <1>2, <1>5 DEF Dumped, Pack, OnDisk
    <3> QED
      BY <3>1, <3>2
  <2> QED
    BY <2>1, <2>2, <1>1, <1>2 DEF Command
<1>7. x # NoFile /\ x.kind # "kustomization"
  BY KindsDiffer DEF x
<1>8. ListedIsThere'
  <2> SUFFICES ASSUME NEW u \in Version, disk'[u][KFile].kind = "kustomization",
                      NEW g \in disk'[u][KFile].resources
               PROVE  disk'[u][g] # NoFile
    BY DEF ListedIsThere
  <2>1. ListedIsThere
    BY DEF DumpInv
  <2>2. CASE u # v
    BY <2>1, <2>2, <1>5 DEF ListedIsThere
  <2>3. CASE u = v
    <3>1. KFile # f /\ disk'[v][KFile] = disk[v][KFile]
      BY <2>3, <1>5, <1>7 DEF OnDisk
    <3>2. disk[v][g] # NoFile
      BY <2>1, <2>3, <3>1, <1>2 DEF ListedIsThere
    <3>3. g \in File
      BY <2>3, <3>1, <1>2, ListedType
    <3> QED
      BY <2>3, <3>2, <3>3, <1>5, <1>7 DEF OnDisk
  <2> QED
    BY <2>2, <2>3
<1> QED
  BY <1>1, <1>2, <1>5, <1>6, <1>8 DEF DumpInv

\* The end of a command: all of the pack is in names.
LEMMA WriteKustomizationStep == DumpInv /\ WriteKustomization => DumpInv'
<1> SUFFICES ASSUME DumpInv, WriteKustomization PROVE DumpInv'
  OBVIOUS
<1> DEFINE v == args.version
           x == Kustomization(names)
<1>1. /\ pc = "write" /\ left = {} /\ pc' = "dumped"
      /\ UNCHANGED <<tree, args, left, names, runs>>
  BY DEF WriteKustomization
<1>2. /\ tree \in Trees /\ disk \in [Version -> Files] /\ v \in Version
      /\ names \subseteq File /\ names = Resources(Pack) /\ (\A g \in names : Dumped(g))
      /\ ~args.skip => Loads(tree)
      /\ args \in Args
  BY <1>1 DEF DumpInv, Command, Args
<1>3. CASE ~args.kustomization
  <2>1. disk' = disk
    BY <1>3 DEF WriteKustomization
  <2>2. Command'
    BY <2>1, <1>1, <1>2, <1>3 DEF Command, Dumped, Pack
  <2> QED
    BY <2>1, <2>2, <1>1, <1>2 DEF DumpInv, ListedIsThere
<1>4. CASE args.kustomization
  <2>1. disk' = [disk EXCEPT ![v][KFile] = x]
    BY <1>4 DEF WriteKustomization
  <2>2. /\ KFile \in OnDisk
        /\ x \in {NoFile} \cup {Data(c) : c \in Content} \cup {Kustomization(s) : s \in SUBSET File}
    BY <1>2 DEF OnDisk
  <2>3. x # NoFile /\ x.resources = names
    BY KindsDiffer
  <2>4. x = Kustomization(Resources(Pack))
    BY <1>2
  <2> HIDE DEF x
  <2>5. /\ disk' \in [Version -> Files]
        /\ disk'[v][KFile] = x
        /\ \A g \in OnDisk \ {KFile} : disk'[v][g] = disk[v][g]
        /\ \A u \in Version \ {v} : disk'[u] = disk[u]
    BY <1>2, <2>1, <2>2, DiskWrite
  <2>6. Command'
    <3>1. \A g \in Resources(Pack)' : Dumped(g)' \/ (g = KFile /\ args'.kustomization)
      BY <1>1, <1>2, <1>4, <2>5 DEF Dumped, Pack, OnDisk
    <3>2. disk'[args'.version][KFile] = Kustomization(Resources(Pack)')
      BY <1>1, <2>4, <2>5 DEF Pack
    <3> QED
      BY <3>1, <3>2, <1>1, <1>2 DEF Command
  <2>7. ListedIsThere'
    <3> SUFFICES ASSUME NEW u \in Version, disk'[u][KFile].kind = "kustomization",
                        NEW g \in disk'[u][KFile].resources
                 PROVE  disk'[u][g] # NoFile
      BY DEF ListedIsThere
    <3>1. CASE u # v
      BY <3>1, <2>5 DEF DumpInv, ListedIsThere
    <3>2. CASE u = v
      <4>1. g \in names /\ disk[v][g] # NoFile
        BY <3>2, <2>3, <2>5, <1>2, KindsDiffer DEF Dumped
      <4> QED
        BY <3>2, <4>1, <1>2, <2>3, <2>5 DEF OnDisk
    <3> QED
      BY <3>1, <3>2
  <2> QED
    BY <1>1, <1>2, <2>5, <2>6, <2>7 DEF DumpInv
<1> QED
  BY <1>3, <1>4

LEMMA DumpInvNext == DumpInv /\ [Next]_vars => DumpInv'
<1> SUFFICES ASSUME DumpInv, [Next]_vars PROVE DumpInv'
  OBVIOUS
<1>1. CASE Next
  BY <1>1, UpgradeStep, StartStep, WriteResourceStep, WriteKustomizationStep, InterruptStep
     DEF Next
<1>2. CASE UNCHANGED vars
  BY <1>2 DEF vars, DumpInv, Command, Dumped, Pack, ListedIsThere
<1> QED
  BY <1>1, <1>2

LEMMA DumpInvCorrect == Spec => []DumpInv
BY DumpInvInit, DumpInvNext, PTL DEF Spec

LEMMA RunsCorrect == Spec => [](runs \in 0..MaxRuns)
<1>1. Init => runs \in 0..MaxRuns
  BY PackDumpConstants DEF Init
<1>2. runs \in 0..MaxRuns /\ [Next]_vars => (runs \in 0..MaxRuns)'
  <2> SUFFICES ASSUME runs \in 0..MaxRuns, [Next]_vars PROVE (runs \in 0..MaxRuns)'
    OBVIOUS
  <2>1. runs' = runs \/ (runs > 0 /\ runs' = runs - 1)
    BY DEF Next, vars, Upgrade, Start, WriteResource, WriteKustomization, Interrupt
  <2>2. MaxRuns \in Nat
    BY PackDumpConstants
  <2> QED
    BY <2>1, <2>2
<1> QED
  BY <1>1, <1>2, PTL DEF Spec

-----------------------------------------------------------------------------
\* The variables of PackDump keep their types.
THEOREM DumpTypeCorrect == Spec => []TypeOK
<1>1. DumpInv /\ runs \in 0..MaxRuns => TypeOK
  BY DEF DumpInv, TypeOK, Files
<1> QED
  BY <1>1, DumpInvCorrect, RunsCorrect, PTL

\* Whichever commands were interrupted, what a kustomization lists is there.
THEOREM ListedIsThereCorrect == Spec => []ListedIsThere
<1>1. DumpInv => ListedIsThere
  BY DEF DumpInv
<1> QED
  BY <1>1, DumpInvCorrect, PTL

\* A dump that got done gives back the pack, whatever the directory had before.
THEOREM DumpedIsPackCorrect == Spec => []DumpedIsPack
<1>1. DumpInv => DumpedIsPack
  BY DEF DumpInv, Command, DumpedIsPack, Dumped, Pack
<1> QED
  BY <1>1, DumpInvCorrect, PTL

\* Every line of SUMS is for a resource and is its checksum, in releases that
\* load: pack-verify.sh has checked the lines, and no resource is in a
\* sub-directory.
LinesVerified ==
    \A t \in Trees : Loads(t) =>
        \A v \in Version : \A k \in DOMAIN t[v].sums :
            /\ t[v].sums[k].path \in Resources(t[v])
            /\ t[v].sums[k].sum = t[v].files[t[v].sums[k].path]

\* Of such releases the checksums that "pack files" and "pack sums" print are
\* those of the files "pack dump" has written.
THEOREM ChecksumsFitCorrect == LinesVerified => (Spec => []ChecksumsFit)
<1> SUFFICES ASSUME LinesVerified PROVE Spec => []ChecksumsFit
  OBVIOUS
<1>1. DumpInv => ChecksumsFit
  <2> SUFFICES ASSUME DumpInv, pc = "dumped", ~args.skip,
                      NEW line \in ListFiles(args.version) \cup PrintSums(args.version)
               PROVE  \/ disk[args.version][line.path] = Data(line.sum)
                      \/ line.path = KFile /\ args.kustomization
    BY DEF ChecksumsFit
  <2>1. /\ tree \in Trees /\ args.version \in Version /\ Loads(tree)
        /\ \A f \in Resources(Pack) : Dumped(f) \/ (f = KFile /\ args.kustomization)
    BY DEF DumpInv, Command, Args
  <2>2. line.path \in Resources(Pack) /\ line.sum = Pack.files[line.path]
    <3>1. CASE line \in ListFiles(args.version)
      <4>1. PICK f \in Resources(Pack) : line = [path |-> f, sum |-> SumOf(Pack, f)]
        BY <3>1 DEF ListFiles, Pack
      <4>2. DirLoads(Pack)
        BY <2>1 DEF Loads, Pack
      <4>3. SumOf(Pack, f) = Pack.files[f]
        BY <4>1, <4>2 DEF DirLoads, Embedded, PackVerifies, ResourceVerifies
      <4> QED
        BY <4>1, <4>3
    <3>2. CASE line \in PrintSums(args.version)
      BY <3>2, <2>1 DEF PrintSums, LinesVerified, Pack
    <3> QED
      BY <3>1, <3>2
  <2> QED
    BY <2>1, <2>2 DEF Dumped
<1> QED
  BY <1>1, DumpInvCorrect, PTL
=============================================================================
