------------------------------ MODULE PackDump ------------------------------
(***************************************************************************)
(* "extension pack dump" (cmd/extension/pack): the resources of a pack are *)
(* written to a directory, one file after the other, and at the end a      *)
(* kustomization.yaml that lists them, if it is asked for.                 *)
(*                                                                         *)
(* The command may be interrupted anywhere and be run again, for another   *)
(* version or from another release, on the same directory; nothing is ever *)
(* removed from it.  A single file is written at once or not at all.       *)
(***************************************************************************)
EXTENDS Assets

CONSTANTS
    KFile,      \* "kustomization.yaml", which may be one of File
    Trees,      \* releases: the trees that may be compiled into the binary
    MaxRuns     \* bound: runs of the command

ASSUME PackDumpConstants ==
    /\ Trees \subseteq [Version -> Dir]
    /\ MaxRuns \in Nat

VARIABLES
    tree,       \* assets.FS of the binary
    disk,       \* what is at --path, by version and file name
    pc,
    args,       \* version, withKustomization and skipVerify
    left,       \* pack.Resources that have not been written
    names,      \* resourceNames
    runs

vars == <<tree, disk, pc, args, left, names, runs>>

\* What a file on the disk holds: nothing, a resource or a kustomization.
NoFile           == [kind |-> "none"]
Data(c)          == [kind |-> "resource", content |-> c]
Kustomization(s) == [kind |-> "kustomization", resources |-> s]

OnDisk == File \cup {KFile}
Args   == [version : Version, kustomization : BOOLEAN, skip : BOOLEAN]

\* assets.New: with --skip-verify all but the verification of the packs.
Opens(t, skip) ==
    IF skip THEN \A v \in Version : Embedded(t[v]) => t[v].desc # None /\ t[v].sums # <<>>
    ELSE Loads(t)

\* "pack files" and "pack sums": what they print of a pack.
ListFiles(v) == {[path |-> f, sum |-> SumOf(tree[v], f)] : f \in Resources(tree[v])}
PrintSums(v) == {tree[v].sums[k] : k \in DOMAIN tree[v].sums}

Init ==
    /\ tree \in Trees
    /\ disk = [v \in Version |-> [f \in OnDisk |-> NoFile]]
    /\ pc = "idle" /\ left = {} /\ names = {} /\ runs = MaxRuns
    /\ args \in Args

-----------------------------------------------------------------------------
\* Another release of the binary is used.
Upgrade(t) ==
    /\ pc \in {"idle", "dumped"}
    /\ pc' = "idle" /\ tree' = t
    /\ UNCHANGED <<disk, args, left, names, runs>>

\* The command is run; without the pack it ends with an error.
Start(a) ==
    /\ pc \in {"idle", "dumped"} /\ runs > 0 /\ runs' = runs - 1
    /\ Opens(tree, a.skip) /\ a.version \in Packs(tree)
    /\ pc' = "write" /\ args' = a
    /\ left' = Resources(tree[a.version]) /\ names' = {}
    /\ UNCHANGED <<tree, disk>>

\* The next of the resources is written.  Glob sorts them; here their order
\* is any.
WriteResource(f) ==
    /\ pc = "write" /\ f \in left
    /\ disk' = [disk EXCEPT ![args.version][f] = Data(tree[args.version].files[f])]
    /\ left' = left \ {f} /\ names' = names \cup {f}
    /\ UNCHANGED <<tree, pc, args, runs>>

\* Mutated: the kustomization is written when it is known what to list.
KustomizationFirst ==
    /\ pc = "write" /\ names = {} /\ args.kustomization
    /\ disk' = [disk EXCEPT ![args.version][KFile] = Kustomization(left)]
    /\ pc' = IF left = {} THEN "dumped" ELSE pc
    /\ UNCHANGED <<tree, args, left, names, runs>>

\* Mutated: the kustomization is only written if there is none.
KustomizationOnce ==
    /\ pc = "write" /\ left = {}
    /\ pc' = "dumped"
    /\ disk' = IF args.kustomization /\ disk[args.version][KFile] = NoFile
               THEN [disk EXCEPT ![args.version][KFile] = Kustomization(names)]
               ELSE disk
    /\ UNCHANGED <<tree, args, left, names, runs>>

\* Mutated: all that the directory of the pack has is listed.
KustomizationOfAll ==
    /\ pc = "write" /\ left = {}
    /\ pc' = "dumped"
    /\ disk' = IF args.kustomization
               THEN [disk EXCEPT ![args.version][KFile] = Kustomization(names \cup {"SUMS"})]
               ELSE disk
    /\ UNCHANGED <<tree, args, left, names, runs>>

\* The end of the command, with or without a kustomization.
WriteKustomization ==
    /\ pc = "write" /\ left = {}
    /\ pc' = "dumped"
    /\ disk' = IF args.kustomization
               THEN [disk EXCEPT ![args.version][KFile] = Kustomization(names)]
               ELSE disk
    /\ UNCHANGED <<tree, args, left, names, runs>>

\* A file cannot be written, or the command is interrupted.
Interrupt ==
    /\ pc = "write"
    /\ pc' = "idle" /\ left' = {} /\ names' = {}
    /\ UNCHANGED <<tree, disk, args, runs>>

Next ==
    \/ \E t \in Trees : Upgrade(t)
    \/ \E a \in Args : Start(a)
    \/ \E f \in File : WriteResource(f)
    \/ WriteKustomization \/ Interrupt

Spec == Init /\ [][Next]_vars

-----------------------------------------------------------------------------
(* Properties *)

TypeOK ==
    /\ tree \in Trees
    /\ \A v \in Version : \A f \in OnDisk :
          disk[v][f] \in {NoFile} \cup {Data(c) : c \in Content}
                                  \cup {Kustomization(s) : s \in SUBSET File}
    /\ pc \in {"idle", "write", "dumped"}
    /\ args \in Args
    /\ left \subseteq File /\ names \subseteq File
    /\ runs \in 0..MaxRuns

\* The resources that a kustomization lists are there at any time, whichever
\* commands were interrupted: kustomize does not miss any of them.
ListedIsThere ==
    \A v \in Version :
        LET k == disk[v][KFile] IN
        k.kind = "kustomization" => \A f \in k.resources : disk[v][f] # NoFile

\* A dump that got done gives back the pack: its resources, and a
\* kustomization that lists these and no file that is left from before.  Only a
\* resource that is named like the kustomization is lost.
DumpedIsPack ==
    pc = "dumped" =>
        LET d == tree[args.version] IN
        /\ \A f \in Resources(d) \ {KFile} : disk[args.version][f] = Data(d.files[f])
        /\ args.kustomization => disk[args.version][KFile] = Kustomization(Resources(d))

\* The checksums that "pack files" and "pack sums" print are those of the files
\* that "pack dump" has written, unless verification was skipped.
ChecksumsFit ==
    pc = "dumped" /\ ~args.skip =>
        \A line \in ListFiles(args.version) \cup PrintSums(args.version) :
            \/ disk[args.version][line.path] = Data(line.sum)
            \/ line.path = KFile /\ args.kustomization
=============================================================================
