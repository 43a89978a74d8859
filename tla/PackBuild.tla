------------------------------ MODULE PackBuild ------------------------------
(***************************************************************************)
(* Building and verifying a pack: scripts/pack-build.sh, run command by    *)
(* command and interrupted anywhere, scripts/pack-verify.sh, and the       *)
(* collection that Assets reads from the tree they leave.  In between the  *)
(* PACKAGE spec and the tree are edited.                                   *)
(*                                                                         *)
(* package() is a list of commands that each write a resource.  It is      *)
(* called in the middle of an && list,                                     *)
(*     cd "${SRC_DIR}" && package && cd "${OLDPWD}"                        *)
(* where bash suspends set -e, inside the function too: a command that     *)
(* fails is passed over, and so is the status package() returns.  The same *)
(* holds for package_test().                                               *)
(***************************************************************************)
EXTENDS Assets

CONSTANTS
    Specs,      \* PACKAGE specs of the pack
    MaxEdits,   \* bound: edits of the spec and of the tree
    MaxFails    \* bound: commands of package() that fail

\* A PACKAGE spec: package() as a sequence of commands, and what running
\* package_test() comes to.
Command == [path : Path, content : Content]
PackageSpec == [version : Version, desc : Desc, package : Seq(Command),
             test : {"undefined", "passes", "fails"}]

ASSUME PackBuildConstants ==
    Specs \subseteq PackageSpec /\ MaxEdits \in Nat /\ MaxFails \in Nat

VARIABLES
    tree,       \* pkg/assets/packs/<name>, the directories of the versions
    spec,       \* specs/<name>/PACKAGE
    pc,         \* the step of pack-build.sh that is next
    cmd,        \* the command of package() that is next
    left,       \* resources still to be listed in SUMS
    output,     \* history: what package() has written in this build
    failed,     \* history: a command of package() failed in this build
    packaged,   \* history: outputs of the package() calls that got to their end
    torn,       \* history: versions whose SUMS was left before it was complete
    report,     \* what pack-verify.sh said of the spec and tree as they are
    edits, fails

script  == <<pc, cmd, left, output, failed>>
history == <<packaged, torn>>
vars    == <<tree, spec, script, history, report, edits, fails>>

\* The directory and the version the scripts work on: PACK_DIR.
dir == tree[spec.version]

NoFiles == [p \in Path |-> None]

Idle == /\ pc' = "idle" /\ cmd' = 1 /\ left' = {}
        /\ output' = NoFiles /\ failed' = FALSE

Init ==
    /\ tree = [v \in Version |-> EmptyDir]
    /\ spec \in Specs
    /\ pc = "idle" /\ cmd = 1 /\ left = {} /\ output = NoFiles /\ failed = FALSE
    /\ packaged = [v \in Version |-> {}]
    /\ torn = {}
    /\ report = "none"
    /\ edits = MaxEdits /\ fails = MaxFails

-----------------------------------------------------------------------------
(* People (external) *)

Edit == /\ pc = "idle"
        /\ edits > 0 /\ edits' = edits - 1
        /\ report' = "none"
        /\ UNCHANGED <<script, history, fails>>

EditSpec(s) == Edit /\ spec' = s /\ UNCHANGED tree

\* A resource is added, changed or deleted by hand or by a merge.
EditResource(v, p, c) ==
    /\ Edit
    /\ tree' = [tree EXCEPT ![v].files[p] = c]
    /\ UNCHANGED spec

\* SUMS is saved without its last newline.
EditSums(v) ==
    /\ Edit
    /\ tree[v].sums # <<>>
    /\ tree' = [tree EXCEPT ![v].eol = FALSE]
    /\ UNCHANGED spec

-----------------------------------------------------------------------------
(* pack-build.sh *)

\* The checks of the spec have passed and PACK_DIR is there.
StartBuild ==
    /\ pc = "idle"
    /\ pc' = "clean" /\ report' = "none"
    /\ UNCHANGED <<tree, spec, cmd, left, output, failed, history, edits, fails>>

\* find -delete, file by file.
Clean ==
    /\ pc = "clean"
    /\ \/ \E p \in Path :
             /\ dir.files[p] # None
             /\ tree' = [tree EXCEPT ![spec.version].files[p] = None]
             /\ pc' = pc
       \/ dir.files = NoFiles /\ pc' = "package" /\ tree' = tree
    /\ UNCHANGED <<spec, cmd, left, output, failed, history, report, edits, fails>>

RunCommand ==
    LET c == spec.package[cmd] IN
    /\ pc = "package" /\ cmd <= Len(spec.package)
    /\ tree' = [tree EXCEPT ![spec.version].files[c.path] = c.content]
    /\ output' = [output EXCEPT ![c.path] = c.content]
    /\ cmd' = cmd + 1
    /\ UNCHANGED <<spec, pc, left, failed, history, report, edits, fails>>

FailCommand ==
    /\ pc = "package" /\ cmd <= Len(spec.package)
    /\ fails > 0 /\ fails' = fails - 1
    /\ failed' = TRUE
    /\ cmd' = cmd + 1
    /\ UNCHANGED <<tree, spec, pc, left, output, history, report, edits>>

\* package() is over; whatever it returned, DESC is written.
WriteDesc ==
    /\ pc = "package" /\ cmd > Len(spec.package)
    /\ tree' = [tree EXCEPT ![spec.version].desc = spec.desc]
    /\ packaged' = [packaged EXCEPT ![spec.version] = @ \cup {output}]
    /\ pc' = "sums"
    /\ UNCHANGED <<spec, cmd, left, output, failed, torn, report, edits, fails>>

\* Mutated: the old SUMS is appended to.
KeepSums ==
    /\ pc = "sums"
    /\ left' = {p \in Path : dir.files[p] # None}
    /\ torn' = torn \cup {spec.version}
    /\ pc' = "append"
    /\ UNCHANGED <<tree, spec, cmd, output, failed, packaged, report, edits, fails>>

\* Mutated: SUMS gets a line for every resource there could be.
ListEverything ==
    /\ pc = "sums"
    /\ tree' = [tree EXCEPT ![spec.version].sums = <<>>, ![spec.version].eol = TRUE]
    /\ left' = Path
    /\ torn' = torn \cup {spec.version}
    /\ pc' = "append"
    /\ UNCHANGED <<spec, cmd, output, failed, packaged, report, edits, fails>>

\* rm SUMS and list the resources, those in sub-directories included.
RemoveSums ==
    /\ pc = "sums"
    /\ tree' = [tree EXCEPT ![spec.version].sums = <<>>, ![spec.version].eol = TRUE]
    /\ left' = {p \in Path : dir.files[p] # None}
    /\ torn' = torn \cup {spec.version}
    /\ pc' = "append"
    /\ UNCHANGED <<spec, cmd, output, failed, packaged, report, edits, fails>>

\* sha256sum of the next resource is appended to SUMS.  The script sorts the
\* resources; here their order is any.
AppendSum ==
    /\ pc = "append"
    /\ \E p \in left :
          /\ tree' = [tree EXCEPT ![spec.version].sums =
                         Append(@, [path |-> p, sum |-> dir.files[p]])]
          /\ left' = left \ {p}
    /\ UNCHANGED <<spec, pc, cmd, output, failed, history, report, edits, fails>>

\* "Pack ... built successfully"
Built ==
    /\ pc = "append" /\ left = {}
    /\ pc' = "done"
    /\ torn' = torn \ {spec.version}
    /\ UNCHANGED <<tree, spec, cmd, left, output, failed, packaged, report, edits, fails>>

\* The script ends, or is interrupted before it is done.
Exit ==
    /\ pc # "idle"
    /\ Idle
    /\ UNCHANGED <<tree, spec, history, report, edits, fails>>

-----------------------------------------------------------------------------
(* pack-verify.sh *)

\* The checks of DESC and SUMS.  sha256sum --check goes through the lines of
\* SUMS and fails if there are none; it takes a last line without newline.
\* Resources that have no line are not looked at.
VerifyPasses ==
    /\ dir.desc = spec.desc
    /\ dir.sums # <<>>
    /\ \A k \in DOMAIN dir.sums : dir.files[dir.sums[k].path] = dir.sums[k].sum

\* package_test() is run and its outcome is not looked at.
Verify ==
    /\ pc = "idle"
    /\ report' = IF VerifyPasses THEN "verified successfully" ELSE "failed to verify"
    /\ UNCHANGED <<tree, spec, script, history, edits, fails>>

-----------------------------------------------------------------------------
Next ==
    \/ \E s \in Specs : EditSpec(s)
    \/ \E v \in Version, p \in Path, c \in Content \cup {None} : EditResource(v, p, c)
    \/ \E v \in Version : EditSums(v)
    \/ StartBuild \/ Clean \/ RunCommand \/ FailCommand \/ WriteDesc
    \/ RemoveSums \/ AppendSum \/ Built \/ Exit
    \/ Verify

Spec == Init /\ [][Next]_vars

-----------------------------------------------------------------------------
(* Properties *)

TypeOK ==
    /\ tree \in [Version -> Dir]
    /\ spec \in Specs
    /\ pc \in {"idle", "clean", "package", "sums", "append", "done"}
    /\ cmd \in 1..(Len(spec.package) + 1)
    /\ left \subseteq Path
    /\ output \in [Path -> Content \cup {None}]
    /\ failed \in BOOLEAN
    /\ packaged \in [Version -> SUBSET [Path -> Content \cup {None}]]
    /\ torn \subseteq Version
    /\ report \in {"none", "verified successfully", "failed to verify"}
    /\ edits \in 0..MaxEdits /\ fails \in 0..MaxFails

\* Whatever interrupted builds and edits have left behind, what passes both
\* pack-verify.sh and New is, resource by resource, what package() wrote when
\* it last got to its end, or in an earlier build of this version.  Neither
\* check is enough alone: New does not miss a resource that is gone, and
\* pack-verify.sh does not see one that has no checksum.  After a build that
\* was interrupted while it wrote SUMS resources may be missing nevertheless,
\* namely the ones that have no line in it.
ReleasedIsBuilt ==
    Loads(tree) /\ VerifyPasses =>
        \E out \in packaged[spec.version] : \A f \in File :
            \/ dir.files[f] = out[f]
            \/ dir.files[f] = None /\ spec.version \in torn

\* A build that gets done makes up for all that was wrong with the directory:
\* the pack verifies, loads and is what package() wrote in this very build.
RebuildHeals ==
    pc = "done" /\ spec.desc # "" /\ (\E f \in File : output[f] # None) =>
        /\ VerifyPasses
        /\ PackVerifies(dir)
        /\ dir.files = output

\* The script runs under "set -e" and says "Failed to build pack" if it fails:
\* when it says that the pack was built, all of package() went through.
BuiltMeansPackaged == pc = "done" => ~failed
=============================================================================
