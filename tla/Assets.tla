------------------------------- MODULE Assets -------------------------------
(***************************************************************************)
(* How the collection of packs is read from the tree of files that is      *)
(* compiled into the binary (pkg/assets): the Go embed patterns, New and   *)
(* the verification of checksums.  The tree is the one of a single pack    *)
(* name, with one directory for each version.                              *)
(*                                                                         *)
(* SHA-256 tells any two contents apart, so the checksum of a content is   *)
(* the content itself.                                                     *)
(***************************************************************************)
EXTENDS Integers, Sequences

CONSTANTS
    Version,    \* versions of the pack
    File,       \* the names "*.yaml" matches in a version's directory
    Nested,     \* resources only find sees: in sub-directories, or *.YAML
    Content,    \* contents, and checksums, of a resource
    Desc        \* descriptions; "" stands for one of white space only

None == "none"

ASSUME AssetsConstants ==
    /\ None \notin Content \cup Desc
    /\ File \cap Nested = {}

Path == File \cup Nested

\* The directory of one version.  A line of SUMS has a checksum and a path;
\* SUMS does not exist when there is no line.  eol: its last line ends with a
\* newline.
Entry == [path : Path, sum : Content]
Dir == [files : [Path -> Content \cup {None}],
        desc  : Desc \cup {None},
        sums  : Seq(Entry),
        eol   : BOOLEAN]

EmptyDir == [files |-> [p \in Path |-> None], desc |-> None, sums |-> <<>>, eol |-> TRUE]

-----------------------------------------------------------------------------
\* The resources Glob finds, without descending into sub-directories.
Resources(d) == {f \in File : d.files[f] # None}

\* The directory is part of the embedded file system.
Embedded(d) == d.desc # None \/ d.sums # <<>> \/ Resources(d) # {}

\* SumsFromReader: ReadString reports the end of the file together with a last
\* line that has no newline, and the line is not looked at.  Of two lines for
\* one path the later one counts.
LinesRead(d) == IF d.eol THEN DOMAIN d.sums ELSE 1..(Len(d.sums) - 1)

SumOf(d, f) ==
    LET lines == {k \in LinesRead(d) : d.sums[k].path = f} IN
    IF lines = {} THEN None
    ELSE d.sums[CHOOSE k \in lines : \A m \in lines : m <= k].sum

\* Mutated: a resource without a checksum is let through.
ResourceVerifiesIfSummed(d, f) == SumOf(d, f) \in {None, d.files[f]}

\* Mutated: the checksum is looked up and not compared.
ResourceVerifiesIfListed(d, f) == SumOf(d, f) # None

\* Resource.Verify: there is a checksum and it is the right one.
ResourceVerifies(d, f) == SumOf(d, f) # None /\ SumOf(d, f) = d.files[f]

\* Pack.Verify; the directory's name is the version and is never empty.
PackVerifies(d) ==
    /\ d.desc # ""
    /\ Resources(d) # {}
    /\ \A f \in Resources(d) : ResourceVerifies(d, f)

\* New reads both metadata files first and only then leaves out a directory
\* that has no resources.
DirLoads(d) ==
    Embedded(d) => /\ d.desc # None /\ d.sums # <<>>
                   /\ Resources(d) = {} \/ PackVerifies(d)

\* New succeeds, and the versions it has packs for.
Loads(tree)  == \A v \in Version : DirLoads(tree[v])
Packs(tree)  == {v \in Version : Resources(tree[v]) # {}}
=============================================================================
