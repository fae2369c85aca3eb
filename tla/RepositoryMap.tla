---------------------------- MODULE RepositoryMap ----------------------------
(***************************************************************************)
(* What RepositoryService makes of the files it has found                  *)
(* (repository_service.py): the files that imports lead to, and the tree   *)
(* of directories with its count of nodes.                                 *)
(***************************************************************************)
EXTENDS Naturals, Sequences, FiniteSets, SequencesExt

CONSTANTS
    Listings,       \* lists of files in the order of their paths; a file has the names
                    \* of its directories, its own and its suffix: [dir, name, ext]
    References,     \* imports: [dots, parts], of a module or a path
    Hidden,         \* for a name that begins with dots, the rest of it
    Dotted          \* for one with a dot in it, the [name, ext] a file of that name has
Parent == ".."

File(dir, name, ext) == [dir |-> dir, name |-> name, ext |-> ext]
Path(f) == Append(f.dir, f.name \o "." \o f.ext)

\* A path is that of one file or of a directory, and no name is ".." or hides another.
ASSUME MapAssumption ==
    /\ Listings \subseteq Seq([dir : Seq(STRING), name : STRING, ext : STRING])
    /\ \A list \in Listings : \A i, j \in DOMAIN list :
          /\ Path(list[i]) = Path(list[j]) => i = j
          /\ \A k \in 1 .. Len(list[j].dir) : Path(list[i]) # SubSeq(list[j].dir, 1, k)
          /\ Parent # list[i].name /\ Parent \notin ToSet(list[i].dir)
    /\ References \subseteq [dots : Nat, parts : Seq(STRING \ {Parent})]
    /\ Parent \notin DOMAIN Hidden \cup DOMAIN Dotted
    /\ \A n \in DOMAIN Dotted : n = Dotted[n].name \o "." \o Dotted[n].ext

VARIABLES
    listing,        \* the files of the repository
    resolved,       \* an import and what it leads to: a set of at most one of
                    \* [source, reference, file]
    halted,         \* the import that ended the analysis: of at most one
    nodes,          \* the tree as a sequence of nodes: [key, name, above]
    directories,    \* keys of directory_nodes
    placed, level,  \* files that are in the tree, directories of the next one
    total           \* how many nodes are counted, 0 before

mapVars == <<listing, resolved, halted, nodes, directories, placed, level, total>>

MapInit ==
    /\ listing \in Listings /\ resolved = {} /\ halted = {}
    /\ nodes = <<>> /\ directories = {} /\ placed = 0 /\ level = 0 /\ total = 0

(* ------------------------------- imports ------------------------------ *)

Ups(dir, n) == SubSeq(dir, 1, IF n < Len(dir) THEN Len(dir) - n ELSE 0)

\* _resolve_python_import_path: one dot is the directory of the file, each
\* further one goes up, at most to the root; no dots start from there.
PythonBase(source, reference) ==
    IF reference.dots = 0 THEN reference.parts
    ELSE Ups(source.dir, reference.dots - 1) \o reference.parts

\* lstrip("./") takes the dots off a name that begins with them, with_suffix puts
\* the suffix of a module in the place of what follows the dot of a directory's name.
Stripped(path) ==
    IF path[1] \in DOMAIN Hidden THEN <<Hidden[path[1]]>> \o Tail(path) ELSE path
Stem(n) == IF n \in DOMAIN Dotted THEN Dotted[n].name ELSE n
PythonCandidates(base) ==
    <<File(Front(Stripped(base)), Stem(Last(Stripped(base))), "py"),
      File(Stripped(base), "__init__", "py")>>

\* _resolve_javascript_import_path: the path is appended as it is written, and is
\* the only candidate if it has a suffix.
ScriptBase(source, reference) ==
    source.dir \o [i \in 1 .. reference.dots - 1 |-> Parent] \o reference.parts
ScriptCandidates(base) ==
    IF Last(base) \in DOMAIN Dotted
    THEN <<File(Front(base), Dotted[Last(base)].name, Dotted[Last(base)].ext)>>
    ELSE <<File(Front(base), Last(base), "ts"), File(Front(base), Last(base), "js"),
           File(base, "index", "ts"), File(base, "index", "js")>>

\* The first candidate there is.
FirstFound(candidates) ==
    {candidates[i] : i \in {n \in DOMAIN candidates :
        /\ candidates[n] \in ToSet(listing)
        /\ \A m \in 1 .. n - 1 : candidates[m] \notin ToSet(listing)}}

\* An import of the root directory itself has no name: with_suffix raises, and
\* the analysis of the whole repository ends.  A script's path begins with a dot.
Base(source, reference) ==
    IF source.ext = "py" THEN PythonBase(source, reference) ELSE ScriptBase(source, reference)
Raises(source, reference) == Base(source, reference) = <<>> /\ reference.dots > 0
LedTo(source, reference) ==
    LET base == Base(source, reference)
    IN IF base = <<>> \/ (source.ext # "py" /\ reference.dots = 0) THEN {}
       ELSE FirstFound(IF source.ext = "py" THEN PythonCandidates(base)
                       ELSE ScriptCandidates(base))

\* The name of a module is taken apart at its dots.
ResolveImport ==
    /\ resolved = {} /\ halted = {}
    /\ \E source \in ToSet(listing), reference \in References :
          /\ source.ext = "py" => ToSet(reference.parts) \cap DOMAIN Dotted = {}
          /\ resolved' = {[source |-> source, reference |-> reference, file |-> f] :
                             f \in LedTo(source, reference)}
          /\ halted' = IF Raises(source, reference)
                       THEN {[source |-> source, reference |-> reference]} ELSE {}
    /\ UNCHANGED <<listing, nodes, directories, placed, level, total>>

(* ------------------------------- the tree ----------------------------- *)

Node(key, name, above) == [key |-> key, name |-> name, above |-> above]
FilePlaced == listing[placed + 1]

\* build_repository_tree: the next directory above a file, unless it is there.
EnterDirectory ==
    /\ halted = {} /\ placed < Len(listing) /\ level < Len(FilePlaced.dir)
    /\ LET key == SubSeq(FilePlaced.dir, 1, level + 1)
       IN /\ nodes' = IF key \in directories THEN nodes
                      ELSE Append(nodes, Node(key, FilePlaced.dir[level + 1],
                                              SubSeq(FilePlaced.dir, 1, level)))
          /\ directories' = directories \cup {key}
    /\ level' = level + 1
    /\ UNCHANGED <<listing, resolved, halted, placed, total>>
PlaceFile ==
    /\ halted = {} /\ placed < Len(listing) /\ level = Len(FilePlaced.dir)
    /\ nodes' = Append(nodes, Node(Path(FilePlaced), FilePlaced.name, FilePlaced.dir))
    /\ placed' = placed + 1 /\ level' = 0
    /\ UNCHANGED <<listing, resolved, halted, directories, total>>

\* The root, the directories that directly hold a file, the files.
CountNodes ==
    /\ halted = {} /\ placed = Len(listing) /\ total = 0
    /\ total' = 1 + Cardinality({f.dir : f \in {g \in ToSet(listing) : g.dir # <<>>}})
                  + Len(listing)
    /\ UNCHANGED <<listing, resolved, halted, nodes, directories, placed, level>>

MapNext == ResolveImport \/ EnterDirectory \/ PlaceFile \/ CountNodes
MapSpec == MapInit /\ [][MapNext]_mapVars

(* ----------------------------- properties ----------------------------- *)

\* The directory a relative reference means, if it stays inside.
Meant(source, reference) == Ups(source.dir, reference.dots - 1) \o reference.parts

\* A relative import that leads to a file leads to the one it means, or to a
\* package's own, unless a Python one begins with a hidden name or ends in a dotted
\* one; a script's import of a parent directory leads nowhere.  No import ends the
\* analysis but that of the root directory by dots alone.
ImportsLeadRight ==
    /\ \A r \in resolved :
          LET meant == Meant(r.source, r.reference)
          IN /\ r.file \in ToSet(listing)
             /\ r.reference.dots - 1 \in 0 .. Len(r.source.dir) =>
                   /\ \/ meant \in {Append(r.file.dir, r.file.name), r.file.dir}
                      \/ r.source.ext # "py" /\ meant = Path(r.file)
                      \/ /\ r.source.ext = "py"
                         /\ meant[1] \in DOMAIN Hidden \/ Last(meant) \in DOMAIN Dotted
                   /\ r.source.ext # "py" => r.reference.dots = 1
    /\ \A r \in halted : r.reference.parts = <<>> /\ Len(r.source.dir) <= r.reference.dots - 1

\* What resolve_local_imports says of itself, and its code does not keep: resolution is
\* best-effort, so no import keeps the repository from being analysed.
ResolutionIsBestEffort == halted = {}

\* The tree holds every file and every directory above one once, under its own
\* directories, and counts no node too many; it counts all where every directory holds a
\* file.
Directories ==
    UNION {{SubSeq(f.dir, 1, i) : i \in 1 .. Len(f.dir)} : f \in ToSet(listing)}
TreeIsWhole ==
    /\ \A i, j \in DOMAIN nodes : nodes[i].key = nodes[j].key => i = j
    /\ \A i \in DOMAIN nodes : nodes[i].above = Front(nodes[i].key)
    /\ total > 0 =>
          /\ {nodes[i].key : i \in DOMAIN nodes} = Directories \cup {Path(f) : f \in ToSet(listing)}
          /\ total <= 1 + Len(nodes)
          /\ Directories \subseteq {f.dir : f \in ToSet(listing)} => total = 1 + Len(nodes)

\* The map of a repository has every file where it is, and imports lead there.
MapIsTrue == ImportsLeadRight /\ TreeIsWhole
=============================================================================
