--------------------------- MODULE RepositoryIndex ---------------------------
(***************************************************************************)
(* RepositoryService (repository_service.py): get_or_create_index reuses   *)
(* the saved index if it is still current and scans the repository anew if *)
(* not.  Neither the check nor the scan holds the repository still: a file *)
(* is looked at several times, and edits come in between.  How a file is   *)
(* read is in FileReading, what is made of the list of files in            *)
(* RepositoryMap.                                                          *)
(***************************************************************************)
EXTENDS RepositoryMap, FileReading

CONSTANTS
    Callers,        \* threads that ask for the index
    IndexedPaths,   \* files that no pattern excludes, no two of which differ only in
                    \* the case of their names
    Versions,       \* contents of a file, and NoFileThere
    MaxIndexEdits   \* bound on edits
NoFileThere == 0
ASSUME RepositoryIndexAssumption == Versions \subseteq Nat /\ NoFileThere \in Versions

\* Contents of one length: a size does not tell them apart.
SizeOf(v) == IF v = NoFileThere THEN 0 ELSE 1 + v \div 3

NotSaved == [saved |-> FALSE]
NoEntry == [size |-> 0, hash |-> NoFileThere, symbols |-> NoFileThere]

VARIABLES
    content,        \* of every path
    savedIndex,     \* the index file
    caller,         \* what each thread is doing
    indexEdits      \* history: how many edits there were

indexVars == <<content, savedIndex, caller, indexEdits>>

\* hashes: calculate_hashes; before: how many edits there had been when this
\* began; to: paths to visit.
NotAsking == [stage |-> "rest"]
AtStage(stage, found, hashing) ==
    [stage |-> stage, index |-> found, hashes |-> hashing,
     to |-> {p \in IndexedPaths : content[p] # NoFileThere},
     entries |-> [p \in IndexedPaths |-> NoEntry], before |-> indexEdits,
     file |-> CHOOSE p \in IndexedPaths : TRUE]

IndexInit ==
    /\ content \in [IndexedPaths -> Versions]
    /\ savedIndex = NotSaved /\ indexEdits = 0
    /\ caller = [c \in Callers |-> NotAsking]

\* load_repository_index
AskForIndex(c) ==
    /\ caller[c] = NotAsking
    /\ \E hashing \in BOOLEAN :
          caller' = [caller EXCEPT ![c] =
             IF savedIndex = NotSaved THEN AtStage("scan", NotSaved, hashing)
             ELSE AtStage("check", savedIndex, hashing)]
    /\ UNCHANGED <<content, savedIndex, indexEdits>>

Visits(c, stage, p) == caller[c].stage = stage /\ p \in caller[c].to

(* -------------------------- index_is_current -------------------------- *)

\* A file that cannot be looked at during the check is one that has changed; this
\* is left out.

\* Mutant: only sizes are compared.
SameFileBySize(entry, v, hashing) == entry # NoEntry /\ entry.size = SizeOf(v)

\* Without hashes the size is all that is compared: timestamps are not.
SameFile(entry, v, hashing) ==
    /\ entry # NoEntry /\ entry.size = SizeOf(v)
    /\ hashing /\ entry.hash # NoFileThere => entry.hash = v
Compare(c) ==
    /\ \E p \in IndexedPaths :
          LET r == caller[c]
          IN /\ Visits(c, "check", p)
             /\ caller' = [caller EXCEPT ![c] =
                   IF content[p] = NoFileThere THEN [r EXCEPT !.to = r.to \ {p}]
                   ELSE IF ~SameFile(r.index.entries[p], content[p], r.hashes)
                   THEN AtStage("scan", NotSaved, r.hashes)
                   ELSE [r EXCEPT !.to = r.to \ {p}, !.entries[p].size = 1]]
    /\ UNCHANGED <<content, savedIndex, indexEdits>>

\* Every file visited is in the index; is every file of the index visited?
SameFiles(c) ==
    {p \in IndexedPaths : caller[c].entries[p] # NoEntry} =
        {p \in IndexedPaths : caller[c].index.entries[p] # NoEntry}
Reuse(c) ==
    /\ caller[c].stage = "check" /\ caller[c].to = {}
    /\ caller' = [caller EXCEPT
          ![c] = IF SameFiles(c) THEN NotAsking ELSE AtStage("scan", NotSaved, caller[c].hashes)]
    /\ UNCHANGED <<content, savedIndex, indexEdits>>

(* --------------------------- scan_repository -------------------------- *)

\* build_file_metadata: the size, then the hash, which may be unreadable.  A
\* file that is gone is skipped.
ReadSize(c) ==
    /\ \E p \in IndexedPaths :
          LET r == caller[c]
          IN /\ Visits(c, "scan", p)
             /\ caller' = [caller EXCEPT ![c] =
                   IF content[p] = NoFileThere THEN [r EXCEPT !.to = r.to \ {p}]
                   ELSE [r EXCEPT !.entries[p].size = SizeOf(content[p]), !.stage = "hash",
                                  !.to = r.to \ {p}, !.file = p]]
    /\ UNCHANGED <<content, savedIndex, indexEdits>>
ReadHash(c) ==
    /\ caller[c].stage = "hash"
    /\ \E readable \in BOOLEAN :
          caller' = [caller EXCEPT
              ![c].entries[caller[c].file].hash =
                  IF caller[c].hashes /\ readable THEN content[caller[c].file] ELSE NoFileThere,
              ![c].stage = "symbols"]
    /\ UNCHANGED <<content, savedIndex, indexEdits>>

\* extract_file_analysis reads the text once more.
ReadSymbols(c) ==
    /\ caller[c].stage = "symbols"
    /\ caller' = [caller EXCEPT ![c].entries[caller[c].file].symbols = content[caller[c].file],
                                ![c].stage = "scan"]
    /\ UNCHANGED <<content, savedIndex, indexEdits>>

\* save_repository_index replaces the file at once.
SaveIndex(c) ==
    /\ caller[c].stage = "scan" /\ caller[c].to = {}
    /\ savedIndex' = [saved |-> TRUE, entries |-> caller[c].entries,
                      edits |-> indexEdits - caller[c].before, asOf |-> indexEdits]
    /\ caller' = [caller EXCEPT ![c] = NotAsking]
    /\ UNCHANGED <<content, indexEdits>>

EditContent ==
    /\ indexEdits < MaxIndexEdits /\ indexEdits' = indexEdits + 1
    /\ \E p \in IndexedPaths : \E v \in Versions \ {content[p]} :
          content' = [content EXCEPT ![p] = v]
    /\ UNCHANGED <<savedIndex, caller>>

IndexNext ==
    \/ \E c \in Callers :
          \/ AskForIndex(c)
          \/ Compare(c)
          \/ Reuse(c)
          \/ ReadSize(c)
          \/ ReadHash(c)
          \/ ReadSymbols(c)
          \/ SaveIndex(c)
    \/ EditContent

(* ----------------------------- properties ----------------------------- *)

\* What the entry says of the file, and of the symbols in it if it was made
\* from one version.
Truthful(entry, v, hashing, one) ==
    IF v = NoFileThere THEN entry = NoEntry
    ELSE /\ entry.size = SizeOf(v)
         /\ hashing /\ entry.hash # NoFileThere =>
                entry.hash = v /\ (one => entry.symbols = v)

\* However a scan was torn by edits, an index is only reused for the files it
\* describes, if nothing is edited during the check; a file whose hash is not in the
\* index, or not calculated, is known by its size alone: its timestamp, which
\* index_is_current says it compares, is not looked at.  Its symbols are those of the files
\* if nothing was edited during the scan: an edit that is undone after the scan
\* leaves its symbols in the index.
ReusedIsTruthful ==
    [][\A c \in Callers :
        caller[c].stage = "check" /\ caller'[c].stage = "rest" /\ caller[c].before = indexEdits =>
            \A p \in IndexedPaths :
                Truthful(caller[c].index.entries[p], content[p], caller[c].hashes,
                         caller[c].index.edits = 0)]_indexVars

\* An index that was made without edits is not made again as long as there are none,
\* a hash that could not be read or was not asked for notwithstanding.
UneditedIsReused ==
    [][\A c \in Callers :
        caller[c].stage = "check" /\ caller'[c].stage = "scan" =>
            caller[c].index.asOf < indexEdits \/ caller[c].index.edits > 0]_indexVars

\* What is reused of an index is true, and one that is true is reused.
IndexIsKept == ReusedIsTruthful /\ UneditedIsReused

\* What is read of a file is one version of it, the map of the repository is the
\* repository's, and the index that is kept of it is used for no file that has changed.
AnalysisIsTrue == [](MapIsTrue /\ ReadingIsTrue) /\ IndexIsKept
=============================================================================
