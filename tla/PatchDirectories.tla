--------------------------- MODULE PatchDirectories ---------------------------
(***************************************************************************)
(* The transactions of PatchService (patch_service.py) in the directory    *)
(* tree: parents are created on the way and removed by the rollback, files *)
(* are written to a temporary file beside them and moved over.  Nothing    *)
(* keeps two transactions apart.  RepositoryPatch has the contents, edits  *)
(* by others and rollbacks that fail; here is what happens to the tree.    *)
(***************************************************************************)
EXTENDS Naturals, Sequences, SequencesExt

CONSTANTS
    Transactions,
    FilePaths,          \* paths of files: sequences of names
    Original,           \* the content of the files there are at first
    OriginalFiles,      \* their paths
    RequestsOf          \* of each transaction: the sequences of operations it may get

\* ProposedPatchOperation: a text that is made, a deletion, a move.
TreeOperation == [kind : {"put", "delete", "move"}, path : FilePaths, to : FilePaths]

None == "none"
Root == <<>>
\* The directories above a path, but for the root.
Above(p) == {SubSeq(p, 1, n) : n \in 1 .. Len(p) - 1}

ASSUME PatchDirectoriesAssumption ==
    /\ FilePaths \subseteq Seq(STRING) \ {Root} /\ OriginalFiles \subseteq FilePaths
    /\ \A p \in OriginalFiles : Above(p) \cap OriginalFiles = {}
    /\ None \notin Transactions \cup {Original} /\ "dir" \notin Transactions \cup {Original}
    /\ \A t \in Transactions : RequestsOf[t] \subseteq Seq(TreeOperation)

VARIABLES
    held,       \* of each path: None, Original, or the transaction that wrote it
    dirs,       \* the directories, but for the root
    temps,      \* temporary files: the directory and the transaction
    tx,         \* of each transaction: where it is, its operations and the one it is
                \* at, its snapshots, the directories it made, what its rollback has
                \* yet to do, whether that left something, and what it was prepared for
    crossed     \* history: transactions another one ran beside

treeVars == <<held, dirs, temps, tx, crossed>>

IsDir(p) == p = Root \/ p \in dirs

TreeInit ==
    /\ held = [p \in FilePaths |-> IF p \in OriginalFiles THEN Original ELSE None]
    /\ dirs = UNION {Above(p) : p \in OriginalFiles} /\ temps = {} /\ crossed = {}
    /\ tx = [t \in Transactions |->
                [at |-> "idle", ops |-> <<>>, n |-> 1, saved |-> [p \in {} |-> None],
                 made |-> {}, todo |-> {}, left |-> FALSE,
                 was |-> [held |-> held, dirs |-> dirs]]]

Active(t) == tx[t].at \notin {"idle", "applied", "rolled_back", "broken"}
Op(t) == tx[t].ops[tx[t].n]
Target(t) == IF Op(t).kind = "move" THEN Op(t).to ELSE Op(t).path
Claims(o) == {o.path} \cup (IF o.kind = "move" THEN {o.to} ELSE {})
Touches(ops) == UNION {Claims(ops[i]) : i \in DOMAIN ops}

\* normalize_operations: no path is claimed twice.
NoConflict(ops) ==
    \A i \in DOMAIN ops :
        /\ ops[i].kind = "move" => ops[i].to # ops[i].path
        /\ \A j \in DOMAIN ops \ {i} : Claims(ops[i]) \cap Claims(ops[j]) = {}

\* normalize_operation and prepare_operation: what is not a file, or not there, or
\* there already, is refused.
Preparable(o) ==
    /\ o.path \notin dirs /\ (o.kind # "put" => held[o.path] # None)
    /\ o.kind = "move" => held[o.to] = None /\ o.to \notin dirs

\* prepare_request: a request that is refused leaves nothing behind.
BeginTransaction(t) ==
    /\ tx[t].at = "idle"
    /\ \E ops \in RequestsOf[t] :
          /\ NoConflict(ops) /\ \A i \in DOMAIN ops : Preparable(ops[i])
          /\ tx' = [tx EXCEPT ![t].at = "save", ![t].ops = ops,
                              ![t].was = [held |-> held, dirs |-> dirs]]
    /\ crossed' = IF \E u \in Transactions : Active(u)
                  THEN crossed \cup {t} \cup {u \in Transactions : Active(u)}
                  ELSE crossed
    /\ UNCHANGED <<held, dirs, temps>>

\* _snapshot_operation_paths: of a directory nothing is saved but that it is one.
\* The rollback uses what is kept in memory and not the files of the backup, so
\* that their removal is left out; a save that fails half-way is rolled back like
\* a first operation that fails, with less to put back.
Save(t) ==
    /\ tx[t].at = "save"
    /\ tx' = [tx EXCEPT ![t].at = "verify",
                        ![t].saved = [p \in Touches(tx[t].ops) |->
                                        IF p \in dirs THEN "dir" ELSE held[p]]]
    /\ UNCHANGED <<held, dirs, temps, crossed>>

(* ------------------------------- committing ---------------------------- *)

\* The rollback of apply_patch, and the `finally' of _write_file_atomic.  Every
\* caller in the program asks for a rollback (rollback_on_failure is TRUE in
\* patch_generation_service.py, openhands_patch_bridge.py and task_service.py).
Fail(t) ==
    /\ tx' = [tx EXCEPT ![t].at = "restore", ![t].todo = DOMAIN tx[t].saved]
    /\ temps' = {f \in temps : f[2] # t}
    /\ UNCHANGED <<held, dirs, crossed>>

Committing(t) == tx[t].at \in {"verify", "parent", "mkdir", "commit", "replace"}
\* The file system refuses.
Refused(t) == Committing(t) /\ Fail(t)

GoTo(t, at) == tx' = [tx EXCEPT ![t].at = at]

\* _verify_prepared_state: what was read when the operation was prepared.
Verify(t) ==
    /\ tx[t].at = "verify"
    /\ IF tx[t].n > Len(tx[t].ops)
       THEN GoTo(t, "applied") /\ UNCHANGED <<held, dirs, temps, crossed>>
       ELSE IF /\ held[Op(t).path] = tx[t].was.held[Op(t).path] /\ Op(t).path \notin dirs
               /\ Op(t).kind = "move" => held[Op(t).to] = None /\ Op(t).to \notin dirs
       THEN /\ GoTo(t, IF Op(t).kind = "delete" THEN "commit" ELSE "parent")
            /\ UNCHANGED <<held, dirs, temps, crossed>>
       ELSE Fail(t)

Missing(p) == {d \in Above(p) : d \notin dirs}
BlockedByFile(p) == \E d \in Above(p) \cap FilePaths : held[d] # None

\* Mutant: only the file's own directory is recorded.
RecordedParent(p) == Missing(p) \cap {Front(p)}

\* _record_created_directories
Recorded(p) == Missing(p)

\* _ensure_parent_directory: looks, records what is missing, ...
EnsureParent(t) ==
    /\ tx[t].at = "parent"
    /\ IF BlockedByFile(Target(t)) THEN Fail(t)
       ELSE /\ tx' = [tx EXCEPT ![t].made = @ \cup Recorded(Target(t)),
                                ![t].at = IF Missing(Target(t)) = {} THEN "commit"
                                          ELSE "mkdir"]
            /\ UNCHANGED <<held, dirs, temps, crossed>>
\* ... and makes it.
MakeParents(t) ==
    /\ tx[t].at = "mkdir"
    /\ IF BlockedByFile(Target(t)) THEN Fail(t)
       ELSE /\ dirs' = dirs \cup Above(Target(t)) /\ GoTo(t, "commit")
            /\ UNCHANGED <<held, temps, crossed>>

NextOp(t) == tx' = [tx EXCEPT ![t].at = "verify", ![t].n = @ + 1]

\* _write_file_atomic: makes the parents again, recording nothing, ...
WriteTemp(t) ==
    /\ tx[t].at = "commit" /\ Op(t).kind = "put"
    /\ IF BlockedByFile(Op(t).path) THEN Fail(t)
       ELSE /\ dirs' = dirs \cup Above(Op(t).path)
            /\ temps' = temps \cup {<<Front(Op(t).path), t>>}
            /\ GoTo(t, "replace") /\ UNCHANGED <<held, crossed>>
\* ... and moves the temporary file over the path.
Replace(t) ==
    /\ tx[t].at = "replace"
    /\ IF Op(t).path \in dirs \/ <<Front(Op(t).path), t>> \notin temps THEN Fail(t)
       ELSE /\ held' = [held EXCEPT ![Op(t).path] = t]
            /\ temps' = temps \ {<<Front(Op(t).path), t>>}
            /\ NextOp(t) /\ UNCHANGED <<dirs, crossed>>

\* _commit_delete looks again and acts; _commit_rename has looked, and os.replace
\* writes over a file that has come in between.
CommitOther(t) ==
    /\ tx[t].at = "commit" /\ Op(t).kind \in {"delete", "move"}
    /\ LET o == Op(t)
           ready == /\ held[o.path] # None
                    /\ o.kind = "move" => o.to \notin dirs /\ IsDir(Front(o.to))
       IN IF ~ready THEN Fail(t)
          ELSE /\ held' = [p \in FilePaths |-> IF p = o.path THEN None
                                               ELSE IF o.kind = "move" /\ p = o.to
                                               THEN held[o.path] ELSE held[p]]
               /\ NextOp(t) /\ UNCHANGED <<dirs, temps, crossed>>

(* ------------------------------- rolling back -------------------------- *)

Deepest(paths) == {p \in paths : \A q \in paths : Len(q) <= Len(p)}

Below(d, p) == d \in Above(p)
RemoveTree(d) ==
    /\ dirs' = {e \in dirs : e # d /\ ~Below(d, e)}
    /\ held' = [p \in FilePaths |-> IF p = d \/ Below(d, p) THEN None ELSE held[p]]
    /\ temps' = {f \in temps : f[1] # d /\ ~Below(d, f[1])}

\* _restore_snapshot: what was not there is removed, be it a directory by now;
PutBackNothing(p) ==
    IF p \in dirs THEN RemoveTree(p)
    ELSE held' = [held EXCEPT ![p] = None] /\ UNCHANGED <<dirs, temps>>
\* a directory is made again, but not where there is a file, which is removed;
PutBackDirectory(p) ==
    /\ held' = [held EXCEPT ![p] = None]
    /\ dirs' = IF held[p] # None THEN dirs ELSE dirs \cup Above(p) \cup {p}
    /\ UNCHANGED temps
\* and a file takes the place of whatever is there.
PutBackFile(p, content) ==
    /\ held' = [q \in FilePaths |-> IF q = p THEN content
                                    ELSE IF Below(p, q) THEN None ELSE held[q]]
    /\ dirs' = {e \in dirs : e # p /\ ~Below(p, e)} \cup Above(p)
    /\ temps' = {f \in temps : f[1] # p /\ ~Below(p, f[1])}

Restored(t, p, left) ==
    tx' = [tx EXCEPT ![t].todo = @ \ {p}, ![t].left = @ \/ left]

\* rollback_transaction: the deepest paths first.
Restore(t) ==
    /\ tx[t].at = "restore"
    /\ \E p \in Deepest(tx[t].todo) :
         LET saved == tx[t].saved[p]
         IN CASE saved = None ->
                   PutBackNothing(p) /\ Restored(t, p, FALSE)
              [] saved # None /\ BlockedByFile(p) ->
                   UNCHANGED <<held, dirs, temps>> /\ Restored(t, p, TRUE)
              [] saved = "dir" /\ ~BlockedByFile(p) ->
                   PutBackDirectory(p) /\ Restored(t, p, FALSE)
              [] saved \notin {None, "dir"} /\ ~BlockedByFile(p) ->
                   PutBackFile(p, saved) /\ Restored(t, p, FALSE)
    /\ UNCHANGED crossed
BeginSweep(t) ==
    /\ tx[t].at = "restore" /\ tx[t].todo = {}
    /\ tx' = [tx EXCEPT ![t].at = "sweep", ![t].todo = tx[t].made]
    /\ UNCHANGED <<held, dirs, temps, crossed>>

Holds(d) ==
    \/ \E p \in FilePaths : held[p] # None /\ Front(p) = d
    \/ \E e \in dirs : Front(e) = d
    \/ \E f \in temps : f[1] = d

\* _remove_created_directories, the deepest first: one that is not empty stays.
Sweep(t) ==
    /\ tx[t].at = "sweep"
    /\ \E d \in Deepest(tx[t].todo) :
          /\ dirs' = IF Holds(d) THEN dirs ELSE dirs \ {d}
          /\ Restored(t, d, d \in dirs /\ Holds(d))
    /\ UNCHANGED <<held, temps, crossed>>
\* rollback_transaction
EndSweep(t) ==
    /\ tx[t].at = "sweep" /\ tx[t].todo = {}
    /\ GoTo(t, IF tx[t].left THEN "broken" ELSE "rolled_back")
    /\ UNCHANGED <<held, dirs, temps, crossed>>

TreeNext ==
    \E t \in Transactions :
        \/ BeginTransaction(t)
        \/ Save(t)
        \/ Refused(t)
        \/ Verify(t)
        \/ EnsureParent(t)
        \/ MakeParents(t)
        \/ WriteTemp(t)
        \/ Replace(t)
        \/ CommitOther(t)
        \/ Restore(t)
        \/ BeginSweep(t)
        \/ Sweep(t)
        \/ EndSweep(t)

TreeSpec == TreeInit /\ [][TreeNext]_treeVars

(* ----------------------------- properties ------------------------------ *)

\* The files and directories are a tree, and a temporary file is there only
\* while its transaction is about to move it.
TreeTypeOK ==
    /\ DOMAIN held = FilePaths
    /\ \A p \in FilePaths : held[p] # None => p \notin dirs /\ Above(p) \subseteq dirs
    /\ \A d \in dirs : Above(d) \subseteq dirs
    /\ \A f \in temps : IsDir(f[1]) /\ tx[f[2]].at = "replace"

\* A path of one transaction is not a directory of another's.
Apart(t) ==
    \A u \in Transactions \ {t} :
        \A p \in DOMAIN tx[t].saved, q \in DOMAIN tx[u].saved :
            p # q /\ ~Below(p, q) /\ ~Below(q, p)

\* What a transaction has applied stays, whatever others roll back beside it in
\* the same directories.
AppliedStays ==
    \A t \in Transactions :
        tx[t].at = "applied" /\ Apart(t) =>
            \A i \in DOMAIN tx[t].ops :
                LET o == tx[t].ops[i]
                IN CASE o.kind = "put" -> held[o.path] = t
                     [] o.kind = "delete" -> held[o.path] = None
                     [] o.kind = "move" -> held[o.path] = None /\ held[o.to] # None

\* After a rollback every path has what was saved of it.
RolledBackIsSaved ==
    \A t \in Transactions :
        tx[t].at \in {"rolled_back", "broken"} /\ Apart(t) =>
            \A p \in DOMAIN tx[t].saved : held[p] = tx[t].saved[p]

\* A transaction that nothing ran beside leaves the tree as it was when it is
\* rolled back, with no directory too many or too few.
AloneLeavesNothing ==
    [][\A t \in Transactions :
        tx'[t].at = "rolled_back" /\ tx[t].at # "rolled_back" /\ t \notin crossed =>
            held' = tx[t].was.held /\ dirs' = tx[t].was.dirs]_treeVars

\* Only what another one has put into a created directory makes a rollback that
\* the file system does not refuse incomplete.
BrokenByAnother ==
    \A t \in Transactions : tx[t].at = "broken" => t \in crossed

\* Two transactions leave in the tree what they applied, and nothing of what
\* they rolled back unless the other one is in the way.
TreeIsRestored ==
    /\ []TreeTypeOK /\ []AppliedStays /\ []RolledBackIsSaved /\ []BrokenByAnother
    /\ AloneLeavesNothing
===============================================================================
