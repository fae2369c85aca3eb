--------------------------- MODULE RepositoryPatch ---------------------------
(***************************************************************************)
(* PatchService.apply_patch of Code Builder V1 (patch_service.py): all     *)
(* operations are prepared against the files as they are, every path they  *)
(* touch is saved, and then they are verified and committed one by one;    *)
(* when one fails, what was saved is restored.  No lock is held: others    *)
(* may edit the files at every point.                                      *)
(***************************************************************************)
EXTENDS Naturals, Sequences, FiniteSets

CONSTANTS
    Paths,          \* normalised relative paths
    Texts,          \* contents of files
    MaxEdits        \* bound on edits by others

Absent == "absent"
Unsaved == "unsaved"
NoHash == "unchecked"
Contents == Texts \cup {Absent}
ASSUME PatchAssumption == Unsaved \notin Contents /\ Absent \notin Texts /\ MaxEdits \in Nat

\* NormalizedPatchOperation: `write' stands for the eight operations that
\* make a text, `lenient' for the flag that lets the operation find its path in
\* the wrong state (create: ignore_if_exists, write: create_if_missing,
\* delete and rename: ignore_if_missing), `expect' for expected_sha256.
Operation == [kind : {"create", "write", "delete", "rename"}, path : Paths,
              to : Paths, text : Texts, expect : Contents \cup {NoHash},
              lenient : BOOLEAN]

VARIABLES
    repo,           \* the files
    others,         \* history: the files as they would be without the task
    edits,          \* edits so far
    patch,          \* operations of the request
    prepared,       \* what prepare_request made of them
    saved,          \* the snapshots of the transaction
    savedAt,        \* history: the edits there had been then
    done,           \* how many operations have been committed or skipped
    tx              \* where apply_patch is

patchVars == <<repo, others, edits, patch, prepared, saved, savedAt, done, tx>>

NothingSaved == [p \in Paths |-> Unsaved]

PatchInit(files) ==
    /\ repo = files /\ others = files /\ edits = 0
    /\ patch = <<>> /\ prepared = <<>> /\ saved = NothingSaved /\ savedAt = 0
    /\ done = 0 /\ tx = "none"

(* ----------------------------- preparation ---------------------------- *)

\* normalize_operations: a path is claimed once, as source or destination.
Sources(ops) == {ops[i].path : i \in DOMAIN ops}
Destinations(ops) ==
    {ops[i].to : i \in {j \in DOMAIN ops : ops[j].kind = "rename"}}
Consistent(ops) ==
    /\ Cardinality(Sources(ops)) = Len(ops)
    /\ Sources(ops) \cap Destinations(ops) = {}
    /\ Cardinality(Destinations(ops))
         = Cardinality({i \in DOMAIN ops : ops[i].kind = "rename"})

\* normalize_operation and the errors of prepare_operation.
Acceptable(o, files) ==
    LET exists == files[o.path] # Absent
    IN /\ IF o.kind = "create" THEN ~exists \/ o.lenient ELSE exists \/ o.lenient
       /\ o.kind = "rename" => o.to # o.path /\ files[o.to] = Absent
       /\ o.expect # NoHash => exists /\ files[o.path] = o.expect

\* What is left alone: the file is missing, or there already, as allowed.
Skipped(o, files) ==
    /\ o.lenient
    /\ \/ o.kind = "create" /\ files[o.path] # Absent
       \/ o.kind \in {"delete", "rename"} /\ files[o.path] = Absent

\* prepare_operation
Prepared(o, files) ==
    LET before == files[o.path]
        after == CASE Skipped(o, files) -> before
                   [] o.kind \in {"delete", "rename"} -> Absent
                   [] OTHER -> o.text
    IN [op |-> o, before |-> before, after |-> after, changed |-> before # after]

\* prepare_request of a dry run, which ends with that.
Applicable(ops, files) ==
    ops # <<>> /\ Consistent(ops) /\ \A i \in DOMAIN ops : Acceptable(ops[i], files)

(* ----------------------------- transaction ---------------------------- *)

PrepareRequest ==
    /\ tx = "begun"
    /\ IF Applicable(patch, repo)
       THEN /\ prepared' = [i \in DOMAIN patch |-> Prepared(patch[i], repo)]
            /\ tx' = "prepared"
       ELSE tx' = "failed" /\ UNCHANGED prepared
    /\ UNCHANGED <<repo, others, edits, patch, saved, savedAt, done>>

\* _create_snapshot of every path, or of some until one cannot be read.
Touched == Sources(patch) \cup Destinations(patch)
SaveSnapshots ==
    /\ tx = "prepared"
    /\ \E some \in SUBSET Touched :
         /\ saved' = [p \in Paths |-> IF p \in some THEN repo[p] ELSE Unsaved]
         /\ tx' = IF some = Touched THEN "saved" ELSE "restoring"
    /\ savedAt' = edits
    /\ UNCHANGED <<repo, others, edits, patch, prepared, done>>

Current == prepared[done + 1]

\* _verify_prepared_state.  A create that tolerates a file does so here too,
\* even when the file was not there at the preparation.
Unmoved(c) ==
    /\ IF c.before = Absent
       THEN repo[c.op.path] = Absent \/ (c.op.kind = "create" /\ c.op.lenient)
       ELSE repo[c.op.path] = c.before
    /\ c.op.kind = "rename" => repo[c.op.to] = Absent

VerifyOperation ==
    /\ tx = "saved" /\ done < Len(prepared)
    /\ IF ~Current.changed
       THEN done' = done + 1 /\ UNCHANGED tx
       ELSE /\ tx' = IF Unmoved(Current) THEN "verified" ELSE "restoring"
            /\ UNCHANGED done
    /\ UNCHANGED <<repo, others, edits, patch, prepared, saved, savedAt>>

\* _commit_prepared_change: checks again what a delete or rename needs, and
\* writes, deletes or moves what is there now.
CommitPossible(c) ==
    /\ c.op.kind = "delete" => repo[c.op.path] # Absent
    /\ c.op.kind = "rename" => repo[c.op.path] # Absent /\ repo[c.op.to] = Absent
Committed(c, files) ==
    IF c.op.kind = "rename"
    THEN [files EXCEPT ![c.op.to] = files[c.op.path], ![c.op.path] = Absent]
    ELSE [files EXCEPT ![c.op.path] = c.after]

CommitOperation ==
    /\ tx = "verified" /\ CommitPossible(Current)
    /\ repo' = Committed(Current, repo)
    /\ done' = done + 1
    /\ tx' = "saved"
    /\ UNCHANGED <<others, edits, patch, prepared, saved, savedAt>>

\* ... or the file system refuses.
CommitFails ==
    /\ tx = "verified"
    /\ tx' = "restoring"
    /\ UNCHANGED <<repo, others, edits, patch, prepared, saved, savedAt, done>>

\* The transaction's own copies are deleted.
FinishPatch ==
    /\ tx = "saved" /\ done = Len(prepared)
    /\ tx' = "applied"
    /\ UNCHANGED <<repo, others, edits, patch, prepared, saved, savedAt, done>>

\* rollback_transaction: every snapshot is tried, whichever of them fail.
RestoreSnapshots ==
    /\ tx = "restoring"
    /\ \E lost \in SUBSET {p \in Paths : saved[p] # Unsaved} :
         /\ repo' = [p \in Paths |-> IF saved[p] = Unsaved \/ p \in lost
                                     THEN repo[p] ELSE saved[p]]
         /\ tx' = IF lost = {} THEN "rolled_back" ELSE "broken"
    /\ UNCHANGED <<others, edits, patch, prepared, saved, savedAt, done>>

PatchStep ==
    \/ PrepareRequest
    \/ SaveSnapshots
    \/ VerifyOperation
    \/ CommitOperation
    \/ CommitFails
    \/ FinishPatch
    \/ RestoreSnapshots

\* Somebody else changes a file.
Edit(p, c) ==
    /\ edits < MaxEdits /\ repo[p] # c
    /\ edits' = edits + 1
    /\ repo' = [repo EXCEPT ![p] = c]
    /\ others' = [others EXCEPT ![p] = c]
    /\ UNCHANGED <<patch, prepared, saved, savedAt, done, tx>>
=============================================================================
