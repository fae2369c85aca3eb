--------------------------- MODULE ChangePipeline ---------------------------
(***************************************************************************)
(* How Code Builder V2 changes the files of a repository: ExecutionPipeline *)
(* (pipeline.py) around AtomicChangeApplier (applier.py), BackupService    *)
(* (backup.py) and validate_generated_transaction (transaction.py).        *)
(*                                                                         *)
(* A run is one call of pipeline.execute in one thread.  Files are written *)
(* one at a time, and a write truncates the file first, so that a crash, a *)
(* full disk or another run's backup can meet a torn file.  Runs share the *)
(* repository and nothing locks it.                                        *)
(***************************************************************************)
EXTENDS Naturals, FiniteSets

CONSTANTS
    Runs,           \* the executions of pipeline.execute
    Paths,          \* repository-relative paths
    Contents,       \* what a file may hold
    Plans,          \* the ChangePlans the planner may return
    Proposals,      \* the change lists the generator may return
    Products,       \* the paths that validation commands may write
    OneAtATime      \* TRUE: no run starts before the last one has ended

Absent == "absent"          \* no file at the path
Torn == "torn"              \* truncated or partly written
NoContent == "no_content"   \* ProposedFileChange.content is None
NoFile == [closed |-> TRUE] \* the run has no file open

PlannedChange == [path : Paths, operation : {"create", "modify", "delete"}]

\* The operations the generator's schema check lets through are create,
\* update and delete (ollama.py); a hand-written plan says modify.
ProposedFileChange ==
    [path      : Paths,
     operation : {"create", "modify", "update", "delete"},
     content   : Contents \cup {NoContent}]

ASSUME PlansAssumption == Plans \subseteq SUBSET PlannedChange
ASSUME ProposalsAssumption == Proposals \subseteq SUBSET ProposedFileChange
ASSUME ProductsAssumption == Products \subseteq Paths
ASSUME ContentsAssumption ==
    /\ {Absent, Torn, NoContent} \cap Contents = {}
    /\ OneAtATime \in BOOLEAN

FileState == Contents \cup {Absent, Torn}

VARIABLES
    repo,       \* path -> what is there
    pc,         \* where each run is
    plan,       \* the run's approved plan
    changes,    \* what the generator returned
    pending,    \* changes the run has not applied yet
    files,      \* paths the run has still to back up or to restore
    open,       \* the file the run is writing, with what it writes
    saved,      \* the copies in the run's backup folder
    manifest,   \* the run's manifest.json was written
    before,     \* history: the repository when the run started
    base        \* history: the repository when a run or rollback last began

vars == <<repo, pc, plan, changes, pending, files, open, saved, manifest,
          before, base>>

\* Where a run can be.  A restore says what asked for it: a failed apply, a
\* failed validation or a user.  A run is damaged, or its rollback half done,
\* when its restore raised or the process died in the middle of it.
Restoring == {"undo_apply", "undo_validation", "undo_done"}
Outcomes == {"done", "failed", "damaged", "rolled_back", "half_undone"}
Active == {"generating", "backing_up", "applying", "writing", "validating"} \cup Restoring
PC == {"new"} \cup Active \cup Outcomes

PathsOf(S) == {c.path : c \in S}

Init ==
    /\ repo \in [Paths -> Contents \cup {Absent}]
    /\ pc = [r \in Runs |-> "new"]
    /\ plan = [r \in Runs |-> {}]
    /\ changes = [r \in Runs |-> {}]
    /\ pending = [r \in Runs |-> {}]
    /\ files = [r \in Runs |-> {}]
    /\ open = [r \in Runs |-> NoFile]
    /\ saved = [r \in Runs |-> [p \in Paths |-> Absent]]
    /\ manifest = [r \in Runs |-> FALSE]
    /\ before = [r \in Runs |-> repo]
    /\ base = repo

----------------------------------------------------------------------------
(* validate_generated_transaction: plan and changes name the same paths    *)
(* with the same operations, after aliases are resolved.                   *)

Normalise(operation) == IF operation = "update" THEN "modify" ELSE operation

\* No path with two different operations.
Consistent(S) ==
    \A c, d \in S :
        c.path = d.path => Normalise(c.operation) = Normalise(d.operation)

Operations(S) == {<<c.path, Normalise(c.operation)>> : c \in S}

\* Mutants: a planned file may be missing, an unplanned one may be there.
ValidThoughMissing(planned, generated) ==
    /\ Consistent(planned) /\ Consistent(generated)
    /\ Operations(generated) \subseteq Operations(planned)

ValidThoughUnplanned(planned, generated) ==
    /\ Consistent(planned) /\ Consistent(generated)
    /\ Operations(planned) \subseteq Operations(generated)

ValidTransaction(planned, generated) ==
    /\ Consistent(planned) /\ Consistent(generated)
    /\ Operations(planned) = Operations(generated)

\* _validate_preconditions: against the files as they are now.
Precondition(c) ==
    LET operation == Normalise(c.operation)
    IN  /\ operation = "create" => repo[c.path] = Absent
        /\ operation \in {"modify", "delete"} => repo[c.path] # Absent
        /\ operation \in {"create", "modify"} => c.content # NoContent

----------------------------------------------------------------------------

Goto(r, label) == pc' = [pc EXCEPT ![r] = label]

Idle == \A r \in Runs : pc[r] \notin Active

\* pipeline.execute is called with the task's plan and reads the context.
Start(r) ==
    /\ pc[r] = "new"
    /\ OneAtATime => Idle
    /\ \E planned \in Plans : plan' = [plan EXCEPT ![r] = planned]
    /\ before' = [before EXCEPT ![r] = repo]
    /\ base' = repo
    /\ Goto(r, "generating")
    /\ UNCHANGED <<repo, changes, pending, files, open, saved, manifest>>

\* Reading the context or the generator itself raises.
GenerateFails(r) ==
    /\ pc[r] = "generating"
    /\ Goto(r, "failed")
    /\ UNCHANGED <<repo, plan, changes, pending, files, open, saved,
                   manifest, before, base>>

\* The generator returns its changes and apply checks them: transaction and
\* preconditions hold and a backup of the paths begins, or it raises before
\* anything is written.
Generate(r, proposed) ==
    /\ pc[r] = "generating"
    /\ ValidTransaction(plan[r], proposed)
    /\ \A c \in proposed : Precondition(c)
    /\ changes' = [changes EXCEPT ![r] = proposed]
    /\ files' = [files EXCEPT ![r] = PathsOf(proposed)]
    /\ Goto(r, "backing_up")
    /\ UNCHANGED <<repo, plan, pending, open, saved, manifest, before, base>>

RejectChanges(r, proposed) ==
    /\ pc[r] = "generating"
    /\ \/ ~ValidTransaction(plan[r], proposed)
       \/ \E c \in proposed : ~Precondition(c)
    /\ Goto(r, "failed")
    /\ UNCHANGED <<repo, plan, changes, pending, files, open, saved,
                   manifest, before, base>>

\* BackupService.create copies one file, if there is one.
CaptureFile(r, p) ==
    /\ pc[r] = "backing_up" /\ p \in files[r]
    /\ saved' = [saved EXCEPT ![r][p] = repo[p]]
    /\ files' = [files EXCEPT ![r] = @ \ {p}]
    /\ UNCHANGED <<repo, pc, plan, changes, pending, open, manifest,
                   before, base>>

\* ... or it cannot copy it or write the manifest; nothing was changed yet.
BackupFails(r) ==
    /\ pc[r] = "backing_up"
    /\ files' = [files EXCEPT ![r] = {}]
    /\ Goto(r, "failed")
    /\ UNCHANGED <<repo, plan, changes, pending, open, saved, manifest, before, base>>

\* Mutant: the changes are applied before every file is in the backup.
WriteManifestEarly(r) ==
    /\ pc[r] = "backing_up"
    /\ manifest' = [manifest EXCEPT ![r] = TRUE]
    /\ pending' = [pending EXCEPT ![r] = changes[r]]
    /\ Goto(r, "applying")
    /\ UNCHANGED <<repo, plan, changes, files, open, saved, before, base>>

WriteManifest(r) ==
    /\ pc[r] = "backing_up" /\ files[r] = {}
    /\ manifest' = [manifest EXCEPT ![r] = TRUE]
    /\ pending' = [pending EXCEPT ![r] = changes[r]]
    /\ Goto(r, "applying")
    /\ UNCHANGED <<repo, plan, changes, files, open, saved, before, base>>

----------------------------------------------------------------------------
(* The changes are applied one by one, in the generator's order.           *)

\* write_text opens the file, which truncates or creates it ...
OpenFile(r, c) ==
    /\ pc[r] = "applying" /\ c \in pending[r]
    /\ Normalise(c.operation) \in {"create", "modify"}
    /\ repo' = [repo EXCEPT ![c.path] = Torn]
    /\ open' = [open EXCEPT ![r] = [path |-> c.path, content |-> c.content]]
    /\ pending' = [pending EXCEPT ![r] = @ \ {c}]
    /\ Goto(r, "writing")
    /\ UNCHANGED <<plan, changes, files, saved, manifest, before, base>>

\* ... and puts the new content there.
WriteFile(r) ==
    /\ pc[r] = "writing"
    /\ repo' = [repo EXCEPT ![open[r].path] = open[r].content]
    /\ open' = [open EXCEPT ![r] = NoFile]
    /\ Goto(r, "applying")
    /\ UNCHANGED <<plan, changes, pending, files, saved, manifest, before, base>>

DeleteFile(r, c) ==
    /\ pc[r] = "applying" /\ c \in pending[r]
    /\ Normalise(c.operation) = "delete"
    /\ repo' = [repo EXCEPT ![c.path] = Absent]
    /\ pending' = [pending EXCEPT ![r] = @ \ {c}]
    /\ UNCHANGED <<pc, plan, changes, files, open, saved, manifest, before, base>>

\* BackupService.restore begins: every requested path is to be put back.
BeginRestore(r, cause) ==
    /\ files' = [files EXCEPT ![r] = PathsOf(changes[r])]
    /\ pending' = [pending EXCEPT ![r] = {}]
    /\ open' = [open EXCEPT ![r] = NoFile]
    /\ Goto(r, cause)

\* Mutant: a failed apply is reported but not undone.
ApplyFailsKeepsWrites(r) ==
    /\ pc[r] = "writing" \/ (pc[r] = "applying" /\ pending[r] # {})
    /\ pending' = [pending EXCEPT ![r] = {}]
    /\ open' = [open EXCEPT ![r] = NoFile]
    /\ Goto(r, "failed")
    /\ UNCHANGED <<repo, plan, changes, files, saved, manifest, before, base>>

\* A write or an unlink raises, possibly in the middle of a file.
ApplyFails(r) ==
    /\ pc[r] = "writing" \/ (pc[r] = "applying" /\ pending[r] # {})
    /\ BeginRestore(r, "undo_apply")
    /\ UNCHANGED <<repo, plan, changes, saved, manifest, before, base>>

Applied(r) ==
    /\ pc[r] = "applying" /\ pending[r] = {}
    /\ Goto(r, "validating")
    /\ UNCHANGED <<repo, plan, changes, pending, files, open, saved,
                   manifest, before, base>>

----------------------------------------------------------------------------
(* The validation commands run in the repository, and pass, or one fails,  *)
(* times out or cannot run.                                                *)

\* A command writes or removes a product of its own (bytecode, a report, what
\* a formatter rewrites), or is killed in the middle of it.
CommandWrites(r, p) ==
    /\ pc[r] = "validating" /\ p \in Products
    /\ \E left \in FileState : repo' = [repo EXCEPT ![p] = left]
    /\ UNCHANGED <<pc, plan, changes, pending, files, open, saved, manifest,
                   before, base>>

ValidationPasses(r) ==
    /\ pc[r] = "validating"
    /\ Goto(r, "done")
    /\ UNCHANGED <<repo, plan, changes, pending, files, open, saved,
                   manifest, before, base>>

ValidationFails(r) ==
    /\ pc[r] = "validating"
    /\ BeginRestore(r, "undo_validation")
    /\ UNCHANGED <<repo, plan, changes, saved, manifest, before, base>>

\* rollback_task on a completed task; the task stays completed when the
\* restore breaks off, and a rolled back one may be rolled back again.
Rollback(r) ==
    /\ pc[r] \in {"done", "rolled_back", "half_undone"}
    /\ OneAtATime => Idle
    /\ BeginRestore(r, "undo_done")
    /\ base' = repo
    /\ UNCHANGED <<repo, plan, changes, saved, manifest, before>>

\* A path that the backup has is copied back: the copy truncates first ...
OpenCopy(r, p) ==
    /\ pc[r] \in Restoring /\ open[r] = NoFile
    /\ p \in files[r] /\ saved[r][p] # Absent
    /\ repo' = [repo EXCEPT ![p] = Torn]
    /\ open' = [open EXCEPT ![r] = [path |-> p, content |-> saved[r][p]]]
    /\ UNCHANGED <<pc, plan, changes, pending, files, saved, manifest, before,
                   base>>

\* Mutant: a restored file is not taken off the list.
CloseCopyAgain(r) ==
    /\ pc[r] \in Restoring /\ open[r] # NoFile
    /\ repo' = [repo EXCEPT ![open[r].path] = open[r].content]
    /\ open' = [open EXCEPT ![r] = NoFile]
    /\ UNCHANGED <<pc, plan, changes, pending, files, saved, manifest, before,
                   base>>

CloseCopy(r) ==
    /\ pc[r] \in Restoring /\ open[r] # NoFile
    /\ repo' = [repo EXCEPT ![open[r].path] = open[r].content]
    /\ files' = [files EXCEPT ![r] = @ \ {open[r].path}]
    /\ open' = [open EXCEPT ![r] = NoFile]
    /\ UNCHANGED <<pc, plan, changes, pending, saved, manifest, before, base>>

\* Mutant: a file that the run created is left where it is.
RemoveFileSkipped(r, p) ==
    /\ pc[r] \in Restoring /\ open[r] = NoFile
    /\ p \in files[r] /\ saved[r][p] = Absent
    /\ files' = [files EXCEPT ![r] = @ \ {p}]
    /\ UNCHANGED <<repo, pc, plan, changes, pending, open, saved, manifest,
                   before, base>>

\* ... and one that was not there when the backup was taken is removed.
RemoveFile(r, p) ==
    /\ pc[r] \in Restoring /\ open[r] = NoFile
    /\ p \in files[r] /\ saved[r][p] = Absent
    /\ repo' = [repo EXCEPT ![p] = Absent]
    /\ files' = [files EXCEPT ![r] = @ \ {p}]
    /\ UNCHANGED <<pc, plan, changes, pending, open, saved, manifest, before,
                   base>>

\* Mutant: a restore that broke off counts as a restore.
HalfRestoredSwallowed(r) == IF pc[r] = "undo_done" THEN "half_undone" ELSE "failed"

\* Where a run is left when its restore does not come to its end.
HalfRestored(r) == IF pc[r] = "undo_done" THEN "half_undone" ELSE "damaged"

\* A copy or an unlink raises: the restore stops there.
RestoreFails(r) ==
    /\ pc[r] \in Restoring /\ files[r] # {}
    /\ files' = [files EXCEPT ![r] = {}]
    /\ open' = [open EXCEPT ![r] = NoFile]
    /\ Goto(r, HalfRestored(r))
    /\ UNCHANGED <<repo, plan, changes, pending, saved, manifest, before, base>>

Restored(r) ==
    /\ pc[r] \in Restoring /\ files[r] = {}
    /\ Goto(r, IF pc[r] = "undo_done" THEN "rolled_back" ELSE "failed")
    /\ UNCHANGED <<repo, plan, changes, pending, files, open, saved,
                   manifest, before, base>>

\* The process dies: every run ends where it is, and nothing resumes it.
Crash ==
    /\ ~Idle
    /\ pc' = [r \in Runs |->
                 IF pc[r] \in Active THEN HalfRestored(r) ELSE pc[r]]
    /\ pending' = [r \in Runs |-> {}]
    /\ files' = [r \in Runs |-> {}]
    /\ open' = [r \in Runs |-> NoFile]
    /\ UNCHANGED <<repo, plan, changes, saved, manifest, before, base>>

----------------------------------------------------------------------------

Step(r) ==
    \/ GenerateFails(r)
    \/ (\E proposed \in Proposals :
           Generate(r, proposed) \/ RejectChanges(r, proposed))
    \/ (\E p \in Paths : CaptureFile(r, p))
    \/ BackupFails(r) \/ WriteManifest(r)
    \/ (\E c \in pending[r] : OpenFile(r, c) \/ DeleteFile(r, c))
    \/ WriteFile(r) \/ ApplyFails(r) \/ Applied(r)
    \/ ValidationPasses(r) \/ ValidationFails(r)
    \/ (\E p \in Paths : OpenCopy(r, p) \/ RemoveFile(r, p))
    \/ CloseCopy(r) \/ RestoreFails(r) \/ Restored(r)

Commands(r) == \E p \in Products : CommandWrites(r, p)

Next ==
    Crash \/ \E r \in Runs : Start(r) \/ Rollback(r) \/ Step(r) \/ Commands(r)

Spec == Init /\ [][Next]_vars

\* A started run goes on; commands and model calls have timeouts.
FairSpec == Spec /\ \A r \in Runs : WF_vars(Step(r))

----------------------------------------------------------------------------
(* Properties.                                                             *)

\* Type invariant.
TypeOK ==
    /\ repo \in [Paths -> FileState]
    /\ pc \in [Runs -> PC]
    /\ plan \in [Runs -> SUBSET PlannedChange]
    /\ changes \in [Runs -> SUBSET ProposedFileChange]
    /\ pending \in [Runs -> SUBSET ProposedFileChange]
    /\ files \in [Runs -> SUBSET Paths]
    /\ open \in [Runs -> {NoFile} \cup
                     [path : Paths, content : Contents \cup {Torn}]]
    /\ saved \in [Runs -> [Paths -> FileState]]
    /\ manifest \in [Runs -> BOOLEAN]
    /\ before \in [Runs -> [Paths -> FileState]]
    /\ base \in [Paths -> FileState]

\* What the change set of run r makes of path p, were it `old' before.
Results(r, p, old) ==
    LET own == {c \in changes[r] : c.path = p}
    IN  IF own = {} THEN {old}
        ELSE {IF Normalise(c.operation) = "delete" THEN Absent ELSE c.content :
                 c \in own}

\* What a run answers for: the paths of its plan, and those that no command
\* writes.
Guarded(r) == PathsOf(plan[r]) \cup (Paths \ Products)

\* A run that ends as failed has left no trace but what its validation
\* commands made elsewhere: whatever it or they wrote before its apply or its
\* validation failed, the planned and all other paths are what they were when
\* the run started (applier.py "repository restored", pipeline.py "repository
\* rolled back").
FailureRestores ==
    [][\A r \in Runs : pc[r] # "failed" /\ pc'[r] = "failed" =>
          \A p \in Guarded(r) : repo'[p] = before[r][p]]_vars

\* A run that ends as done has written every planned path as the generator
\* proposed, and no other path, unless one of its commands wrote there.
DoneIsComplete ==
    [][\A r \in Runs : pc[r] = "validating" /\ pc'[r] = "done" =>
          /\ PathsOf(changes[r]) = PathsOf(plan[r])
          /\ \A p \in Paths \ Products :
                 repo'[p] \in Results(r, p, before[r][p])]_vars

\* A rollback that ends has put every path of the task back to what it was
\* before the task, also when an earlier rollback or a crash stopped half-way.
RollbackRestores ==
    [][\A r \in Runs : pc[r] = "undo_done" /\ pc'[r] = "rolled_back" =>
          \A p \in PathsOf(plan[r]) : repo'[p] = before[r][p]]_vars

\* At every moment of a run, and so wherever a crash stops it, copying its
\* backup back would restore what the run answers for; without a manifest
\* there is nothing to restore.
AlwaysRecoverable ==
    \A r \in Runs : pc[r] \in Active \ {"undo_done"} =>
        IF manifest[r]
          THEN \A p \in Guarded(r) :
                   before[r][p] = IF p \in PathsOf(changes[r])
                                    THEN saved[r][p] ELSE repo[p]
          ELSE repo = before[r]

\* What failed or was rolled back has left nothing behind.
FailureUndone == FailureRestores /\ RollbackRestores

\* No file of the repository is touched, however runs interleave, except by
\* a run whose backup manifest is in place: by itself when its approved plan
\* names the file, by its validation commands when it is one of theirs.
WritesArePlannedAndSaved ==
    [][\A p \in Paths : repo'[p] # repo[p] =>
          \E r \in Runs :
              /\ manifest[r]
              /\ \/ /\ p \in PathsOf(plan[r])
                    /\ pc[r] \in {"applying", "writing"} \cup Restoring
                 \/ p \in Products /\ pc[r] = "validating"
      ]_vars

\* Every run ends, done or not.
EveryRunEnds == \A r \in Runs : pc[r] \in Active ~> pc[r] \notin Active

\* When every run so far is done or failed, a path that a done run changed
\* and no command writes has what one of the done runs made of it: failed runs
\* took nothing of theirs away (docs/CODE_BUILDER_V2_ARCHITECTURE.md rule 5:
\* atomic change application and backup/rollback).
CompletedChangesStay ==
    (\A r \in Runs : pc[r] \in {"new", "done", "failed"}) =>
        \A p \in Paths \ Products :
            LET writers == {r \in Runs : /\ pc[r] = "done"
                                         /\ p \in PathsOf(changes[r])}
            IN  writers # {} =>
                    repo[p] \in UNION {Results(r, p, repo[p]) : r \in writers}
=============================================================================
