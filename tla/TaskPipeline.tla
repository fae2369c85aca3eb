---------------------------- MODULE TaskPipeline -----------------------------
(***************************************************************************)
(* TaskService.execute of Code Builder V1 (task_service.py): one task goes *)
(* through its stages, with the transaction of PatchService, the commands  *)
(* of BuildService and the backups of BackupService, while it may be       *)
(* cancelled or run out of time and others edit the files.                 *)
(***************************************************************************)
EXTENDS RepositoryPatch, BuildSequence

CONSTANTS
    Files,          \* what the repository may hold when the task begins
    Requests,       \* TaskRequests: a subset of TaskRequest
    Patches         \* the operations a patch may consist of
ASSUME PatchesAssumption ==
    Files \subseteq [Paths -> Contents] /\ Patches \subseteq Seq(Operation)

Policies == {"disabled", "optional", "required"}
TaskRequest == [dry : BOOLEAN, targets : SUBSET Paths, backup : Policies,
                build : Policies, stop : BOOLEAN,
                rollback : {"never", "on_any_failure", "on_patch_failure",
                            "on_build_failure"},
                given : BOOLEAN]    \* metadata carries patch operations
ASSUME RequestsAssumption == Requests \subseteq TaskRequest

Stages == <<"validation", "analysis", "planning", "backup", "generation",
            "checking", "application", "build">>
StageNames == {Stages[i] : i \in DOMAIN Stages}
NoBackup == [p \in {} |-> Absent]     \* context.backup is None

VARIABLES
    request,
    stage,          \* of Stages, then "rollback" and "ended"
    worked,         \* the stage has done its work
    failed,         \* the stage that raised, and ...
    error,          \* ... what it raised
    status,         \* TaskStatus at the end
    told,           \* the cancellation token
    late,           \* task_timeout_seconds have passed
    plan,           \* paths the plan names
    listed,         \* the ones _extract_paths finds in it
    backup,         \* what create_backup saved
    backupAt,       \* history: the edits there had been then
    attempted, restored             \* rollback_attempted, rollback_succeeded

context == <<request, plan, listed, backup, backupAt>>
control == <<stage, worked, failed, error, status, attempted, restored>>
pipelineVars == <<patchVars, buildVars, context, control, told, late>>

PipelineInit ==
    /\ request \in Requests
    /\ \E files \in Files : PatchInit(files)
    /\ BuildInit
    /\ stage = "validation" /\ worked = FALSE
    /\ failed = "none" /\ error = "none" /\ status = "running"
    /\ told = FALSE /\ late = FALSE
    /\ plan = {} /\ listed = {} /\ backup = NoBackup /\ backupAt = 0
    /\ attempted = FALSE /\ restored = FALSE

(* ---------------------------- going through --------------------------- *)

\* raise_if_interrupted, at the beginning and the end of every stage.
Interrupted == told \/ late

At(s) == stage = s /\ ~worked
Works(s) == At(s) /\ ~Interrupted
WorkDone == worked' = TRUE /\ UNCHANGED <<stage, failed, error, status,
                                          attempted, restored>>

\* _should_attempt_rollback
WantsRollback(s) ==
    /\ ~request.dry /\ backup # NoBackup
    /\ \/ request.rollback = "on_any_failure"
       \/ /\ request.rollback = "on_patch_failure"
          /\ s \in {"generation", "checking", "application"}
       \/ request.rollback = "on_build_failure" /\ s = "build"

\* _status_for_error, with no rollback attempted.
PlainStatus(e) == IF e \in {"cancelled", "timed_out"} THEN e ELSE "failed"

\* What a stage raises is caught in _execute_pipeline.
Raise(e) ==
    /\ failed' = stage /\ error' = e
    /\ IF WantsRollback(stage)
       THEN stage' = "rollback" /\ UNCHANGED status
       ELSE stage' = "ended" /\ status' = PlainStatus(e)
    /\ UNCHANGED <<worked, attempted, restored>>

Interrupt ==
    /\ stage \in StageNames /\ Interrupted
    /\ \/ worked
       \/ (stage = "application" => tx = "none") /\ process = "unbegun"
    /\ Raise(IF told THEN "cancelled" ELSE "timed_out")
    /\ UNCHANGED <<patchVars, buildVars, context, told, late>>

NextStage ==
    /\ stage \in StageNames /\ worked /\ ~Interrupted
    /\ IF stage = "build"
       THEN /\ stage' = "ended"
            /\ status' = IF request.dry THEN "dry_run" ELSE "succeeded"
            /\ UNCHANGED worked
       ELSE /\ \E i \in 1 .. Len(Stages) - 1 :
                  Stages[i] = stage /\ stage' = Stages[i + 1]
            /\ worked' = FALSE /\ UNCHANGED status
    /\ UNCHANGED <<patchVars, buildVars, context, failed, error, attempted,
                   restored, told, late>>

(* ------------------------------ the stages ---------------------------- *)

Unchanged == UNCHANGED <<patchVars, buildVars, request, told, late>>

\* _validate_request (paths, hooks, a clean repository), the analysis and the
\* plan: what they find is not known.
CheckRequest == Works("validation") /\ (WorkDone \/ Raise("error"))
Analyze == Works("analysis") /\ (WorkDone \/ Raise("error"))
Study ==
    /\ CheckRequest \/ Analyze
    /\ UNCHANGED <<plan, listed, backup, backupAt>> /\ Unchanged

\* _extract_paths finds the paths of the plan that was approved with a preparation,
\* under `files'.  A ChangePlan of PlanningService has them in `changes', where
\* only the generation of the patch looks.
ExtractedPaths(paths) == {paths, {}}

CreatePlan == plan' \in SUBSET Paths /\ listed' \in ExtractedPaths(plan')
MakePlan ==
    /\ Works("planning")
    /\ \/ WorkDone /\ CreatePlan
       \/ Raise("error") /\ UNCHANGED <<plan, listed>>
    /\ UNCHANGED <<backup, backupAt>> /\ Unchanged

\* _create_backup: the paths found in the plan, else the targets, else the root,
\* which is a directory and refused.
ToBackUp == IF listed # {} THEN listed ELSE request.targets
CreateBackup ==
    /\ ToBackUp # {}
    /\ backup' = [p \in ToBackUp |-> repo[p]]
    /\ backupAt' = edits
Forgoes(policies) ==
    /\ Raise("error") \/ (request.backup \in policies /\ WorkDone)
    /\ UNCHANGED <<backup, backupAt>>

\* Mutant: a backup that fails is forgiven whatever the policy.
MakeBackupForgiven ==
    /\ At("backup")
    /\ request.backup = "disabled" \/ ~Interrupted
    /\ IF request.backup = "disabled"
       THEN WorkDone /\ UNCHANGED <<backup, backupAt>>
       ELSE (CreateBackup /\ WorkDone) \/ Forgoes({"optional", "required"})
    /\ UNCHANGED <<plan, listed>> /\ Unchanged

\* _execute_backup_stage.  A backup that fails is forgiven when it is optional.
MakeBackup ==
    /\ At("backup")
    /\ request.backup = "disabled" \/ ~Interrupted
    /\ IF request.backup = "disabled"
       THEN WorkDone /\ UNCHANGED <<backup, backupAt>>
       ELSE (CreateBackup /\ WorkDone) \/ Forgoes({"optional"})
    /\ UNCHANGED <<plan, listed>> /\ Unchanged

\* _build_patch_request_from_metadata: sources of operations must be among the
\* paths found in the plan, if any are.
Given(ops) == listed # {} => Sources(ops) \subseteq listed

\* generate_patch makes texts for paths of the plan and for the targets, each
\* for the contents it was made from.
Generated(ops) ==
    \A i \in DOMAIN ops :
        /\ ops[i].kind \in {"create", "write"} /\ ~ops[i].lenient
        /\ ops[i].path \in plan \cup request.targets
        /\ ops[i].kind = "write" => ops[i].expect = repo[ops[i].path]

ObtainPatch ==
    /\ patch' \in Patches
    /\ IF request.given THEN Given(patch')
       ELSE Generated(patch') /\ Applicable(patch', repo)
GeneratePatch ==
    /\ Works("generation")
    /\ \/ ObtainPatch /\ WorkDone
       \/ Raise("error") /\ UNCHANGED patch
    /\ UNCHANGED <<repo, others, edits, prepared, saved, savedAt, done, tx, buildVars,
                   context, told, late>>

\* _validate_patch: a dry run of the patch.
PassesDryRun == Applicable(patch, repo)
CheckPatch ==
    /\ Works("checking")
    /\ IF PassesDryRun THEN WorkDone ELSE Raise("error")
    /\ UNCHANGED context /\ Unchanged

\* _apply_patch begins, and ends with what the transaction came to.
BeginApply ==
    /\ Works("application") /\ tx = "none"
    /\ IF request.dry THEN WorkDone /\ UNCHANGED tx
       ELSE tx' = "begun" /\ UNCHANGED control
    /\ UNCHANGED <<repo, others, edits, patch, prepared, saved, savedAt, done, buildVars,
                   context, told, late>>

EndApply ==
    /\ At("application") /\ tx \in {"applied", "failed", "rolled_back", "broken"}
    /\ IF tx = "applied" THEN WorkDone ELSE Raise("error")
    /\ UNCHANGED <<patchVars, buildVars, context, told, late>>

\* _run_build.  A sequence with a failure raises TaskBuildError, whatever the
\* policy; other exceptions are forgiven when the build is optional.
Forgiven == IF request.build = "optional" THEN WorkDone ELSE Raise("error")
SkipBuild ==
    /\ At("build") /\ request.build = "disabled"
    /\ WorkDone
    /\ UNCHANGED <<patchVars, buildVars, context, told, late>>

BeginBuild ==
    /\ Works("build") /\ request.build # "disabled" /\ process = "unbegun"
    /\ process' = "none"
    /\ UNCHANGED <<patchVars, results, claimed, context, control, told, late>>

BuildStep ==
    /\ At("build")
    /\ \/ NextCommand(told)
       \/ StartCommand(told, request.dry, request.stop)
       \/ EndCommand(told, request.stop)
    /\ UNCHANGED <<patchVars, context, control, told, late>>

EndBuild ==
    /\ At("build")
    /\ \/ process = "raised" /\ Forgiven
       \/ /\ SequenceEnded
          /\ IF SequenceStatus(results) \in Failures THEN Raise("error")
             ELSE WorkDone
    /\ UNCHANGED <<patchVars, buildVars, context, told, late>>

(* ------------------------------ rollback ------------------------------ *)

\* _rollback: its time limit is asked for first, and an interrupted task has
\* none, so that nothing is attempted.
RefuseRollback ==
    /\ stage = "rollback" /\ Interrupted
    /\ stage' = "ended" /\ status' = "failed"
    /\ UNCHANGED <<worked, failed, error, attempted, restored>>
    /\ UNCHANGED context /\ Unchanged

\* BackupService.rollback: everything is restored and verified, or the safety
\* backup is, or even that fails.  PatchService has no rollback by any of the
\* names that are tried first.
PutBack(part) ==
    repo' = [p \in Paths |-> IF p \in part THEN backup[p] ELSE repo[p]]
Concluded(part) ==
    \/ part = DOMAIN backup /\ restored' = TRUE /\ status' = "rolled_back"
    \/ restored' = FALSE /\ status' = "rollback_failed"
RollBack ==
    /\ stage = "rollback" /\ ~Interrupted
    /\ attempted' = TRUE
    /\ \E part \in SUBSET DOMAIN backup : PutBack(part) /\ Concluded(part)
    /\ stage' = "ended"
    /\ UNCHANGED <<worked, failed, error, others, edits, patch, prepared, saved,
                   savedAt, done, tx, buildVars, context, told, late>>

(* ----------------------------- surroundings --------------------------- *)

Tell == ~told /\ told' = TRUE
        /\ UNCHANGED <<patchVars, buildVars, context, control, late>>
TimeOut == ~late /\ late' = TRUE
           /\ UNCHANGED <<patchVars, buildVars, context, control, told>>
EditFile ==
    /\ \E p \in Paths, c \in Contents : Edit(p, c)
    /\ UNCHANGED <<buildVars, context, control, told, late>>
ClaimCommand ==
    /\ At("build") /\ Claim
    /\ UNCHANGED <<patchVars, context, control, told, late>>

Apply ==
    /\ stage = "application" /\ PatchStep
    /\ UNCHANGED <<buildVars, context, control, told, late>>

PipelineStep ==
    \/ Interrupt
    \/ NextStage
    \/ Study
    \/ MakePlan
    \/ MakeBackup
    \/ GeneratePatch
    \/ CheckPatch
    \/ BeginApply
    \/ Apply
    \/ EndApply
    \/ SkipBuild
    \/ BeginBuild
    \/ BuildStep
    \/ EndBuild
    \/ RefuseRollback
    \/ RollBack

Surroundings == stage # "ended" /\ (Tell \/ TimeOut \/ EditFile \/ ClaimCommand)

PipelineNext == PipelineStep \/ Surroundings
PipelineSpec == PipelineInit /\ [][PipelineNext]_pipelineVars
PipelineFairSpec == PipelineSpec /\ WF_pipelineVars(PipelineStep)

(* ----------------------------- properties ----------------------------- *)

\* Types.
PipelineTypeOK ==
    /\ repo \in [Paths -> Contents] /\ others \in [Paths -> Contents]
    /\ edits \in 0 .. MaxEdits
    /\ patch \in Seq(Operation) /\ done \in 0 .. Len(prepared)
    /\ \A i \in DOMAIN prepared :
          prepared[i] \in [op : Operation, before : Contents, after : Contents,
                           changed : BOOLEAN]
    /\ saved \in [Paths -> Contents \cup {Unsaved}]
    /\ tx \in {"none", "begun", "prepared", "saved", "verified", "restoring",
               "applied", "failed", "rolled_back", "broken"}
    /\ results \in Seq(CommandStatus) /\ Len(results) <= Len(Commands)
    /\ process \in {"unbegun", "none", "starting", "running", "raised"}
    /\ stage \in StageNames \cup {"rollback", "ended"}
    /\ status \in {"running", "dry_run", "succeeded", "failed", "cancelled",
                   "timed_out", "rolled_back", "rollback_failed"}
    /\ plan \subseteq Paths /\ listed \in {plan, {}}
    /\ DOMAIN backup \subseteq Paths /\ \A p \in DOMAIN backup : backup[p] \in Contents

\* The paths on which the task has left a mark.
Marked == {p \in Paths : repo[p] # others[p]}

\* What create_backup is not told of although the patch may touch it: where
\* files are moved to, and targets that the plan does not name; of a ChangePlan,
\* whose paths it does not find, all that is no target.
Uncovered ==
    (IF listed = {} THEN Paths ELSE Destinations(patch) \cup request.targets) \ ToBackUp

\* Wherever the process dies, a required backup holds the original of every
\* file the task has changed, except for the uncovered ones.
CrashIsRestorable ==
    request.backup = "required" /\ edits = backupAt =>
        \A p \in Marked \ Uncovered : p \in DOMAIN backup /\ backup[p] = others[p]

\* A transaction that fails, on whichever operation, and can restore what it
\* saved leaves the files as they were, with what others did until it saved.
FailedPatchRestores ==
    ~attempted =>
        /\ tx = "failed" => Marked = {}
        /\ tx = "rolled_back" /\ edits = savedAt => Marked = {}

\* Nothing that moved on between the preparation and the snapshots is written
\* over (but by a create that tolerates the file, which verifies nothing).
AppliedOverPrepared ==
    tx = "applied" /\ edits = savedAt =>
        \A i \in DOMAIN prepared :
            LET c == prepared[i]
            IN c.changed /\ ~(c.op.kind = "create" /\ c.op.lenient) =>
                  saved[c.op.path] = c.before

\* What a task reports is true of the files: a dry run has changed nothing, a
\* success left every result in place, an interrupted task whose policy was to
\* roll back changed nothing, and a rollback undid what the backup covers.
StatusTellsFiles ==
    /\ request.dry => Marked = {}
    /\ status = "succeeded" /\ edits = 0 => \A i \in DOMAIN prepared :
          /\ repo[prepared[i].op.path] = prepared[i].after
          /\ prepared[i].op.kind = "rename" /\ prepared[i].changed =>
                repo[prepared[i].op.to] = prepared[i].before
    /\ status \in {"cancelled", "timed_out"} /\ WantsRollback("any") =>
          Marked = {}
    /\ status = "rolled_back" /\ edits = backupAt =>
          Marked \subseteq Uncovered

\* Only a task whose commands all ran and passed succeeds when its build is
\* required, however cancellations and other builds cut in.
SucceededIsBuilt ==
    status = "succeeded" /\ request.build = "required" =>
        Len(results) = Len(Commands) /\ \A i \in DOMAIN results : results[i] = "succeeded"

\* Every execution ends.
ExecutionIsOver == stage = "ended"

\* Whatever a task comes to, it says so, and what it did to the files can be
\* undone.
TaskTellsTheTruth ==
    /\ PipelineTypeOK /\ CrashIsRestorable /\ FailedPatchRestores /\ AppliedOverPrepared
    /\ StatusTellsFiles /\ SucceededIsBuilt
=============================================================================
