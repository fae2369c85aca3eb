# A verification of Lumina AI Studio's job and change machinery

Lumina AI Studio is a FastAPI backend (`src/backend`) with a React frontend, a
desktop launcher and a small driving assistant.  This directory holds TLA+
models of the parts of the backend where state, concurrency and failure meet:
the two **Code Builders**, which let a language model change a repository, the
**AI runtime job manager**, the **media jobs** of the server with the choice of
their providers, and **Document Studio**.

The models are translated from the code.  TLC checks them on small instances
(the `MC*` modules with the `.cfg` files) and TLAPS proves the theorems of the
`*_proofs` modules for every value of the constants.

Contents: [inventory](#inventory) · [modules](#modules-and-the-code) ·
[runs](#runs) · [bounds](#bounds) · [fairness](#fairness) ·
[findings](#findings) · [further hazards](#further-hazards) ·
[proofs](#proofs) · [what is not modelled](#what-is-not-modelled) · [plan](#plan)

## Inventory

| Part | State it keeps | Operations | Talks to | Modules |
|---|---|---|---|---|
| V2 task service (`code_builder_v2/service.py`, `store.py`, `models.py`, `router.py`) | `_tasks`, `tasks.json`, one `RLock` | create, execute, cancel, rollback; load at start | planner, pipeline, autonomous loop | `CodeBuilderService` |
| V2 change pipeline (`pipeline.py`, `applier.py`, `backup.py`, `transaction.py`, `repository.py`) | files of the repository, backups with `manifest.json` | generate, check, back up, apply, validate, restore, roll back | file system, commands | `ChangePipeline`, `AtomicTransaction`, `ChangePipelineRefinement` |
| V2 autonomous loop (`autonomous.py`, `runtime.py`, `workspace.py`) | a disposable copy, attempt and fingerprint counts | prepare, attempt, validate, diagnose, publish | generator, applier, commands | `AutonomousBuild` |
| V2 change generation (`ollama.py`) | progress of one call | `generate`, `generate_json`, a loop per provider | Groq, Hugging Face, Ollama | `ChangeGenerator` |
| V2 repair loop (`repair.py`, `sandbox.py`, `browser.py`, `providers.py`) | a sandbox session, evidence and fingerprints | build, start, verify, diagnose | containers, browser, models | `RepairLoop` |
| V1 API (`code_builder/router.py`, `persistent_task_store.py`) | stored tasks, their rows, idempotency keys | create, approve, cancel, delete, roll back, runs on threads, restart | task service | `TaskRouter` |
| V1 task pipeline (`task_service.py`) | one execution | analyse, plan, back up, generate, apply, build, roll back | all V1 services | `TaskPipeline` over `RepositoryPatch`, `BuildSequence` |
| V1 patches (`patch_service.py`) | snapshots, prepared operations, created directories | prepare, save, commit, verify, restore; text operations and diffs | file system | `RepositoryPatch`, `PatchDirectories`, `PatchText` |
| V1 backups (`backup_service.py`) | backups and manifests | create, verify, roll back, recover, delete | file system | `BackupStore` |
| V1 builds (`build_service.py`) | registry of processes, log buffers | make commands, execute, cancel, sequences | processes | `BuildCommands`, `BuildProcess`, `BuildSequence` |
| V1 patch generation (`patch_generation_service.py`) | hashes of what was read | prompt, answer, repair, dry run | Ollama client, patches | `PatchGeneration` |
| V1 planning (`planning_service.py`) | none between calls | choose context, ask, normalise, repair, convert | Ollama client, analysis | `PlanContext`, `ChangePlanner` |
| V1 analysis (`repository_service.py`) | the saved index | read and describe files, index, resolve imports, tree | file system | `FileReading`, `RepositoryIndex`, `RepositoryMap` |
| V1 Ollama client (`ollama_service.py`) | an HTTP client per event loop | calls, retries, close, structured calls | Ollama | `OllamaClient`, `StructuredCall`, `StructuredAnswer` |
| Job manager (`ai_runtime/manager.py`) | `jobs`, `executors`, `queue`, `_running`, `jobs.json` | submit, worker, run, progress, cancel, pause, retry, load | executors of the studios | `RuntimeManager` |
| Media jobs (`server.py` over `persistence.py`) | job documents and their mirrors | AI edit, image, video, voice, portrait; cancel, rename, delete; restart | documents, storage, providers | `MediaJobs` |
| Image providers (`providers/manager.py`) | cooldowns, usage | choose, ask, retry, fall back | provider adapters | `ImageProviders` |
| Document Studio (`document_studio/`) | documents, versions, folders | edit, track changes, restore, move, file; drafts of a model | documents, models | `DocumentStudio`, `DocumentDrafts` |
| Runtime registries, login, storage, tools, launcher, frontend, driving assistant | little or none | request and response | | not modelled |

How they meet.  The endpoints of Code Builder V2 are synchronous functions, so
FastAPI runs each in a thread of a pool: handlers interleave on the same task
objects, and the service's lock is held only around dictionary lookups and
saves.  `execute_task` calls the pipeline or the autonomous loop in the thread
of the request; the pipeline asks the generator, which can take minutes, and
then changes files one at a time, and nothing locks the repository.  V1 has the
same shape with more mechanisms: its API schedules executions on threads and
writes rows as their events arrive; an execution backs up the paths a plan lists,
or its targets where it finds none, applies a transaction with snapshots of its own, runs commands and may roll
back by both.  The job manager and the media jobs live on one event loop; a
document is read in one thread call and written in another.

What is hard here, and what makes each part correct:

* *Task services*: two requests pass the same status test; a cancel lands in an
  execution; an old payload is saved over a newer one; the process dies between
  an effect and its record.  Correct when what was answered is stored, a status
  says what became of the files, and only decisions of the user are carried out.
* *Files*: failure at any operation, a crash with a file truncated, edits and
  other executions beside.  Correct when a change set is all or nothing, and
  what a backup or a snapshot promises can be put back.
* *Loops over models*: nested tries, providers and repairs.  Correct when they
  end within their limits, return no silent gap, and claim no success they did
  not see.
* *Processes*: signals, time limits, shared registries, bounded logs.  Correct
  when every process is known while it runs and gone afterwards.
* *Jobs and documents*: a read and a later write of the same document.  Correct
  when a completed job has its output, and no text a user wrote is lost.

`PROJECT.json` lists the forty hazards that matter most, each at its line with
the properties that cover it; [further hazards](#further-hazards) has the rest.

## Modules and the code

Every action stands for the whole stretch of code between two points where
another actor can interfere; `PROJECT.json` maps every definition to its lines.

### Code Builder V2

**`CodeBuilderService`.**  `task` is `service._tasks`, `disk` is `tasks.json`,
`lock` the service's lock, `pc`/`cur`/`then` the place of each thread, `snap`
the payload that `save_all` has built and not yet written.  The tasks share
`repo`: each of its files is as it was or as a task has made it, so that restoring
one task may take back what another has completed since (which the code does, and
nothing keeps a user from it).  `report` is a backup, `unsaved` the tasks whose
last save raised, `torn` those whose restore raised half-way; `MaxFaults` bounds
both.

| Action | Code |
|---|---|
| `CreateTask`, `AutoExecute` | `create_task`, which plans and, for `auto_apply`, executes |
| `BeginPlan`, `EndPlan` | `plan_task` before and after the planner |
| `RequestExecute`, `BeginExecute` | the status test of `execute_task`, and its transition |
| `BeginProgress`, `DumpProgress`, `StoreProgress` | `progress_persist`, which saves without the service's lock |
| `Apply`, `ApplyTorn`, `PublishNothing`, `BeginComplete`, `Complete`, `ValidationFails`, `ExecutionFails` | the execution and its verdict; an apply that raises restores, and so does a failed validation, and a restore may raise half-way |
| `RequestCancel`, `Cancel`, `RequestRollback`, `Restore`, `RestoreFails`, `RollBack` | test and transition of `cancel_task`, `rollback_task` |
| `Snapshot`, `Store`, `Reply`, `Restart` | `_persist`; the response; a new process loads the file |

A plan is there or not; a report is what its backup has of each file; a task that is
inserted while the payload is built makes that fail, as iterating over a
dictionary does; the file is replaced in one step, as `os.replace` gives.

**`ChangePipeline`.**  `repo` maps paths to contents, `Absent` or `Torn`.  A run
is a call of `pipeline.execute`: `Start`, `Generate` or `RejectChanges`,
`CaptureFile`, `WriteManifest`, then `OpenFile` (which truncates), `WriteFile`,
`DeleteFile` one file at a time, the validation, and the restore with
`OpenCopy`, `CloseCopy`, `RemoveFile`; `Rollback` is the user's.  Each may fail,
and `Crash` stops all of them.  Directories, encodings and path containment are
left out; a backup copy is one step, as nobody reads it before the manifest.
The validation commands run in the repository and may write or remove what is
theirs there (`Products`, `CommandWrites`): where that is a planned path, the
backup brings it back, anywhere else it stays, and the properties say so
(`Guarded`).

**`AtomicTransaction`, `ChangePipelineRefinement`.**  The promise: a task changes
the files of its plan all at once or not at all, and a completed one can be
undone; only one that was cut off may leave something else, and only at paths of
its plan.  The refinement shows the repository as it was when the run began
until its outcome is known.  TLC checks it, and it is proved.

**`AutonomousBuild`.**  `source` is the repository, `workspace` the copy without
`Ignored` names, `changed` the accumulated paths, `failures` the fingerprints.
Others edit the source at any time.  Copying is one step, and so is applying a
change set to the workspace, which nobody else sees and which goes away when
anything raises.  The publication goes path by path like the applier it uses:
`BeginPublish` takes the backup, `PublishPath` writes, a write may raise with a
part of the file written (`WriteRaises`), then every path of the backup is
restored (`RestorePath`), and that may raise as well (`RestoreRaises`), which
leaves what it has not reached.  `theirs` is the source as others made it, `late`
the paths they edited during the publication, `torn` those a restore has not
reached.

**`ChangeGenerator`.**  One call of `generate()`: `index`, `produced`, `limited`
are `current_file_index`, `all_changes`, `rate_limited_providers`; `attempt`,
`turn`, `tries` count the three loops.  Resuming from a stored progress is left
out: `generation_progress` is never assigned, so no call resumes.

**`RepairLoop`.**  Attempts of build, start, look at the page, diagnose, with the
sandbox's runtime and the model providers as `setup`.  A session is made part by
part (`MakePart`: a volume, a container, a session of the deployment) before the
loop's `try` begins, so what a creation that raises has made stays (`held`); from
`CreateSession` on, every way out asks for the end of the session, which may leave
parts behind as well.  Commands past their time may stay behind, a server of an earlier attempt may hold the port, a provider's
own exception may escape the router.  A page is its set of failed checks and
errors.

### Code Builder V1

**`TaskRouter`.**  Tasks in memory, their rows and keys.  `Thread(r)` is a
scheduled execution: `Begin`, `Register`, `Analyse`, `BackUp`, `Apply`,
`Report`, `Finish`; each of its events is written later by `Persist`.
`Create`/`CommitKey`/`Repeat` are the idempotent creation, `BeginRollback` and
`EndRollback` the manual rollback, `Recovered` and `Resumed` what `Restart` does.

**`TaskPipeline`** extends **`RepositoryPatch`** (the transaction over files) and
**`BuildSequence`** (the commands), so the three are composed: an execution goes
through its stages with the policies of its request, and `Tell` (a
cancellation), `TimeOut`, `Raise` and `EditFile` may come at any point.  A plan
that the planner of the repository made has its files in `changes`, where only the
generation looks for them: the backup then takes the targets of the task, or the
whole repository, and metadata operations are not held to the plan
(`_extract_paths`).  A plan with a list of paths shows them to all three.

**`PatchDirectories`** is the same transaction over a tree of files and
directories, for two transactions at once.  It prepares its operations against
the tree (a directory where a file is meant, a source that is missing and a
destination that exists are refused), takes a snapshot of each path it touches,
makes the directories on the way and remembers which of them are its own, writes
by way of a temporary file, and takes all of this back in the opposite order
(every caller asks for that).  Taking the snapshots is one step: their contents are
in memory, and the copy on disk is read by nobody.
**`PatchText`** computes what text operations and diffs make of a text:
newlines of several kinds, places, hunks.  A diff is what its characters say: a
last line without an end is glued to the line of the file that follows, a
no-newline marker is dropped, a byte order mark is not written back, and
`expected_occurrences = 0` is always refused.

**`BackupStore`** extends it and states `FilesAreRestored` of both: each operation
of the store goes path by path through `stat`, hash and copy, under edits and
the death of the process.

**`BuildCommands`** decides what a check becomes: arguments, executable,
environment with its sensitive names; **`BuildProcess`** is one or two executions with their process, a
child of it, the registry, signals, the reader and the bounded log.  Output is
bytes that become characters when they are whole (a character cut by the end of
a read waits for the next), and the canceller is the thread of the user: it
looks up a process, terminates it, waits for its grace and kills it, while the
execution does the same at its own time limit.  One of the two streams is
modelled; the other has a reader and a log of its own.

**`PatchGeneration`**: the prompt takes the hash of what it shows, the answer is
checked against hashes and scope, one repair, then the dry run.
**`PlanContext`** is `build_context`, a step per candidate (`Visit`), per file it
is linked to (`Bring`) and per entry (`Show`), under its limits and its budget of
tokens.  **`ChangePlanner`** normalises, refuses, repairs and converts plans while
the repository moves on.  A title that generation accepts can be too long for the
plan that is handed on, which loses an accepted plan; and nothing compares the
paths of a plan with one another's directories, so a plan may create a file and a
file below it.
**`FileReading`** reads a file in the steps of the code, each of which may see
another version; a file is a sequence of bytes that make characters by its
encoding.  **`RepositoryMap`** resolves relative imports (in a directory with a dot
in its name `with_suffix` replaces what follows the dot, in a hidden one the dot is
lost, and in the root it raises, which ends the analysis: `halted`), and builds the
tree a directory and a file at a time.  **`RepositoryIndex`** saves and reuses the index, with hashes or by
sizes alone, of files whose names may differ in case only; it extends the two and states `AnalysisIsTrue` of all three.
**`OllamaClient`** keeps HTTP clients by the id of an event loop, for threads
that each run loops of their own (a client that the caller brings is used as it is,
and left out); **`StructuredCall`** has the limits and the
instruction for a schema; **`StructuredAnswer`** cuts a value out of a text.

### The platform

**`RuntimeManager`.**  A step is what happens between two suspensions of the event
loop.  `Submit` is an awaited job, `Enqueue` one for the worker, whose steps are
`Take` and `Dispatch`; `Write` is `_persist_jobs`, which may raise at every call,
and the exception goes where it goes in the code.  `submit` without an executor for
its type is left out: every caller brings one.

**`MediaJobs`.**  The handlers that make jobs are `Generate`, `CreateAiEdit`,
`CreateVideoGeneration`, `DuplicateVideoJob`, `CreateVoiceJob` and
`CreateTalkingPortrait`; two of them can leave a job that no task works on
(`stranded`): a duplicated video, and an image or edit whose project is gone when
it is attached.  A job goes through the program of its kind (`Program`, with the
`OnError` branch), a sequence of reads, writes, calls and checks; attaching a
finished image or edit to its project is inside the `try`, so that it can turn
completed into failed (`Attach`); `Discard` deletes an image of the gallery or a
version of the editor. `Ask` and the
steps after it are a user's request on the same document; `Empty` and `Refill`
are `_delete_sync`, which empties the table and puts a snapshot back.

**`DocumentStudio`.**  A handler reads, works, and puts back; `Replace`,
`SaveVersion`, `Adopt`, `Forget` are its separate writes.

**`ImageProviders`** has `ProviderManager`: the order of the candidates (a set
with `Position`) is chosen once per request; then tries, waits, shared cooldowns
and the fallback.  **`DocumentDrafts`** has drafts: which
failures lead to the fallback, the check of claims, packs.

### Instances

`MCPlatform`, `MCCodeBuilder` and `MCRouterAndGenerator` each put several components
that share no state into one run: `Init` chooses the `live` one, the others rest.  No step of one
reads or writes a variable of another and no property speaks of two, so a
behaviour that moves one at a time shows all there is.  The other `MC` modules
have one component each.

## Runs

| Run | Shows | Instance |
|---|---|---|
| `service_serial` | `AckedIsDurable`, `StatusTellsRepository`, `LifecycleKept`, `EveryRequestAnswered`, with one request per task at a time | two tasks on two files that both may write, two threads, one crash, one save or restore that raises |
| `service_concurrent` | `QuiescentDurable`, `CompletedHasReport`, with requests on one task at once | two threads, a pipeline and an autonomous task on one file, one progress save, one crash, one fault |
| `pipeline_sequence` | `AlwaysRecoverable`, `CompletedChangesStay`, `FailureUndone`, `DoneIsComplete`, and the refinement `AllOrNothing` | two runs one after the other, plans of two changes on two paths, contradictory ones too; every failure and crash; commands that write one of the paths, planned or not |
| `pipeline_concurrent` | `WritesArePlannedAndSaved`, `EveryRunEnds` | two runs that interleave at will; commands write a path that no plan has |
| `autonomous_repair` | `WithinBudget`, `PlanRealised`, `SourceIsSafe`, `LoopEnds` | every plan of at most two changes, three attempts, two fingerprints, a path that the copy ignores and commands touch, edits of one path at any time, writes and restores that raise |
| `runtime_jobs` | `SlotsCounted`, `OutcomeIsOwn`, `EveryJobEnds` | two jobs of one type and one slot; one retry, two writes that raise, one restart |
| `router_and_generator` | `OnlyDecisionsApplied`, `AnswersRemembered`, `EveryTaskSettles`; `PlanGenerated`, `ProvidersSpared`, `GenerationEnds` | one task with two runs on two threads, two orders, a key, one restart; three providers, two with rate limits, a plan for the fast path and one in batches, answers of one or two of four paths |
| `platform_components` | `MediaIsTrue`, `StudioIsTrue`, `RepairIsHonest`, `TaskTellsTheTruth`, `ProcessesAccounted`, `EveryWorkEnds` | the seven components of `MCPlatform` |
| `code_builder_parts` | `ContextIsChosen`, `PlansAreSound`, `AnalysisIsTrue`, `ModelCallsAreKept`, `TextsAreExact`, `FilesAreRestored`, `ChecksAreRun`, `GeneratedWithinPlan` | the thirteen components of `MCCodeBuilder` |
| `ollama_loop_reuse`, `repair_not_applied`, `root_import` | a counterexample each, see [findings](#findings) | the smallest instance that has it |

Several properties are conjunctions of named parts, one per thing that could go
wrong, so that a counterexample names what broke:

* `LifecycleKept` = `LegalTransitions` and `OrphanOnlyCancelled`;
  `FailureUndone` = `FailureRestores` and `RollbackRestores`;
  `SourceIsSafe` = `PublishedIsVerified`, `FailureLeavesSource`,
  `PublishesOnlyApproved`; `OutcomeIsOwn` = `AttemptsBounded`, `OwnResult`,
  `OutcomeIsFinal`; `PlanGenerated` and `ProvidersSpared` likewise.
* `OnlyDecisionsApplied`: only approved tasks change files, not more often than
  the user decided, and never after a recorded cancellation.
  `AnswersRemembered`: rows catch up whenever nothing runs, and a key names one
  task.
* `MediaIsTrue`: a completed job has its output, a cancelled portrait stays
  cancelled, a deleted job stays deleted, the mirror agrees; and a provider is
  asked in its rest only for a reason, images and usage are those of the
  provider that made them, a failure has a reason.
* `StudioIsTrue`: every text a document had can be restored, insertions happen
  once, versions go with their document, folders are a forest; and no draft
  claims what is not known, leaves its provider unasked, or loses a type of its
  pack.
* `RepairIsHonest`: no session stays unless its creation or its end raised,
  success without failure, repeats bounded.
  `TaskTellsTheTruth`: after a crash the backup has what it was told of, failed
  patches restore, nothing moved on is written over, statuses tell the files,
  success means all commands passed.  `ProcessesAccounted`: registry, no process
  left, output kept or counted.
* `PlansAreSound`: steps in order, risks covered, accepted plans possible in any
  order when they are accepted (as far as their paths are apart), handed on as they
  were made or, for their title, not at all.  `AnalysisIsTrue`: imports lead
  right (but for hidden and dotted directories), the tree is whole, a text is one version, encodings, and an index is
  reused only while true.  `ModelCallsAreKept`: clients, instructions, answers,
  and that calls end.  `TextsAreExact`: values cut whole, only the place named is
  changed, diffs splice.  `FilesAreRestored`: two transactions in one tree, and
  whole backups.  `ChecksAreRun`: factories' commands start, do what their kind
  says, stay inside.  `GeneratedWithinPlan`: made from current texts, within scope.

Where the code does not keep a promise under some interleaving, the property
says so in its condition: `crossed` (a request that cut into an update of a
media job), `overlap` (two handlers of one owner in Document Studio), `Apart`
(two transactions on paths below each other), `Uncovered` (paths a backup is not
told of), `OneAtATime` (pipeline runs).  The conditions are reached, and so is
their opposite; they are themselves listed as hazards or below.

Each property is guarded by a mutant, an operator beside the one it mutates
(`CancelEnded` beside `Cancel`, and so on) with a mistake a maintainer could
make there; TLC refutes the property under it.

## Bounds

Two of each actor are enough for the races of these models: no guard counts more
than one other thread, run, job or handler.  Numbers are bounded where the code
has a limit, at the smallest value below, at and above which it acts differently
(`MaxRepeated`, `MaxSelected`, `TokenBudget`, `MaxLogBytes`, `SampleSize`,
`MaxLength`, ...); the rest bound what the environment does: `MaxRestarts`,
`MaxDeaths`, `MaxEdits`, `MaxFaults`, `MaxRequests`, `MaxOrders`, `MaxLoops`,
`MaxClock`.  One crash suffices where nothing but stored state survives it.
Texts are sequences of a few marks (an ASCII character, a line end, the two
bytes of a character, a bracket, a quote, a backslash): what the algorithms can
tell apart.  The properties that are also theorems do not depend on bounds.

Some bounds are there for a case that a smaller one would not reach.  Four source
files with `MaxSelected = 3` and `MaxExpanded = 1` let a candidate be crowded out by
an import, and `EntryTokens = {1, 3}` with `TokenBudget = 2` has an entry that fits,
one that does not, and a first one that is shown although it does not.  The
listings are all subsets of seven files, which have a module and a package of one
name, two languages, two levels, and a directory `.d` beside `d`.  The tree of
`PatchDirectories` has six paths, a file that one transaction moves onto a path below
a directory that both make, and one that the other wants as a directory.
`DefaultCooldown = 1` and `MaxClock = 1` let a provider rest, and come back.  Handlers,
texts, folders and requests for images are alike, so `MCPlatform` takes one of the
behaviours that differ by a permutation of them (`StudioMoves`, `ImageMoves` and
`Init` say which).

Deadlock is not checked, because every model may come to rest: clients need not
send requests, and runs, builds, generations and jobs end.

## Fairness

Safety needs none.  Liveness assumes:

* *V2 service*: weak fairness of each thread's handler, because planner,
  generator and commands have timeouts, and strong fairness of taking the lock,
  which goes to every thread that keeps asking.
* *pipeline*, *autonomous loop*, *generator*, *repair loop*, *V1 task pipeline*,
  *patch generation*, *drafts*, *structured calls*: weak fairness of the one
  thread that runs them; every call they make has a time limit.  None of edits,
  crashes, cancellations or timeouts.
* *V1 API*: weak fairness of each execution's thread, of a manual rollback that
  has begun, and of the second transaction of a create.
* *job manager*: weak fairness of the worker's two steps and of each coroutine;
  none of endpoints, reports or restarts.
* *media jobs*: weak fairness of the background task, whose provider calls have
  deadlines.
* *builds*: weak fairness of each execution, not of its process, which may run
  for ever: that is what the time limit and SIGKILL are for.
* *providers*, *Ollama client*: weak fairness of each request, of each thread.

## Findings

With a run:

1. **A client of a closed event loop is used again** (`ollama_service.py:1104`,
   run `ollama_loop_reuse`).  Clients are kept by `id(loop)`, an id that a later
   loop may have once the old one is collected.
2. **A repair is never applied** (`repair.py:487`, run `repair_not_applied`).
   The loop reports a repair and verifies the same files again; its own header
   says "Apply and re-verify".
3. **An import of the root ends the analysis** (`repository_service.py:2071`, run
   `root_import`).  `with_suffix` raises on a path without a name, and `from . import
   name` in a file of the root leads to one; the docstring says "Resolution is
   best-effort" (`:1985`).

Disagreements that the models have as the code does, without a run of their own:

* *Restoring one task takes back another's completed change of the same file*
  (`service.py:137`): backups are those of one execution, and nothing orders them.
* *An accepted plan is lost for its title*: `planning_service.py:658` allows 1000
  characters, `ChangePlan.title` has 200 (`models.py:698`), and the conversion raises.
* *A plan may create a file and one below it* (`planning_service.py:2930`).
* *The files of a native plan are found by its generation only*
  (`task_service.py:758`): the backup takes the targets, and a rollback from it does
  not bring back the rest; the transaction does, until its process dies.
* *Modification times are never compared* when an index is reused
  (`repository_service.py:3213`), although the docstring says so (`:3180-3181`); an
  edit that keeps the size goes unseen where hashes are off.
* *A dotted directory resolves elsewhere* (`repository_service.py:2071`): `docs/v1.2`
  gives `docs/v1.py`.
* *A diff whose last line has no end glues it to the next line of the file*
  (`patch_service.py:1622`).
* *A job may stay queued for ever*: a duplicated video has no task
  (`server.py:2484`), nor has a generation whose project is gone (`server.py:1256`).
* *What a sandbox opened before its creation raised stays open* (`repair.py:374`).
* *A cancel does not stop an execution of V2* (`service.py:128`): the status is
  set, the change set is written all the same and the task completes;
  `docs/production-validation-map.md:170-171` says there is no repository change.
* *An answered state can be lost* (`service.py:89`): `progress_persist` saves
  without the service's lock, so that an older payload may be written last.
  Once the service is quiet the file has caught up (proved).
* *Executions that overlap undo each other* (`applier.py:44`): a failed run
  restores the backup it took before another completed.
* *Approved deletions under ignored names are dropped* (`runtime.py:158`), and
  the build completes.
* *No runtime job survives a restart* (`manager.py:58`): `jobs.json` has no
  payload, so every row is skipped, and the branch that fails interrupted jobs
  ("Retry the job to run it again", `manager.py:55`) never has one.
* *A copy made by `retry` is queued nowhere* (`manager.py:189`).
* *An update of a row may lose a field of another, and a deletion what is written
  meanwhile* (`persistence.py:355`, `:376`): a read and a write with no lock over both.
* *A cancelled AI edit comes back* (`server.py:1507`), a cancelled video ends as
  failed, and after a restart only portraits are recovered (`persistence.py:228`).
* *The manual rollback of V1 never works* (`code_builder/router.py:1740`), and
  one of a task that was interrupted after it applied is refused, because it asks
  for the time that is used up (`task_service.py:1973`).
* *Every Python check of the default validation is refused on the server*:
  `sys.executable` is an absolute path, which needs a policy, and
  `server.py:420` gives none (`build_service.py:1894`).
* *A sequence that is cancelled before its first command has succeeded*
  (`build_service.py:2564`).
* *When schema repairs are used up the generation fails*, although the comment
  says "raise to trigger provider fallback" (`ollama.py:617`, `:763`).
* *The prompt asks for `create|modify|delete`* (`ollama.py:575`), the check
  accepts `create|update|delete` (`:113`).
* `max_attempts=1` is accepted by `TaskRequest` and refused by the loop
  (`autonomous.py:132`).
* *A backup taken during an edit calls itself complete and every rollback of it
  is refused* (`backup_service.py:331`).
* *A pure insertion hunk `@@ -k,0` is applied one line early*
  (`patch_service.py:1748`).
* *A UTF-8 character that the sample cuts* makes the file one in cp1252, or
  unreadable (`repository_service.py:1174`).
* *A relative import in a hidden directory* leads into the directory of the same
  name without the dot, as `lstrip("./")` takes off more than a prefix
  (`repository_service.py:2078`; `Stripped` in `RepositoryMap`).
* *A directory that a file has replaced is not made again* by a rollback: the
  restore takes the file away and leaves it at that (`patch_service.py:3783`).
* *With fallback off the next provider is asked all the same* after an exception
  nobody expected (`providers/manager.py:244`).

## Further hazards

Beside the forty in `PROJECT.json`:

* `code_builder_v2/service.py:35`: After a restart tasks that were queued, planning,
  executing or validating are loaded as they were and nobody resumes or fails them.
* `code_builder_v2/service.py:137`: Rollback after a second execution, a cancel or
  an earlier rollback uses whatever report the task last got.
* `code_builder_v2/backup.py:45`: The manifest is what makes a backup restorable; it
  must be complete before the first write.
* `code_builder_v2/pipeline.py:34`: The file context is read before a generation
  that takes minutes; what changed meanwhile is overwritten by content made from the
  old text.
* `code_builder_v2/autonomous.py:132`: The repeat limit may not exceed the attempt
  budget, whose smallest legal value is below the default limit: a request for one
  attempt is rejected by the loop.
* `code_builder_v2/ollama.py:617`: When the repairs of the schema are used up the
  generation fails, although the comment there says the raise is to trigger the
  fallback to another provider.
* `ai_runtime/manager.py:103`: The worker waits for a free slot, takes it and makes
  a task of the job, and the task gives it back; a slot that is lost stops the queue
  for good.
* `ai_runtime/manager.py:58`: The process restarts with jobs running: they must be
  listed as failed, so that they can be retried.
* `ai_runtime/manager.py:189`: A job made by retry() is listed as queued and put
  into no queue: it never runs.
* `server.py:1507`: An AI edit cancelled while queued is set to processing again;
  job and mirror can disagree at the end.
* `persistence.py:376`: Deleting one row empties the table and writes a snapshot
  back: what another handler wrote in between is lost or comes back.
* `persistence.py:228`: Only two kinds of jobs are recovered at a restart; the
  others keep a status that no task works on.
* `server.py:2200`: A video is polled until its deadline while a user may cancel or
  delete it between two polls.
* `document_studio/router.py:320`: A version is numbered by counting those there are
  and saved after the document; two edits may take the same number, and a version
  may outlive its document.
* `document_studio/service.py:1566`: A track change is accepted or rejected by its
  id after others have rewritten the text it was made for.
* `document_studio/router.py:1101`: move_folder looks for cycles in the folders it
  has read; two moves at the same time may make one.
* `document_studio/router.py:1146`: A folder is deleted in two writes, and the
  documents in it move up in a third: one created in between belongs to no folder.
* `document_studio/service.py:3473`: A pack whose first documents were made and
  whose next one fails must tell how far it came, whatever failed.
* `document_studio/generation_orchestrator.py:287`: A claim is checked against the
  known values without looking at its field: a value known of another field passes.
* `providers/manager.py:99`: Two requests mark the same provider at once: a failure
  seen later may shorten the rest that an earlier one asked for.
* `providers/manager.py:175`: The candidates are computed once; a provider that
  another request finds limited meanwhile is asked all the same.
* `providers/manager.py:218`: A retried provider waits and is then asked again, one
  time less each round, whatever mix of errors it gave.
* `providers/manager.py:244`: After an unexpected exception the next provider is
  asked even if fallback is off.
* `code_builder_v2/repair.py:133`: The application server is waited for by polling
  and its port may still be held by the attempt before.
* `code_builder_v2/repair.py:510`: A failure is recognised by a fingerprint of its
  evidence, and the loop stops when one came too often, in whatever order the others
  came.
* `code_builder_v2/repair.py:487`: The instructions of the diagnosis are not
  applied, although the module says the loop applies them and verifies again.
* `code_builder_v2/providers.py:289`: A provider that raises its own HTTP error ends
  the chain instead of passing on to the next.
* `code_builder/task_service.py:1973`: A task that was cancelled or ran out of time
  after it had applied its patch cannot roll back, because the rollback asks for the
  time that is used up.
* `code_builder/task_service.py:3330`: The changed paths are determined at the end
  of the application: a stage that raises before leaves changes that the task does
  not know of.
* `code_builder/task_service.py:1371`: The backup is made of the paths that are
  found in a plan, or of the targets where none is found; what the patch touches and
  is not in the backup comes back only with the patch itself.
* `code_builder/task_service.py:2826`: cancel_task signals the processes of every
  build of the service, so a task may see its own build killed for another one.
* `code_builder/router.py:1660`: Executions are scheduled on threads while the loop
  serves requests; a task that nothing runs any more must not be told as running.
* `code_builder/router.py:1740`: A manual rollback is asked for while the task still
  runs, or fails half-way; its request and its outcome are stored apart.
* `code_builder/build_service.py:733`: The log limit falls inside a multibyte
  character or between chunks of two streams: kept bytes must not exceed it and the
  rest must be counted.
* `code_builder/build_service.py:2564`: The status of a sequence is made from the
  results that came; one that was cancelled before its first command has none and
  counts as a success.
* `code_builder/patch_service.py:3540`: Directories are made on the way to a file; a
  failed commit must take down those it made, and no others, deepest first.
* `code_builder/patch_service.py:4165`: Files are prepared, snapshotted and written
  in three passes without a lock; what changed in between must stop the patch.
* `code_builder/patch_service.py:3773`: A restore that fails at one path must go on
  with the others and must be told as incomplete.
* `code_builder/backup_service.py:455`: The process dies between two files of a
  rollback, or between the files of a backup and its manifest.
* `code_builder/ollama_service.py:2475`: A bracket inside a string, an escaped quote
  or prose before the JSON decides where a structured answer ends.
* `code_builder/patch_generation_service.py:354`: A refused answer and a failed dry
  run share one repair; a repaired answer may widen the scope.
* `code_builder/patch_generation_service.py:34`: The operations a model may answer
  with hold no delete and no rename, which a plan may ask for.
* `code_builder/repository_service.py:1174`: The encoding is found from a sample; a
  character cut at its end makes the whole file one of another encoding.
* `code_builder/repository_service.py:1275`: Size, sample and text of a file are
  read one after the other, and somebody saves it in between.
* `code_builder/repository_service.py:2205`: Intermediate directories are made on
  the way to a file and counted once, in whatever order the files come.
* `code_builder/planning_service.py:3790`: A refused plan is asked for again, then
  of the fallback; no plan with a blocked path or an unknown operation may come out.
* `code_builder/ollama_service.py:1364`: A call may fail, be cancelled or time out
  at every try; tries are bounded and each call comes to its end.
* `code_builder/ollama_service.py:1104`: Clients are kept by the id of their loop,
  which a later loop may get again.
* `code_builder/ollama_service.py:2836`: The limits on messages hold before and
  after the instruction for the schema joins them, and the answer is held against
  the schema only if it is a model.

## Proofs

All theorems are about the specification without fairness and hold for every
value of the constants that satisfies the named assumptions of the module.

| Module | Theorems | Argument |
|---|---|---|
| `CodeBuilderService_proofs` | `TypeCorrect`, `QuiescentDurability`, `AnswersAreDurable`, `CompletedIsReported`, `StatusIsTrue`, `LifecycleIsKept` | A thread in a handler handles a task that exists (`HandlesExisting`).  Durability rests on a debt: a thread still owes a save, or the file is the memory or is being written from it by the one holder of the lock (`LockHeld`, `Saved`).  `AnswersAreDurable` is that task by task, and needs that no request is autonomous, because of `progress_persist`.  `CompletedIsReported` needs `ThreadInv`: whoever executes a task found its plan, whoever restores found its report.  `StatusIsTrue` (with `SerialClient`: one request per task at a time) needs `RepositoryInv`: one handler per task, every copy of a task (in memory, in the file, in a payload under way) fits the files it was the last to write or restore, up to the step its handler is at (`Fits`, `Stage`), and what is in the repository or in a backup is what its task has written (`Places`), although tasks share the files and restores raise half-way.  `LifecycleIsKept` is an action property: which status each step writes, and that a task whose thread died has no other thread |
| `ChangePipeline_proofs` | `TypeCorrect`, `OnlyPlannedPathsChange`, `FailedRunsRestore`, `RollbacksRestore`, `CrashesAreRecoverable`, `FailuresAreUndone`, `CompletedWorkStays`, `DoneRunsAreComplete`, `PipelineIsAtomic` | `Local` says what holds of a run by itself.  `Intact` relates repository, backup and the repository the run found at each place of a run.  All but the first two assume `OneAtATime`.  `CompletedWorkStays` adds that what an active run found still has the results of those that completed before.  For the refinement, `Refined` adds to `Intact` that outside its plan an active run leaves the repository alone (`Framed`), and that what it is done with has its new content (`Written`), in both cases but for what validation commands wrote: each step is then one of `AtomicTransaction` on the repository shown, or changes nothing of it, and the steps that end a run show all it did at once |
| `AutonomousBuild_proofs` | `TypeCorrect`, `LoopIsBounded`, `CompletedIsVerified`, `FailedIsHarmless`, `OnlyApprovedPathsChange`, `SourceStaysSafe`, `ApprovedPlanIsRealised` | `Limits`: a diagnosis only with an attempt left.  `Isolation`: what is being published is what was verified, and by how far the publication or the restore has come, each path is as others made it, as verified or, where a write raised, a part of a file (`Publishing`, `PartlyWritten`, `PartlyRestored`), with the backup of just what others had left (`Taken`).  `Approved`: the accumulated paths are in the plan.  `Realisation`: paths not accumulated are still the source's, and an accumulated one exists or not as the approved plan wants, whatever repairs rewrote |
| `RuntimeManager_proofs` | `TypeCorrect`, `AttemptsAreBounded`, `SlotsAreCounted`, `ResultsAreOwn`, `OutcomesAreFinal`, `OutcomesAreOwn` | `PlacedInv`: the queue holds every queued job once.  `AttemptsInv` ties calls to retries at each place.  Slots are a cardinality, changed by one job at a time.  A final status means the coroutine has ended |
| `ChangeGenerator_proofs` | `TypeCorrect`, `RequestsAreBounded`, `PlanIsFollowed`, `LimitsAreKept`, `ProvidersAreSpared`, `ReturnsAreWhole`, `PlansAreGenerated` | `CountInv` reads the three counters as digits of a number that bounds the requests.  `FollowInv`: what is produced is a beginning of the plan while answers stay in their batch.  `ReturnsAreWhole` is a pigeonhole (`EnoughIsAll`): as many different planned files as the plan has are all of them |
| `CodeBuilder_proofs` | `RouterTyped`, `OnlyDecisionsAreApplied`, `AnswersAreRemembered` | `RouterInv` is one invariant per task (`TaskInv`) and one of the keys.  `Shape`: row and events are versions of the task.  `Gating`: before its approval a task has one run, which prepares.  `Exclusion`: one run works on a task at a time, and a task whose run began cannot be started again; so the writes are counted by the decisions.  Rows lag behind only while an event is pending |
| | `PlansAreSoundAlways`, `GeneratedWithinPlanAlways`, `ChecksAreRunAlways` | `PlannerInv` holds for drafts of any length (`AllDrafts`): renumbered steps are in order, and the highest risk of a set is one of it; that a plan can be carried out is claimed of changes whose paths are apart, and that it is handed on of titles that fit.  `GenerationInv`: the hashes of a patch are those of the texts that were shown (`PatchMade`, `PatchPassed`).  `CommandInv`: a command that has been resolved is what `ProgramOf` and `Run` make of its order |
| | `AnswersAreAsAsked`, `ClientsAreKeptAlways` | `CallFits`: what is sent is what the request comes to, whatever the reply.  `ClientInv`: an await is on the client of the thread's own loop or on one of no living loop (`CallsFit`), and a service closed at rest has neither calls nor clients (`ClosedFits`) |
| | `BackupsAreWholeAlways`, `TreeIsRestoredAlways`, `FilesAreRestoredAlways` | `BackupInv` has a part for each thing that is under way: a backup made so far (`CreatingFits`), a rollback (`RollbackFits`, `PutBackSoFar`), its safety backup (`SafetyFits`), what the last one came to (`LatestFits`).  `TreeInv`: files and directories are a tree (`IsTree`) at every step; a transaction whose snapshots lie apart from all others' has what it found, but for what it has done (`KeptFits`); one that nothing ran beside knows each directory it made (`AloneFits`), so the rollback takes down those and no others |
| `Platform_proofs` | `ProcessesAreAccounted`, `RepairStaysHonest`, `TasksAreTruthful` | `ProcessesInv`: an id in the registry belongs to the execution under way (`RegistryIsUnderWay`), every byte read is in the log or counted, and by the place of an execution its process is alive, told or killed.  `RepairInv`: the failures counted are those of the sequence seen (`FailuresCounted`, `RepeatsCounted`), and what is left of a session came of a creation or an end that raised.  `TasksAreTruthful` needs the `TaskInv` described below |
| | `ContextIsChosenAlways` | `ContextInv`: a candidate that was passed over is less relevant than those visited (`Selection`), the first one selected is the best (`FirstIsBest`), and the entries are a beginning of the selection within the budget (`BudgetFits`) |
| | `MapIsTrueAlways`, `ReadingIsTrueAlways`, `IndexIsKeptAlways`, `AnalysisIsTrueAlways` | `MapIsTrueAlways` says of imports what the code keeps: those of hidden or dotted directories may lead elsewhere, and those of the root halt (finding 3).  `MapInv`: the nodes are those of the files placed so far and of the directories above them, each once, and as many (`PlacesFit`, `NodesFit`).  `ReadingInv`: what is read or described was, step by step, in a version the file has had since it was asked for.  `IndexInv`: an entry was true of a content the file had, and an index that was scanned while nothing changed is true of all |
| `Studios_proofs` | `StudioKeepsWhatIsWritten`, `DraftsSayWhatIsKnown`, `StudioIsTrueAlways`, `RoutingIsTrueAlways` | `StudioInvariant`: each text is in the document, in a version or with a handler that still has to save it, until two requests sweep the versions at once (`TextsKept`); until one cuts into another there is never more than one under way (`Alone`), and by how far it has come every folder is filed (`Forest`).  `DraftInvariant`: each item of a pack is that of its type.  `RoutingInvariant`: by its place a request's candidates, tries and waits are known (`RoutesWell`), usage is the number of images made (`Counted`), and a provider is asked in its rest for a reason only (`LetOff`) |

An invariant alone is seldom inductive.  `QuiescentDurable` says nothing while a
request is handled, and only the debt carries it from one quiet moment to the
next.  `TaskTellsTheTruth` says what a task has come to, and `TaskInv` what makes
it so at every step: where the transaction may be at each stage
(`StagesFollow`), that the patch keeps to the plan and the backup to what was
found in it (`PlanIsFollowed`), that marks are only on paths with a snapshot, and
snapshots only of paths the patch touches (`MarksAreSaved`), that operations
done are in place and those to come find what was saved, which rests on no path
being claimed twice (`Apart`, `OperationsAreDone`), and that results are skipped
only after a cancellation or a failure (`BuildIsHonest`).  Edits by others are
allowed everywhere; a part that cannot survive them says up to which edit it
holds (`edits = savedAt`, `edits = backupAt`).

Numbers that a model computes by recursion (`TokensOf`, the characters of a
text, `FlattenSeq`) have no induction to be proved by.  Where a proof needs such a
function it takes the least number at which a claim fails (`HasLeast`) and shows
that there is none: `Unfolds` gives a function on numbers that follows its
recursion, `FlattensTo` what flattening a longer sequence gives.

The assumptions are on constants and say what the code gives them: numbers are
natural, limits are at least one where the code refuses less
(`BoundsAssumption`, `BudgetsAssumption`, `PlanContextAssumption`), plans, patches,
requests, orders, commands and files have their types (`PlansAssumption`,
`PatchesAssumption`, `RequestsAssumption`, `OrdersAssumption`,
`CommandsAssumption`, `FileReadingAssumption`), paths are those of a file system,
where a file has nothing below it and `..` names no file (`PatchDirectoriesAssumption`,
`MapAssumption`), and the markers for a missing file, an unsaved path, no
task and no thread are no file, path, task or thread (`ContentsAssumption`,
`PatchAssumption`, `IdsAssumption`, `NobodyAssumption`, `ChangePlannerAssumption`).  TLC evaluates each.
Some theorems have a hypothesis besides: `SerialClient`, no
autonomous request (`AnswersAreDurable`; both for `StatusIsTrue` and
`LifecycleIsKept`) and `OneAtATime` (most
of the pipeline's).  Without it they are false, as the findings say.

Only model-checked:

* all liveness, as fairness and `ENABLED` are beyond the prover:
  `EveryRequestAnswered`, `EveryRunEnds`, `LoopEnds`, `GenerationEnds`,
  `EveryJobEnds`, `EveryTaskSettles`, `EveryWorkEnds`, and that calls end in
  `ModelCallsAreKept`, whose safety is `ClientsAreKeptAlways` and
  `AnswersAreAsAsked`;
* `TextsAreExact`: what the functions of `StructuredAnswer` and `PatchText` make of
  every text is induction over it, in scans that call one another;
* the media jobs of `MediaIsTrue`, whose only constant is the set of kinds: the run
  has all kinds there are, so TLC has seen every state there is.  The providers' part
  is `RoutingIsTrueAlways`.

No module uses a `RECURSIVE` operator.

## What is not modelled

* *V2 planning* (`planner.py`): one `generate_json` call and a parse, whose
  outcome the service takes as any plan or a failure.
* *Document persistence* by itself: its reads, writes, deletion and recovery are
  steps of the modules that use it; queries and indexes are not.
* *Of `server.py`* everything but the media jobs: uploads, galleries, chat and
  settings are one request and one write.
* *Of Document Studio* layout, rendering, export, the texts of templates; *of
  V1* detectors of frameworks and symbols, scores of relevance, wording of
  prompts, reports, event streams, listings, the branches for Windows, streaming
  responses of Ollama, `execute_many`, `cancel_all_tasks`.
* *Adapters of providers*, object storage: I/O, one call at a time.
* *Runtime registries, routing, advisor, capabilities*: lookups, readings of the
  machine, prompt text; no state beyond the manager's.
* *Login*: token checks are library calls, the limiter a dictionary of counts.
* *OpenHands engine*: an external program.  *Frontend, launcher, driving
  assistant, tests, scripts*: not part of the backend's state.

## Plan

The models are complete in the sense above, and every safety property of the runs
but the two just named is a theorem.  What would add most now:

* liveness, as soon as the prover has fairness: the ranks are there in the
  invariants (`CountInv`, `Limits`, `AttemptsInv`);
* the scans of `PatchText`, by a reference definition over the places of a text
  rather than by recursion;
* of Document Studio the track changes and the deletion of folders across
  requests, of `server.py` the galleries, if they come to keep state.
