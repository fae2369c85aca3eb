------------------------ MODULE CodeBuilderService ------------------------
(***************************************************************************)
(* The task service of Code Builder V2 (backend/code_builder_v2/           *)
(* service.py, store.py, models.py).                                       *)
(*                                                                         *)
(* Every endpoint of router.py is a synchronous function, so FastAPI runs  *)
(* each request in a thread of its pool: the handlers of CodeBuilderService *)
(* interleave on shared BuildTask objects.  `_lock' is held only around    *)
(* the dictionary lookups and `_persist()'; no handler holds it across the *)
(* check of a task's status and the transition that follows it.  A handler *)
(* is cut here at each point where another thread can be seen to run.      *)
(*                                                                         *)
(* The tasks share the files of one repository.  What an execution writes  *)
(* is one step `Apply' and then the verdict, and a restore is one step     *)
(* that may raise half-way; the file by file story is in ChangePipeline,   *)
(* the autonomous loop in AutonomousBuild.                                 *)
(***************************************************************************)
EXTENDS Naturals, FiniteSets

CONSTANTS
    Tasks,          \* the task ids create_task can draw
    Workers,        \* the threads of the pool
    Files,          \* the files of the repository
    ChangeSets,     \* the sets of files that an execution may write
    Requests,       \* the TaskRequests a client may post
    MaxProgress,    \* bound: progress_persist calls of one autonomous run
    MaxRestarts,    \* bound: crashes of the process
    MaxFaults,      \* bound: saves and restores that raise
    SerialClient    \* TRUE: no request on a task while another is handled

ASSUME RequestsAssumption ==
    Requests \subseteq [auto_apply : BOOLEAN, autonomous : BOOLEAN]

ASSUME BoundsAssumption ==
    /\ MaxProgress \in Nat /\ MaxRestarts \in Nat /\ MaxFaults \in Nat
    /\ SerialClient \in BOOLEAN

Status == {"queued", "planning", "awaiting_approval", "executing",
           "validating", "completed", "failed", "cancelled", "rolled_back"}

(***************************************************************************)
(* A file is as it was before every task, or as a task has made it.  What  *)
(* matters of task.execution is its backup: what each file was that the    *)
(* execution wrote, and none at all where an autonomous run published      *)
(* nothing (backup_id is "").                                              *)
(***************************************************************************)
Content == Tasks \cup {"original"}
Backup == [Files -> Content \cup {"untouched"}]
NoBackup == [f \in Files |-> "untouched"]
None == [f \in Files |-> "none"]
Execution == Backup \cup {None}

ASSUME FilesAssumption ==
    /\ Files # {} /\ ChangeSets \subseteq (SUBSET Files) \ {{}}
    /\ Tasks \cap {"original", "untouched", "none"} = {}

Backed(backup) == {f \in Files : backup[f] # "untouched"}

BuildTask == [status    : Status,
              request   : Requests,
              plan      : BOOLEAN,
              execution : Execution]

NoTask == [status |-> "absent"]
Nobody == "nobody"

ASSUME NobodyAssumption == Nobody \notin Workers \cup Tasks

VARIABLES
    task,       \* service._tasks: id -> BuildTask or NoTask
    disk,       \* tasks.json
    lock,       \* the holder of service._lock
    pc,         \* where each thread is in its handler
    cur,        \* the task the thread handles
    then,       \* where the thread goes on once its _persist() returned
    snap,       \* the payload the thread's save_all has built
    report,     \* the backup of the thread's execution
    rounds,     \* progress_persist calls of the thread's execution
    unsaved,    \* tasks of requests whose save raised, until one succeeds
    repo,       \* the repository: what each of its files is
    wrote,      \* (history) the files each task has written
    last,       \* (history) the task that wrote or restored each file last
    torn,       \* (history) tasks whose last restore raised
    faults,     \* how many saves and restores have raised
    known,      \* ids that a response has returned to the client
    restarts

repoVars == <<repo, wrote, last, torn, faults>>

vars == <<task, disk, lock, pc, cur, then, snap, report, rounds, unsaved,
          repoVars, known, restarts>>

PC == {"idle", "save", "store", "plan", "planning", "auto", "approved",
       "run", "dumping", "progress", "applied", "validated", "cancel",
       "restore", "restored", "reply"}

Then == {"plan", "auto", "run", "reply"}

\* No payload built: what a thread's `snap' is outside save_all.
NoPayload == [t \in Tasks |-> NoTask]

Existing(tasks) == {t \in Tasks : tasks[t] # NoTask}

\* Thread w is in the middle of a request about task t.
Handles(w, t) == pc[w] # "idle" /\ cur[w] = t
Unhandled(t) == \A w \in Workers : ~Handles(w, t)

Init ==
    /\ task = [t \in Tasks |-> NoTask]
    /\ disk = [t \in Tasks |-> NoTask]
    /\ lock = Nobody
    /\ pc = [w \in Workers |-> "idle"]
    /\ cur = [w \in Workers |-> Nobody]
    /\ then = [w \in Workers |-> "reply"]
    /\ snap = [w \in Workers |-> NoPayload]
    /\ report = [w \in Workers |-> NoBackup]
    /\ rounds = [w \in Workers |-> 0]
    /\ unsaved = {}
    /\ repo = [f \in Files |-> "original"]
    /\ wrote = [t \in Tasks |-> {}]
    /\ last = [f \in Files |-> Nobody]
    /\ torn = {} /\ faults = 0
    /\ known = {}
    /\ restarts = 0

----------------------------------------------------------------------------
(* BuildTask.transition has no guard: it sets the status and appends an    *)
(* event, whatever the status was.                                         *)

Transition(t, status) == task' = [task EXCEPT ![t].status = status]

Fault == faults < MaxFaults /\ faults' = faults + 1

Goto(w, label) == pc' = [pc EXCEPT ![w] = label]

\* with self._lock: self._persist()   -- then go on at `next'.
PersistThen(w, next) ==
    /\ Goto(w, "save")
    /\ then' = [then EXCEPT ![w] = next]

\* A request reaches a free thread.
Serve(w, t) ==
    /\ pc[w] = "idle"
    /\ SerialClient => Unhandled(t)
    /\ cur' = [cur EXCEPT ![w] = t]

\* The request is over.
Leave(w) ==
    /\ Goto(w, "idle")
    /\ cur' = [cur EXCEPT ![w] = Nobody]
    /\ then' = [then EXCEPT ![w] = "reply"]
    /\ report' = [report EXCEPT ![w] = NoBackup]
    /\ rounds' = [rounds EXCEPT ![w] = 0]

----------------------------------------------------------------------------
(* _persist().  save_all builds the payload before it takes the store's    *)
(* lock; under the service's lock nobody else builds one meanwhile.        *)

\* Mutant: _persist() without the service's lock.
SnapshotUnlocked(w) ==
    /\ pc[w] = "save"
    /\ lock' = w
    /\ snap' = [snap EXCEPT ![w] = task]
    /\ Goto(w, "store")
    /\ UNCHANGED <<task, disk, cur, then, report, rounds, unsaved, repoVars,
                   known, restarts>>

Snapshot(w) ==
    /\ pc[w] = "save"
    /\ lock = Nobody
    /\ lock' = w
    /\ snap' = [snap EXCEPT ![w] = task]
    /\ Goto(w, "store")
    /\ UNCHANGED <<task, disk, cur, then, report, rounds, unsaved, repoVars,
                   known, restarts>>

\* Mutant: the lock is not released after the write.
StoreKeepsLock(w) ==
    /\ pc[w] = "store"
    /\ disk' = snap[w]
    /\ snap' = [snap EXCEPT ![w] = NoPayload]
    /\ unsaved' = {}
    /\ Goto(w, then[w])
    /\ UNCHANGED <<task, lock, cur, then, report, rounds, repoVars,
                   known, restarts>>

Store(w) ==
    /\ pc[w] = "store"
    /\ disk' = snap[w]
    /\ snap' = [snap EXCEPT ![w] = NoPayload]
    /\ unsaved' = {} /\ lock' = Nobody
    /\ Goto(w, then[w])
    /\ UNCHANGED <<task, cur, then, report, rounds, repoVars, known,
                   restarts>>

\* The file cannot be written: _persist() leaves the lock and raises out of the
\* handler, whose task keeps its status in memory only.
SaveFails(w) ==
    /\ pc[w] = "store" /\ Fault
    /\ unsaved' = unsaved \cup {cur[w]} /\ lock' = Nobody
    /\ snap' = [snap EXCEPT ![w] = NoPayload]
    /\ Leave(w)
    /\ UNCHANGED <<task, disk, repo, wrote, last, torn, known, restarts>>

----------------------------------------------------------------------------
(* POST /tasks: create_task, which plans the task and, with auto_apply,    *)
(* executes it.  The client learns the id from the response only.          *)

CreateTask(w, t, request) ==
    /\ Serve(w, t)
    /\ lock = Nobody
    /\ task[t] = NoTask /\ t \notin known /\ wrote[t] = {}   \* a new id
    /\ task' = [task EXCEPT ![t] = [status    |-> "queued",
                                    request   |-> request,
                                    plan      |-> FALSE,
                                    execution |-> None]]
    /\ lock' = w
    /\ snap' = [snap EXCEPT ![w] = task']
    /\ Goto(w, "store")
    /\ then' = [then EXCEPT ![w] = "plan"]
    /\ UNCHANGED <<disk, report, rounds, unsaved, repoVars, known, restarts>>

BeginPlan(w) ==
    /\ pc[w] = "plan"
    /\ Transition(cur[w], "planning")
    /\ Goto(w, "planning")
    /\ UNCHANGED <<disk, lock, cur, then, snap, report, rounds, unsaved,
                   repoVars, known, restarts>>

\* planner.create_plan returned a plan, or raised.
EndPlan(w, planned) ==
    /\ pc[w] = "planning"
    /\ task' = [task EXCEPT
                  ![cur[w]].plan = planned,
                  ![cur[w]].status = IF planned THEN "awaiting_approval"
                                                ELSE "failed"]
    /\ PersistThen(w, "auto")
    /\ UNCHANGED <<disk, lock, cur, snap, report, rounds, unsaved, repoVars,
                   known, restarts>>

\* The check of execute_task: an approved plan that waits for execution.
Executable(t) == task[t].status = "awaiting_approval" /\ task[t].plan

AutoExecute(w) ==
    /\ pc[w] = "auto"
    /\ Goto(w, IF task[cur[w]].request.auto_apply /\ Executable(cur[w])
                 THEN "approved" ELSE "reply")
    /\ UNCHANGED <<task, disk, lock, cur, then, snap, report, rounds, unsaved,
                   repoVars, known, restarts>>

----------------------------------------------------------------------------
(* POST /tasks/{id}/execute.  A request that fails the check is answered   *)
(* with 409 and changes nothing.                                           *)

RequestExecute(w, t) ==
    /\ Serve(w, t)
    /\ t \in known /\ task[t] # NoTask
    /\ Executable(t)
    /\ Goto(w, "approved")
    /\ UNCHANGED <<task, disk, lock, then, snap, report, rounds, unsaved,
                   repoVars, known, restarts>>

BeginExecute(w) ==
    /\ pc[w] = "approved"
    /\ Transition(cur[w], "executing")
    /\ rounds' = [rounds EXCEPT ![w] = 0]
    /\ PersistThen(w, "run")
    /\ UNCHANGED <<disk, lock, cur, snap, report, unsaved, repoVars, known,
                   restarts>>

Autonomous(w) == task[cur[w]].request.autonomous

\* progress_persist: save_all called without the service's lock, so its
\* payload can be old when it is written.
BeginProgress(w) ==
    /\ pc[w] = "run" /\ Autonomous(w)
    /\ rounds[w] < MaxProgress
    /\ rounds' = [rounds EXCEPT ![w] = @ + 1]
    /\ snap' = [snap EXCEPT ![w] = task]
    /\ Goto(w, "dumping")
    /\ UNCHANGED <<task, disk, lock, cur, then, report, unsaved, repoVars,
                   known, restarts>>

DumpProgress(w) ==
    /\ pc[w] = "dumping"
    /\ Existing(task) = Existing(snap[w])
    /\ Goto(w, "progress")
    /\ UNCHANGED <<task, disk, lock, cur, then, snap, report, rounds, unsaved,
                   repoVars, known, restarts>>

StoreProgress(w) ==
    /\ pc[w] = "progress"
    /\ disk' = snap[w]
    /\ snap' = [snap EXCEPT ![w] = NoPayload]
    /\ Goto(w, "run")
    /\ UNCHANGED <<task, lock, cur, then, report, rounds, unsaved, repoVars,
                   known, restarts>>

\* Task t makes the files `written' what `content' has for them.
Write(t, written, content) ==
    /\ repo' = [f \in Files |-> IF f \in written THEN content[f] ELSE repo[f]]
    /\ last' = [f \in Files |-> IF f \in written THEN t ELSE last[f]]
ChangesOf(t) == [f \in Files |-> t]

\* The change set is written to the repository, after a backup of what it
\* replaces.  An autonomous run publishes after a verified attempt.
Apply(w) ==
    /\ pc[w] = "run"
    /\ Autonomous(w) => rounds[w] > 0
    /\ \E paths \in ChangeSets :
          /\ report' = [report EXCEPT ![w] =
                          [f \in Files |-> IF f \in paths THEN repo[f]
                                                          ELSE "untouched"]]
          /\ Write(cur[w], paths, ChangesOf(cur[w]))
          /\ wrote' = [wrote EXCEPT ![cur[w]] = @ \cup paths]
    /\ Goto(w, "applied")
    /\ UNCHANGED <<task, disk, lock, cur, then, snap, rounds, unsaved, torn,
                   faults, known, restarts>>

\* A file cannot be written and the restore of the others raises as well:
\* some keep the changes of an execution that has failed.
ApplyTorn(w) ==
    /\ pc[w] = "run"
    /\ Autonomous(w) => rounds[w] > 0
    /\ \E paths \in ChangeSets : \E kept \in (SUBSET paths) \ {{}} :
          /\ Write(cur[w], kept, ChangesOf(cur[w]))
          /\ wrote' = [wrote EXCEPT ![cur[w]] = @ \cup kept]
    /\ torn' = torn \cup {cur[w]} /\ Fault
    /\ Transition(cur[w], "failed")
    /\ PersistThen(w, "reply")
    /\ UNCHANGED <<disk, lock, cur, snap, report, rounds, unsaved, known,
                   restarts>>

\* A verified run that left the workspace as it was publishes nothing.
PublishNothing(w) ==
    /\ pc[w] = "run" /\ Autonomous(w) /\ rounds[w] > 0
    /\ report' = [report EXCEPT ![w] = NoBackup]
    /\ Goto(w, "applied")
    /\ UNCHANGED <<task, disk, lock, cur, then, snap, rounds, unsaved,
                   repoVars, known, restarts>>

\* Validation passed (the publisher of an autonomous run returned).
BeginComplete(w) ==
    /\ pc[w] = "applied"
    /\ Transition(cur[w], "validating")
    /\ Goto(w, "validated")
    /\ UNCHANGED <<disk, lock, cur, then, snap, report, rounds, unsaved,
                   repoVars, known, restarts>>

\* Mutant: the task completes without its execution report.
CompleteUnreported(w) ==
    /\ pc[w] = "validated"
    /\ Transition(cur[w], "completed")
    /\ PersistThen(w, "reply")
    /\ UNCHANGED <<disk, lock, cur, snap, report, rounds, unsaved, repoVars,
                   known, restarts>>

Complete(w) ==
    /\ pc[w] = "validated"
    /\ task' = [task EXCEPT ![cur[w]].execution = report[w],
                            ![cur[w]].status = "completed"]
    /\ PersistThen(w, "reply")
    /\ UNCHANGED <<disk, lock, cur, snap, report, rounds, unsaved, repoVars,
                   known, restarts>>

\* BackupService.restore: it takes the files one by one and may raise at any;
\* what it has restored till then is `restored'.
RestoreWhole(t, backup) ==
    /\ Write(t, Backed(backup), backup)
    /\ torn' = torn \ {t} /\ UNCHANGED <<wrote, faults>>
RestoreTorn(t, backup) ==
    /\ \E restored \in SUBSET Backed(backup) :
          restored # Backed(backup) /\ Write(t, restored, backup)
    /\ torn' = torn \cup {t} /\ Fault /\ UNCHANGED wrote

\* Mutant: a failed validation is reported but not rolled back.
ValidationFailsKeepsChanges(w) ==
    /\ pc[w] = "applied" /\ ~Autonomous(w)
    /\ Transition(cur[w], "failed")
    /\ PersistThen(w, "reply")
    /\ UNCHANGED <<disk, lock, cur, snap, report, rounds, unsaved, repoVars,
                   known, restarts>>

\* Validation failed: pipeline.execute restores its own backup and raises, or
\* the restore raises; either way the execution failed.
ValidationFails(w) ==
    /\ pc[w] = "applied" /\ ~Autonomous(w)
    /\ RestoreWhole(cur[w], report[w]) \/ RestoreTorn(cur[w], report[w])
    /\ Transition(cur[w], "failed")
    /\ PersistThen(w, "reply")
    /\ UNCHANGED <<disk, lock, cur, snap, report, rounds, unsaved, known,
                   restarts>>

\* Anything raised before the change set is in the repository or after a whole
\* restore; progress_persist when the dictionary grew while it was being read
\* or the file cannot be written.
ExecutionFails(w) ==
    /\ \/ pc[w] \in {"run", "progress"}
       \/ pc[w] = "dumping" /\ Existing(task) # Existing(snap[w])
    /\ snap' = [snap EXCEPT ![w] = NoPayload]
    /\ Transition(cur[w], "failed")
    /\ PersistThen(w, "reply")
    /\ UNCHANGED <<disk, lock, cur, report, rounds, unsaved, repoVars, known,
                   restarts>>

----------------------------------------------------------------------------
(* POST /tasks/{id}/cancel and /rollback.                                  *)

\* Mutant: a task that is over can still be cancelled.
RequestCancelAlways(w, t) ==
    /\ Serve(w, t)
    /\ t \in known /\ task[t] # NoTask
    /\ Goto(w, "cancel")
    /\ UNCHANGED <<task, disk, lock, then, snap, report, rounds, unsaved,
                   repoVars, known, restarts>>

RequestCancel(w, t) ==
    /\ Serve(w, t)
    /\ t \in known /\ task[t] # NoTask
    /\ task[t].status \notin {"completed", "failed", "rolled_back"}
    /\ Goto(w, "cancel")
    /\ UNCHANGED <<task, disk, lock, then, snap, report, rounds, unsaved,
                   repoVars, known, restarts>>

\* Mutant: a cancelled task is not saved.
CancelUnsaved(w) ==
    /\ pc[w] = "cancel"
    /\ Transition(cur[w], "cancelled")
    /\ Goto(w, "reply")
    /\ UNCHANGED <<disk, lock, cur, then, snap, report, rounds, unsaved,
                   repoVars, known, restarts>>

Cancel(w) ==
    /\ pc[w] = "cancel"
    /\ Transition(cur[w], "cancelled")
    /\ PersistThen(w, "reply")
    /\ UNCHANGED <<disk, lock, cur, snap, report, rounds, unsaved, repoVars,
                   known, restarts>>

RequestRollback(w, t) ==
    /\ Serve(w, t)
    /\ t \in known /\ task[t] # NoTask
    /\ task[t].execution # None
    /\ Goto(w, "restore")
    /\ UNCHANGED <<task, disk, lock, then, snap, report, rounds, unsaved,
                   repoVars, known, restarts>>

Restore(w) ==
    /\ pc[w] = "restore"
    /\ task[cur[w]].execution \notin {NoBackup, None}
    /\ RestoreWhole(cur[w], task[cur[w]].execution)
    /\ Goto(w, "restored")
    /\ UNCHANGED <<task, disk, lock, cur, then, snap, report, rounds, unsaved,
                   known, restarts>>

\* BackupService.restore("") raises "Invalid backup id" and changes nothing;
\* any other may raise between two files.
RestoreFails(w) ==
    /\ pc[w] = "restore"
    /\ IF task[cur[w]].execution \in {NoBackup, None} THEN UNCHANGED repoVars
       ELSE RestoreTorn(cur[w], task[cur[w]].execution)
    /\ Goto(w, "reply")
    /\ UNCHANGED <<task, disk, lock, cur, then, snap, report, rounds, unsaved,
                   known, restarts>>

RollBack(w) ==
    /\ pc[w] = "restored"
    /\ Transition(cur[w], "rolled_back")
    /\ PersistThen(w, "reply")
    /\ UNCHANGED <<disk, lock, cur, snap, report, rounds, unsaved, repoVars,
                   known, restarts>>

Reply(w) ==
    /\ pc[w] = "reply"
    /\ known' = known \cup {cur[w]}
    /\ Leave(w)
    /\ UNCHANGED <<task, disk, lock, snap, unsaved, repoVars, restarts>>

----------------------------------------------------------------------------
(* The process dies and __post_init__ of the next one loads tasks.json.    *)

Restart ==
    /\ restarts < MaxRestarts
    /\ restarts' = restarts + 1
    /\ task' = disk
    /\ lock' = Nobody
    /\ pc' = [w \in Workers |-> "idle"]
    /\ cur' = [w \in Workers |-> Nobody]
    /\ then' = [w \in Workers |-> "reply"]
    /\ snap' = [w \in Workers |-> NoPayload]
    /\ report' = [w \in Workers |-> NoBackup]
    /\ rounds' = [w \in Workers |-> 0]
    /\ unsaved' = {}
    /\ UNCHANGED <<disk, repoVars, known>>

----------------------------------------------------------------------------

Arrival(w) ==
    \E t \in Tasks :
        \/ \E request \in Requests : CreateTask(w, t, request)
        \/ RequestExecute(w, t)
        \/ RequestCancel(w, t)
        \/ RequestRollback(w, t)

\* What a thread does on its own once it has a request.
Handler(w) ==
    \/ Snapshot(w) \/ Store(w) \/ SaveFails(w)
    \/ BeginPlan(w) \/ (\E planned \in BOOLEAN : EndPlan(w, planned))
    \/ AutoExecute(w) \/ BeginExecute(w)
    \/ BeginProgress(w) \/ DumpProgress(w) \/ StoreProgress(w)
    \/ Apply(w) \/ ApplyTorn(w) \/ PublishNothing(w)
    \/ BeginComplete(w) \/ Complete(w)
    \/ ValidationFails(w) \/ ExecutionFails(w)
    \/ Cancel(w)
    \/ Restore(w) \/ RestoreFails(w) \/ RollBack(w)
    \/ Reply(w)

Next == Restart \/ \E w \in Workers : Arrival(w) \/ Handler(w)

Spec == Init /\ [][Next]_vars

(***************************************************************************)
(* A thread that has a request runs on: the planner, the generator and the *)
(* validation commands have timeouts.  The lock goes to every thread that  *)
(* keeps asking for it.  Nothing makes clients send requests.              *)
(***************************************************************************)
FairSpec ==
    /\ Spec
    /\ \A w \in Workers : WF_vars(Handler(w)) /\ SF_vars(Snapshot(w))

----------------------------------------------------------------------------
(* Properties.                                                             *)

\* Type invariant: the shape of the tasks, in memory, in the file and in
\* the payloads being written, and of the threads of the pool.
TypeOK ==
    /\ task \in [Tasks -> BuildTask \cup {NoTask}]
    /\ disk \in [Tasks -> BuildTask \cup {NoTask}]
    /\ lock \in Workers \cup {Nobody}
    /\ pc \in [Workers -> PC]
    /\ cur \in [Workers -> Tasks \cup {Nobody}]
    /\ then \in [Workers -> Then]
    /\ snap \in [Workers -> [Tasks -> BuildTask \cup {NoTask}]]
    /\ report \in [Workers -> Backup]
    /\ rounds \in [Workers -> 0 .. MaxProgress]
    /\ unsaved \subseteq Tasks /\ torn \subseteq Tasks /\ faults \in 0 .. MaxFaults
    /\ repo \in [Files -> Content]
    /\ wrote \in [Tasks -> SUBSET Files]
    /\ last \in [Files -> Tasks \cup {Nobody}]
    /\ known \subseteq Tasks
    /\ restarts \in 0 .. MaxRestarts

\* Whenever no request is being handled and the last save did not raise,
\* tasks.json holds exactly what the service has in memory, whatever requests
\* overlapped before and although progress_persist may have put an older
\* payload in place in between.
QuiescentDurable ==
    (\A w \in Workers : pc[w] = "idle") /\ unsaved = {} => disk = task

\* A task whose last request was answered, and not with the error of a save,
\* is in tasks.json as the answer showed it: a restart now would bring back
\* that very state.
AckedIsDurable ==
    \A t \in known \ unsaved : Unhandled(t) => disk[t] = task[t]

\* The status of a task nobody is working on tells what became of the files,
\* although the tasks share them, restores take back what others have made
\* since, and a restore may raise half-way.  Nothing of a task that waits for
\* its execution is anywhere.  Where the task was the last to write or restore
\* a file, the file is as the task made it if it completed, as its backup has
\* it if it was rolled back, and not as it made it if it failed; only where a
\* restore raised, or where a crash struck between a rollback's restore and its
\* transition, this may be otherwise, and then the file is as in the backup or
\* as the task left it.  What a completed task has in the repository, whoever
\* put it there, its rollback can take back.  (Executing and cancelled are left
\* out: a crash can strike between the write and the verdict.)
StatusTellsRepository ==
    \A t \in Tasks : Unhandled(t) /\ task[t] # NoTask =>
        /\ task[t].status \in {"queued", "planning", "awaiting_approval"} =>
               \A f \in Files : repo[f] # t
        /\ task[t].status = "completed" => \A f \in Files :
               /\ repo[f] = t => f \in Backed(task[t].execution)
               /\ last[f] = t =>
                      \/ repo[f] = t
                      \/ /\ repo[f] = task[t].execution[f]
                         /\ restarts > 0 \/ t \in torn
        /\ task[t].status \in {"failed", "rolled_back"} /\ t \notin torn =>
               \A f \in Files : last[f] = t =>
                   /\ repo[f] # t
                   /\ task[t].status = "rolled_back" =>
                          repo[f] = task[t].execution[f]

\* A task shown as completed or rolled back has the plan it was approved
\* with and the report of an execution, so that rollback finds its backup,
\* whatever cancels, executes and rollbacks raced on the way.
CompletedHasReport ==
    \A t \in Tasks : task[t].status \in {"completed", "rolled_back"} =>
        task[t].plan /\ task[t].execution # None

\* The documented life of a task (models.py TaskStatus): where a status may
\* go next.  Staying is always allowed.
Lifecycle ==
    {<<"absent", "queued">>, <<"queued", "planning">>,
     <<"planning", "awaiting_approval">>, <<"planning", "failed">>,
     <<"awaiting_approval", "executing">>, <<"executing", "validating">>,
     <<"executing", "failed">>, <<"validating", "completed">>,
     <<"completed", "rolled_back">>}
    \cup {<<s, "cancelled">> : s \in {"queued", "planning", "executing",
                                     "awaiting_approval", "validating"}}

\* No hidden phase changes: while the process lives, every task moves along
\* the documented life cycle; in particular a cancelled, failed or rolled
\* back task stays what it is.
LegalTransitions ==
    [][restarts' = restarts =>
         \A t \in Tasks : task'[t].status # task[t].status =>
            <<task[t].status, task'[t].status>> \in Lifecycle]_vars

\* A thread that runs the execution of t, up to its last transition.
Runs(w, t) ==
    /\ Handles(w, t)
    /\ \/ pc[w] \in {"run", "dumping", "progress", "applied", "validated"}
       \/ pc[w] \in {"save", "store"} /\ then[w] = "run"

\* A task left in `executing' or `validating' by a crash is never resumed,
\* failed or offered for approval again: only a cancel moves it.  (One that
\* stays there because its save raised is offered again after a restart.)
OrphanOnlyCancelled ==
    [][\A t \in Tasks :
         /\ task[t].status \in {"executing", "validating"}
         /\ t \notin unsaved /\ \A w \in Workers : ~Runs(w, t)
         => task'[t].status \in {task[t].status, "cancelled"}]_vars

\* Both: what becomes of a task is what its life cycle allows, a restart included.
LifecycleKept == LegalTransitions /\ OrphanOnlyCancelled

\* Every request is answered: no handler hangs, in particular not on the
\* lock its own or another thread's _persist() holds.
EveryRequestAnswered ==
    \A w \in Workers : pc[w] # "idle" ~> pc[w] = "idle"

============================================================================
