------------------------------ MODULE TaskRouter ------------------------------
(***************************************************************************)
(* The API of Code Builder V1: code_builder/router.py with its TaskStore,  *)
(* and persistent_task_store.py, which makes the store durable.            *)
(*                                                                         *)
(* The endpoints run on the event loop without an await, so each is one    *)
(* step.  Executions and manual rollbacks run in threads.  They hold the   *)
(* task's execution_lock where they begin and end, but not while they      *)
(* report events: an event sets the phase, and its row is written a step   *)
(* later, whatever happened to the task in between.                        *)
(***************************************************************************)
EXTENDS Naturals, FiniteSets

CONSTANTS
    Tasks,          \* task ids, uuid4 hex strings: never used twice
    Keys,           \* Idempotency-Key headers
    Slots,          \* bound on the runs of one task that are pending at once
    Threads,        \* the size of the pool of threads
    MaxOrders,      \* bound on the times a user has one task executed
    MaxRestarts     \* bound on crashes of the process

NoTask == "no task"

ASSUME IdsAssumption == NoTask \notin Tasks \cup Keys
ASSUME BoundsAssumption ==
    /\ IsFiniteSet(Slots) /\ Slots # {}
    /\ MaxRestarts \in Nat

\* CodeBuilderTaskPhase and the sets the handlers test it against.
Removable == {"completed", "failed", "cancelled", "timed_out",
              "rolled_back", "rollback_failed"}
Phases == Removable \cup {"new", "queued", "analyzing", "awaiting_approval",
                          "approved", "executing", "rolling_back"}
AllowsApproval == {"awaiting_approval", "queued"}
AllowsCancellation == {"queued", "analyzing", "awaiting_approval",
                       "approved", "executing"}
AllowsRollback == Removable \ {"rolled_back"}
Startable == {"queued", "approved", "awaiting_approval"}
Busy == {"analyzing", "executing", "rolling_back"}

\* What a stored task keeps, apart from texts and times: `approval' is
\* require_approval, `prepared' a preparation result with patch operations,
\* `asked' is rollback_requested.
StoredTask == [phase : Phases, approval : BOOLEAN, approved : BOOLEAN,
               prepared : BOOLEAN, asked : BOOLEAN]

\* No row, no event to write, a task that has not been created.
NoRow == [phase |-> "new", approval |-> FALSE, approved |-> FALSE,
          prepared |-> FALSE, asked |-> FALSE]

Runs == Tasks \X Slots

VARIABLES
    task,           \* the StoredTask of each id
    token,          \* ids whose cancellation token is set
    stored,         \* the ids in _tasks
    keys,           \* _idempotency_keys
    row,            \* table code_builder_tasks
    keyRow,         \* table code_builder_idempotency
    opening,        \* the create() between its two transactions
    run,            \* the runs of a task that were scheduled
    active,         \* TaskService._active_tasks
    rolling,        \* manual rollbacks under way
    applied,        \* history: executions of a task that changed files
    ordered,        \* history: decisions of the user to have it executed
    cancelled,      \* history: tasks whose cancellation was answered
    reply,          \* history: the task a client was given for a key
    restarts

storeVars == <<stored, keys, row, keyRow, opening, reply>>
routerVars == <<task, token, storeVars, run, active, rolling, applied, ordered,
                cancelled, restarts>>

Idle == [at |-> "idle", preparing |-> FALSE, status |-> "none", event |-> NoRow]

RouterInit ==
    /\ task = [t \in Tasks |-> NoRow]
    /\ token = {} /\ stored = {} /\ active = {} /\ rolling = {}
    /\ keys = [k \in Keys |-> NoTask] /\ keyRow = keys /\ reply = keys
    /\ row = task
    /\ opening = NoTask
    /\ run = [r \in Runs |-> Idle]
    /\ applied = [t \in Tasks |-> 0]
    /\ ordered = applied
    /\ cancelled = [t \in Tasks |-> "no"]
    /\ restarts = 0

(* ------------------------- the store and its rows ---------------------- *)

\* StoredTask.touch, replaced at import: a registered task is saved.
Touch(t, new) ==
    /\ task' = [task EXCEPT ![t] = new]
    /\ row' = IF t \in stored THEN [row EXCEPT ![t] = new] ELSE row

\* A response goes out before the next request is looked at.
LoopFree == opening = NoTask

\* add_task: a thread of the pool will call _run_stored_task_sync.
Schedule(t) ==
    \E i \in Slots :
        /\ run[<<t, i>>] = Idle
        /\ run' = [run EXCEPT ![<<t, i>>].at = "scheduled"]

\* POST /tasks: in memory and its row.
Create(t, k, approval) ==
    /\ LoopFree /\ task[t].phase = "new"
    /\ k \in Keys => keys[k] \notin stored
    /\ stored' = stored \cup {t}
    /\ task' = [task EXCEPT ![t].phase = "queued", ![t].approval = approval]
    /\ row' = [row EXCEPT ![t] = task'[t]]
    /\ keys' = IF k \in Keys THEN [keys EXCEPT ![k] = t] ELSE keys
    /\ opening' = k
    /\ Schedule(t)
    /\ ordered' = [ordered EXCEPT ![t] = IF approval THEN @ ELSE @ + 1]
    /\ UNCHANGED <<token, keyRow, reply, active, rolling, applied, cancelled,
                   restarts>>

\* ... with a key that is known: the answer is the task it made.
Repeat(k) ==
    /\ LoopFree /\ keys[k] \in stored
    /\ opening' = k
    /\ Touch(keys[k], task[keys[k]])
    /\ UNCHANGED <<token, stored, keys, keyRow, reply, run, active, rolling,
                   applied, ordered, cancelled, restarts>>

\* The second transaction of create(), after which the response is sent.
CommitKey ==
    /\ opening # NoTask
    /\ opening' = NoTask
    /\ keyRow' = [keyRow EXCEPT ![opening] = keys[opening]]
    /\ reply' = [reply EXCEPT ![opening] = keys[opening]]
    /\ UNCHANGED <<task, token, stored, keys, row, run, active, rolling,
                   applied, ordered, cancelled, restarts>>

\* remove(): the record, its keys and both kinds of rows.  With the task
\* ends the client's claim on it.
RemoveTask(t) ==
    LET Without(f) == [k \in Keys |-> IF f[k] = t THEN NoTask ELSE f[k]]
    IN /\ stored' = stored \ {t}
       /\ keys' = Without(keys) /\ keyRow' = Without(keyRow)
       /\ reply' = Without(reply)
       /\ row' = [row EXCEPT ![t] = NoRow]

\* _purge_expired_locked, hours after the last change of a task.
Expire(t) ==
    /\ LoopFree /\ t \in stored \ rolling /\ task[t].phase \in Removable
    /\ \A i \in Slots : run[<<t, i>>] = Idle
    /\ RemoveTask(t)
    /\ UNCHANGED <<task, token, opening, run, active, rolling, applied, ordered,
                   cancelled, restarts>>

(* ------------------------------ endpoints ------------------------------ *)

\* POST .../approve: binds the prepared patch, and starts the task if told to.
Approve(t, start) ==
    /\ LoopFree /\ t \in stored /\ ordered[t] < MaxOrders
    /\ task[t].approval /\ task[t].phase \in AllowsApproval
    /\ task[t].prepared
    /\ Touch(t, [task[t] EXCEPT !.approved = TRUE, !.phase = "approved"])
    /\ cancelled' = [cancelled EXCEPT ![t] = "no"]
    /\ IF start THEN Schedule(t) ELSE UNCHANGED run
    /\ ordered' = [ordered EXCEPT ![t] = @ + 1]
    /\ UNCHANGED <<token, stored, keys, keyRow, opening, reply, active,
                   rolling, applied, restarts>>

\* ... with the decision to reject.
Reject(t) ==
    /\ LoopFree /\ t \in stored
    /\ task[t].approval /\ task[t].phase \in AllowsApproval
    /\ Touch(t, [task[t] EXCEPT !.phase = "cancelled"])
    /\ token' = token \cup {t}
    /\ cancelled' = [cancelled EXCEPT ![t] = "recorded"]
    /\ UNCHANGED <<stored, keys, keyRow, opening, reply, run, active,
                   rolling, applied, ordered, restarts>>

\* POST .../start
Start(t) ==
    /\ LoopFree /\ t \in stored /\ ordered[t] < MaxOrders
    /\ task[t].approval => task[t].approved
    /\ task[t].phase \in Startable
    /\ Touch(t, [task[t] EXCEPT
          !.phase = IF task[t].approval THEN "approved" ELSE "queued"])
    /\ Schedule(t)
    /\ ordered' = [ordered EXCEPT ![t] = @ + 1]
    /\ UNCHANGED <<token, stored, keys, keyRow, opening, reply, active,
                   rolling, applied, cancelled, restarts>>

\* POST .../cancel: a task at work is only told, by its token.
Cancel(t) ==
    /\ LoopFree /\ t \in stored /\ task[t].phase \in AllowsCancellation
    /\ token' = token \cup {t}
    /\ IF task[t].phase \in Busy
       THEN /\ Touch(t, task[t])
            /\ cancelled' = [cancelled EXCEPT ![t] =
                                IF @ = "no" THEN "asked" ELSE @]
       ELSE /\ Touch(t, [task[t] EXCEPT !.phase = "cancelled"])
            /\ cancelled' = [cancelled EXCEPT ![t] = "recorded"]
    /\ UNCHANGED <<stored, keys, keyRow, opening, reply, run, active,
                   rolling, applied, ordered, restarts>>

\* DELETE: only a registered execution gets to know of it.
Delete(t) ==
    /\ LoopFree /\ t \in stored /\ task[t].phase \notin Busy
    /\ token' = IF t \in active THEN token \cup {t} ELSE token
    /\ RemoveTask(t)
    /\ UNCHANGED <<task, opening, run, active, rolling, applied, ordered, cancelled,
                   restarts>>

\* POST .../rollback, first half: once per task, and by force in any phase.
BeginRollback(t, force) ==
    /\ LoopFree /\ t \in stored /\ ~task[t].asked
    /\ force \/ task[t].phase \in AllowsRollback
    /\ rolling' = rolling \cup {t}
    /\ Touch(t, [task[t] EXCEPT !.asked = TRUE, !.phase = "rolling_back"])
    /\ UNCHANGED <<token, stored, keys, keyRow, opening, reply, run,
                   active, applied, ordered, cancelled, restarts>>

\* ... and second half.  Without a backup reference there is nothing to
\* restore; with one, every way in which BackupService.rollback is tried
\* raises, since it takes the id of a backup and gets the whole result.
EndRollback(t) ==
    /\ t \in rolling
    /\ rolling' = rolling \ {t}
    /\ Touch(t, [task[t] EXCEPT !.phase = "rollback_failed"])
    /\ UNCHANGED <<token, stored, keys, keyRow, opening, reply, run,
                   active, applied, ordered, cancelled, restarts>>

(* ------------------- a thread that executes a task --------------------- *)

Gated(t) == task[t].approval /\ ~task[t].approved

\* _run_stored_task_sync up to the call of the task service.
Begin(r) ==
    LET t == r[1]
    IN /\ run[r].at = "scheduled"
       /\ Cardinality({q \in Runs : run[q].at \notin {"idle", "scheduled"}})
             < Threads
       /\ IF task[t].phase \in {"executing", "completed", "rolled_back"}
          THEN run' = [run EXCEPT ![r] = Idle] /\ UNCHANGED <<task, row>>
          ELSE /\ run' = [run EXCEPT ![r].at = "begun",
                                           ![r].preparing = Gated(t)]
               /\ Touch(t, [task[t] EXCEPT
                     !.phase = IF Gated(t) THEN "analyzing" ELSE "executing"])
       /\ UNCHANGED <<token, stored, keys, keyRow, opening, reply, active,
                      rolling, applied, ordered, cancelled, restarts>>

\* TaskService._register_task: a task runs once at a time.
Register(r) ==
    LET t == r[1]
    IN /\ run[r].at = "begun"
       /\ run' = [run EXCEPT ![r].at =
                        IF t \in active THEN "refused" ELSE "registered"]
       /\ active' = active \cup {t}
       /\ UNCHANGED <<task, token, storeVars, rolling, applied, ordered, cancelled, restarts>>

\* _update_phase_from_event: before approval nothing looks like execution.
PhaseOfEvent(t, status) ==
    LET phase == CASE status \in {"analyzing", "planning"} -> "analyzing"
                   [] status \in {"backing_up", "applying_patch", "building"}
                        -> "executing"
                   [] status \in {"succeeded", "dry_run"} -> "completed"
                   [] OTHER -> status
    IN IF Gated(t) /\ phase \in {"executing", "completed"}
       THEN "analyzing" ELSE phase

\* The callback of one event: the row it will write is made here.
Report(r, at, status) ==
    LET t == r[1]
        new == [task[t] EXCEPT !.phase = PhaseOfEvent(t, status)]
    IN /\ run[r].event = NoRow
       /\ task' = [task EXCEPT ![t] = new]
       /\ run' = [run EXCEPT ![r].at = at, ![r].status = status,
                        ![r].event = IF t \in stored THEN new ELSE NoRow]
       /\ UNCHANGED <<token, storeVars, rolling, ordered, cancelled, restarts>>

\* persist(), outside every lock but that of the database.
Persist(r) ==
    /\ run[r].event # NoRow
    /\ row' = [row EXCEPT ![r[1]] = run[r].event]
    /\ run' = [run EXCEPT ![r].event = NoRow]
    /\ UNCHANGED <<task, token, stored, keys, keyRow, opening, reply, active,
                   rolling, applied, ordered, cancelled, restarts>>

\* Every stage of the pipeline first asks the token.
Analyse(r) ==
    /\ run[r].at = "registered" /\ r[1] \notin token
    /\ Report(r, "analysing", "analyzing")
    /\ UNCHANGED <<active, applied>>

BackUp(r) ==
    /\ run[r].at = "analysing" /\ r[1] \notin token
    /\ Report(r, "saving", "backing_up")
    /\ UNCHANGED <<active, applied>>

\* The patch is applied, unless this is the dry run before the approval.
Apply(r) ==
    /\ run[r].at = "saving" /\ r[1] \notin token
    /\ Report(r, "changing", "applying_patch")
    /\ applied' = IF run[r].preparing THEN applied
                  ELSE [applied EXCEPT ![r[1]] = @ + 1]
    /\ UNCHANGED active

\* How TaskService.execute may end from where it is.  A task interrupted when
\* it has a backup fails, since the rollback is interrupted too.
Outcomes(r) ==
    LET changing == run[r].at = "changing"
        told == r[1] \in token
    IN {"failed", "timed_out"}
       \cup (IF told THEN {"cancelled"} ELSE {})
       \cup (IF changing /\ ~told
             THEN IF run[r].preparing THEN {"dry_run"}
                  ELSE {"succeeded", "rolled_back", "rollback_failed"}
             ELSE {})

Finish(r, status) ==
    /\ run[r].at \in {"registered", "analysing", "saving", "changing"}
    /\ status \in Outcomes(r)
    /\ Report(r, "ended", status)
    /\ active' = active \ {r[1]}
    /\ UNCHANGED applied

\* The result, under the lock; `patch' says whether a dry run made operations.
PhaseOfResult(status) ==
    CASE status = "succeeded" -> "completed"
      [] status = "dry_run" -> "awaiting_approval"
      [] OTHER -> status

\* Mutant: the result is not saved.
StoreResultUnsaved(r, patch) ==
    /\ run[r].at = "ended" /\ run[r].event = NoRow
    /\ task' = [task EXCEPT ![r[1]].phase = PhaseOfResult(run[r].status)]
    /\ run' = [run EXCEPT ![r] = Idle]
    /\ UNCHANGED <<token, storeVars, active, rolling, applied, ordered, cancelled,
                   restarts>>

StoreResult(r, patch) ==
    LET t == r[1]
        status == run[r].status
    IN /\ run[r].at = "ended" /\ run[r].event = NoRow
       /\ Touch(t, [task[t] EXCEPT !.phase = PhaseOfResult(status),
                       !.prepared = IF status = "dry_run" THEN patch ELSE @])
       /\ run' = [run EXCEPT ![r] = Idle]
       /\ UNCHANGED <<token, stored, keys, keyRow, opening, reply, active,
                      rolling, applied, ordered, cancelled, restarts>>

\* _store_execution_failure, for a second run of a task that is running.
StoreFailure(r) ==
    /\ run[r].at = "refused"
    /\ Touch(r[1], [task[r[1]] EXCEPT !.phase = "failed"])
    /\ run' = [run EXCEPT ![r] = Idle]
    /\ UNCHANGED <<token, stored, keys, keyRow, opening, reply, active,
                   rolling, applied, ordered, cancelled, restarts>>

(* ------------------------------- restart ------------------------------- *)

\* _apply_restart_policy
Recovered(r) ==
    [r EXCEPT !.phase =
        CASE r.phase \in {"queued", "analyzing"} -> "queued"
          [] r.phase \in {"executing", "rolling_back"} -> "failed"
          [] OTHER -> r.phase]
\* Mutant: what had come to the change is resumed as well.
ResumedReplays(r) == r.phase \in {"queued", "analyzing", "approved", "executing"}

\* Mutant: an analysis that was cut off is not resumed.
ResumedQueued(r) == r.phase \in {"queued", "approved"}

Resumed(r) == r.phase \in {"queued", "analyzing", "approved"}

\* The process dies; a new one loads the rows, applies the policy and starts
\* a thread for each task that it resumes.
Restart ==
    LET found == {t \in Tasks : row[t] # NoRow}
        resumed == {t \in found : Resumed(row[t])}
    IN /\ restarts < MaxRestarts
       /\ restarts' = restarts + 1
       /\ stored' = found
       /\ task' = [t \in Tasks |-> IF t \in found THEN Recovered(row[t])
                                   ELSE task[t]]
       /\ row' = [t \in Tasks |-> IF t \in found THEN Recovered(row[t])
                                  ELSE NoRow]
       /\ keys' = [k \in Keys |-> IF keyRow[k] \in found THEN keyRow[k]
                                  ELSE NoTask]
       /\ run' = [r \in Runs |->
                    IF r[1] \in resumed /\ r[2] = CHOOSE i \in Slots : TRUE
                    THEN [Idle EXCEPT !.at = "scheduled"] ELSE Idle]
       /\ token' = {} /\ active' = {} /\ rolling' = {} /\ opening' = NoTask
       /\ UNCHANGED <<keyRow, reply, applied, ordered, cancelled>>

Endpoint(t) ==
    \/ \E k \in Keys \cup {NoTask}, approval \in BOOLEAN : Create(t, k, approval)
    \/ \E start \in BOOLEAN : Approve(t, start)
    \/ Reject(t)
    \/ Start(t)
    \/ Cancel(t)
    \/ Delete(t)
    \/ Expire(t)
    \/ \E force \in BOOLEAN : BeginRollback(t, force)

Thread(r) ==
    \/ Begin(r)
    \/ Register(r)
    \/ Analyse(r)
    \/ BackUp(r)
    \/ Apply(r)
    \/ Persist(r)
    \/ \E status \in Removable \cup {"dry_run", "succeeded"} : Finish(r, status)
    \/ \E patch \in BOOLEAN : StoreResult(r, patch)
    \/ StoreFailure(r)

RouterNext ==
    \/ \E t \in Tasks : Endpoint(t) \/ EndRollback(t)
    \/ \E k \in Keys : Repeat(k)
    \/ CommitKey
    \/ \E r \in Runs : Thread(r)
    \/ Restart

RouterSpec == RouterInit /\ [][RouterNext]_routerVars

(* ------------------------------ properties ----------------------------- *)

\* Types.
RouterTypeOK ==
    /\ task \in [Tasks -> StoredTask]
    /\ token \subseteq Tasks /\ stored \subseteq Tasks
    /\ active \subseteq Tasks /\ rolling \subseteq Tasks
    /\ keys \in [Keys -> Tasks \cup {NoTask}]
    /\ keyRow \in [Keys -> Tasks \cup {NoTask}]
    /\ reply \in [Keys -> Tasks \cup {NoTask}]
    /\ row \in [Tasks -> StoredTask]
    /\ opening \in Keys \cup {NoTask}
    /\ run \in [Runs ->
          [preparing : BOOLEAN,
           at : {"idle", "scheduled", "begun", "registered", "refused",
                 "analysing", "saving", "changing", "ended"},
           status : {"none", "analyzing", "backing_up", "applying_patch",
                     "succeeded", "dry_run"} \cup Removable,
           event : StoredTask]]
    /\ applied \in [Tasks -> Nat] /\ ordered \in [Tasks -> Nat]
    /\ cancelled \in [Tasks -> {"no", "asked", "recorded"}]
    /\ restarts \in 0 .. MaxRestarts

\* Only an approved task changes files, if it needs approval: however often
\* it is started, cancelled, resumed after a restart or rolled back by force.
OnlyApprovedApplied ==
    \A t \in Tasks : applied[t] > 0 /\ task[t].approval => task[t].approved

\* Every application goes back to a decision of the user: a restart resumes
\* what had not come to the change and fails what had (the rows say which), so
\* it replays nothing.
AppliedAsAsked == \A t \in Tasks : applied[t] <= ordered[t]

\* Whenever no thread works on a task and no create is open, the rows are what
\* the memory holds, although events are written outside the locks.
Quiet ==
    /\ opening = NoTask /\ rolling = {}
    /\ \A r \in Runs : run[r].at \in {"idle", "scheduled"}
QuietIsDurable ==
    Quiet => /\ \A t \in stored : row[t] = task[t]
             /\ \A k \in Keys : keyRow[k] = keys[k]

\* While the task a client was given for a key exists, the key stands for it,
\* so that a repeated request starts no second task, restarts included.
KeyNamesOneTask ==
    \A k \in Keys : reply[k] \in stored => keys[k] = reply[k]

\* A task that is recorded as cancelled changes no file any more (unless it is
\* approved again, which takes a new decision).
CancelledAppliesNothing ==
    [][\A t \in Tasks : applied'[t] # applied[t]
          => cancelled[t] # "recorded"]_routerVars

\* Files change only by a decision of the user that still stands.
OnlyDecisionsApplied ==
    []RouterTypeOK /\ []OnlyApprovedApplied /\ []AppliedAsAsked /\ CancelledAppliesNothing

\* What was answered is remembered, in the rows and in the keys.
AnswersRemembered == QuietIsDurable /\ KeyNamesOneTask

\* No task stays in a phase that promises more to come: executions end, those
\* that a crash cut off are resumed or failed.
EveryTaskSettles ==
    \A t \in Tasks : (t \in stored /\ task[t].phase \in Busy \cup {"queued"})
        ~> (t \notin stored \/ task[t].phase \notin Busy \cup {"queued"})

=============================================================================
