--------------------------- MODULE RuntimeManager ---------------------------
(***************************************************************************)
(* RuntimeManager (ai_runtime/manager.py), through which the studios run   *)
(* their image, video, voice and document jobs.                            *)
(*                                                                         *)
(* Everything runs on one event loop: a step of this module is what happens *)
(* between two awaits that really suspend, which are the executor, the     *)
(* sleep before a retry and the worker's waiting.  Every change of a job   *)
(* is followed by _persist_jobs(), which writes all of jobs.json to a      *)
(* temporary file and renames it, or raises and leaves the old one.        *)
(***************************************************************************)
EXTENDS Naturals, Sequences, FiniteSets

CONSTANTS
    Jobs,           \* job ids
    Types,          \* task types, the keys of self.executors
    MaxConcurrent,  \* self.max_concurrent
    MaxLimit,       \* bound on job.max_retries
    MaxFaults,      \* bound on writes of jobs.json that raise
    MaxRestarts     \* bound on restarts of the process

ASSUME BoundsAssumption ==
    /\ MaxConcurrent \in Nat \ {0}
    /\ MaxLimit \in Nat /\ MaxFaults \in Nat /\ MaxRestarts \in Nat

Nobody == "nobody"      \* no executor, no result
ASSUME JobsAssumption == Nobody \notin Jobs /\ IsFiniteSet(Jobs)

\* "running" stands for running and waiting, which an executor may report and
\* every guard treats alike, and on disk for preparing and loading_model too,
\* which are set and replaced within one step.
Status == {"none", "queued", "running", "retrying", "paused",
           "completed", "cancelled", "failed"}
Terminal == {"completed", "failed", "cancelled"}
Interrupted == {"running", "retrying"}

\* What submit is called with: `awaited' is run_background=False.
RuntimeJob == [type : Types, limit : 0 .. MaxLimit, awaited : BOOLEAN]

\* Where the coroutine of a job is: parked jobs are listed but have none, a
\* held one waits with the worker for a free slot, lost ones were in a
\* process that has ended.
Alive == {"queued", "held", "dispatched", "executing", "backoff"}
Place == {"new", "parked", "ended", "lost"} \cup Alive

VARIABLES
    job,        \* what each job was submitted with
    status,     \* job.status
    disk,       \* the statuses in jobs.json
    at,         \* where its coroutine is
    retries,    \* job.retry_count
    calls,      \* history: how often an executor was called for it
    using,      \* whose executor run_job looked up
    result,     \* whose executor made job.result
    executors,  \* self.executors: whose closure a task type has
    queue,      \* self.queue
    running,    \* self._running
    faults,     \* writes that raised so far
    restarts

vars == <<job, status, disk, at, retries, calls, using, result, executors,
          queue, running, faults, restarts>>

Init ==
    /\ job \in {[j \in Jobs |-> [type |-> t, limit |-> 0, awaited |-> TRUE]] :
                   t \in Types}
    /\ status = [j \in Jobs |-> "none"]
    /\ disk = [j \in Jobs |-> "none"]
    /\ at = [j \in Jobs |-> "new"]
    /\ retries = [j \in Jobs |-> 0]
    /\ calls = [j \in Jobs |-> 0]
    /\ using = [j \in Jobs |-> Nobody]
    /\ result = [j \in Jobs |-> Nobody]
    /\ executors = [t \in Types |-> Nobody]
    /\ queue = <<>>
    /\ running = 0
    /\ faults = 0
    /\ restarts = 0

----------------------------------------------------------------------------

\* _persist_jobs(), after `lost' earlier writes of the same step raised and
\* others left the file as it is in `left'.
Write(statuses, left, lost, ok) ==
    /\ status' = statuses
    /\ disk' = IF ok THEN statuses ELSE left
    /\ faults' = faults + lost + (IF ok THEN 0 ELSE 1)
    /\ faults' <= MaxFaults

Goto(j, place) == at' = [at EXCEPT ![j] = place]

\* The finally of _run_and_release; an awaited job has no slot to give back.
Released(s) ==
    IF s.awaited THEN running ELSE IF running = 0 THEN 0 ELSE running - 1

\* Mutant: an exception keeps the slot.
FailKeepsSlot(j, s, statuses, left, lost) ==
    \E ok \in BOOLEAN :
        /\ Write([statuses EXCEPT ![j] = "failed"], left, lost, ok)
        /\ Goto(j, "ended")
        /\ UNCHANGED <<running, retries>>

\* The except branch of run_job: another attempt after a pause, or failed.
\* When the write of that raises too, the exception leaves the coroutine.
Fail(j, s, statuses, left, lost) ==
    \E ok \in BOOLEAN :
        \/ /\ retries[j] < s.limit
           /\ retries' = [retries EXCEPT ![j] = @ + 1]
           /\ Write([statuses EXCEPT ![j] = "retrying"], left, lost, ok)
           /\ Goto(j, IF ok THEN "backoff" ELSE "ended")
           /\ running' = IF ok THEN running ELSE Released(s)
        \/ /\ retries[j] >= s.limit
           /\ Write([statuses EXCEPT ![j] = "failed"], left, lost, ok)
           /\ Goto(j, "ended")
           /\ running' = Released(s)
           /\ UNCHANGED retries

\* run_job from the top of its loop to the first await of the executor: the
\* job is reported as preparing, loading and running, each with a write, so
\* that the file may be left with it preparing.
Launch(j, s, statuses, left) ==
    \/ /\ Write([statuses EXCEPT ![j] = "running"], left, 0, TRUE)
       /\ calls' = [calls EXCEPT ![j] = @ + 1]
       /\ Goto(j, "executing")
       /\ UNCHANGED <<retries, running>>
    \/ /\ \E before \in {left, [statuses EXCEPT ![j] = "running"]} :
              Fail(j, s, statuses, before, 1)
       /\ UNCHANGED calls

\* submit lists the job; when its first write raises it goes no further.
SubmitFails(j, s) ==
    /\ at[j] = "new"
    /\ job' = [job EXCEPT ![j] = s]
    /\ Write([status EXCEPT ![j] = "queued"], disk, 0, FALSE)
    /\ Goto(j, "parked")
    /\ UNCHANGED <<retries, calls, using, result, executors, queue, running,
                   restarts>>

\* submit with run_background=False registers the executor and goes straight
\* on to run_job, which looks it up: nothing can come between.
Submit(j, s) ==
    /\ at[j] = "new" /\ s.awaited
    /\ job' = [job EXCEPT ![j] = s]
    /\ executors' = [executors EXCEPT ![s.type] = j]
    /\ using' = [using EXCEPT ![j] = j]
    /\ LET listed == [status EXCEPT ![j] = "queued"]
       IN  Launch(j, s, listed, listed)
    /\ UNCHANGED <<result, queue, restarts>>

\* submit's default: the job is left to the worker.
Enqueue(j, s) ==
    /\ at[j] = "new" /\ ~s.awaited
    /\ job' = [job EXCEPT ![j] = s]
    /\ executors' = [executors EXCEPT ![s.type] = j]
    /\ Write([status EXCEPT ![j] = "queued"], disk, 0, TRUE)
    /\ queue' = Append(queue, j)
    /\ Goto(j, "queued")
    /\ UNCHANGED <<retries, calls, using, result, running, restarts>>

\* _worker gets the next job when it is done with the last one ...
Take ==
    /\ queue # <<>>
    /\ \A j \in Jobs : at[j] # "held"
    /\ Goto(Head(queue), "held")
    /\ queue' = Tail(queue)
    /\ UNCHANGED <<job, status, disk, retries, calls, using, result,
                   executors, running, faults, restarts>>

\* Mutant: the limit is off by one.
DispatchOneTooMany(j) ==
    /\ at[j] = "held"
    /\ running <= MaxConcurrent
    /\ running' = running + 1
    /\ Goto(j, "dispatched")
    /\ UNCHANGED <<job, status, disk, retries, calls, using, result,
                   executors, queue, faults, restarts>>

\* ... sleeps until a slot is free and makes a task of it.
Dispatch(j) ==
    /\ at[j] = "held"
    /\ running < MaxConcurrent
    /\ running' = running + 1
    /\ Goto(j, "dispatched")
    /\ UNCHANGED <<job, status, disk, retries, calls, using, result,
                   executors, queue, faults, restarts>>

\* The task starts run_job, which takes the executor the type has by now.
\* There is one: every caller of submit brings an executor and none is ever
\* taken out, so that run_job's branch for a type without one is not reached.
Start(j) ==
    /\ at[j] = "dispatched"
    /\ using' = [using EXCEPT ![j] = executors[job[j].type]]
    /\ Launch(j, job[j], status, disk)
    /\ UNCHANGED <<job, result, executors, queue, restarts>>

\* The executor calls progress(job, RUNNING or WAITING, ...).
Report(j) ==
    /\ at[j] = "executing"
    /\ Write([status EXCEPT ![j] = "running"], disk, 0, TRUE)
    /\ UNCHANGED <<job, at, retries, calls, using, result, executors, queue,
                   running, restarts>>

\* It raises, of itself or because the write of a report does.
Raise(j) ==
    /\ at[j] = "executing"
    /\ \E lost \in 0 .. 1 : Fail(j, job[j], status, disk, lost)
    /\ UNCHANGED <<job, calls, using, result, executors, queue, restarts>>

\* It returns, and the job is completed unless one of the two writes of that
\* raises.
Return(j) ==
    /\ at[j] = "executing"
    /\ result' = [result EXCEPT ![j] = using[j]]
    /\ \/ /\ Write([status EXCEPT ![j] = "completed"], disk, 0, TRUE)
          /\ Goto(j, "ended")
          /\ running' = Released(job[j])
          /\ UNCHANGED retries
       \/ \E left \in {disk, [status EXCEPT ![j] = "completed"]} :
              Fail(j, job[j], status, left, 1)
    /\ UNCHANGED <<job, calls, using, executors, queue, restarts>>

\* The pause before a retry is over.
Resume(j) ==
    /\ at[j] = "backoff"
    /\ Launch(j, job[j], status, disk)
    /\ UNCHANGED <<job, using, result, executors, queue, restarts>>

----------------------------------------------------------------------------
(* The endpoints under /api/runtime/jobs.                                  *)

Listed(j) == at[j] \notin {"new", "lost"}

\* Mutant: a job that has ended can be cancelled.
CancelEnded(j) ==
    /\ Listed(j)
    /\ \E ok \in BOOLEAN : Write([status EXCEPT ![j] = "cancelled"], disk, 0, ok)
    /\ UNCHANGED <<job, at, retries, calls, using, result, executors, queue,
                   running, restarts>>

Cancel(j) ==
    /\ Listed(j) /\ status[j] \notin Terminal
    /\ \E ok \in BOOLEAN : Write([status EXCEPT ![j] = "cancelled"], disk, 0, ok)
    /\ UNCHANGED <<job, at, retries, calls, using, result, executors, queue,
                   running, restarts>>

Pause(j) ==
    /\ Listed(j) /\ status[j] \in {"queued", "running"}
    /\ \E ok \in BOOLEAN : Write([status EXCEPT ![j] = "paused"], disk, 0, ok)
    /\ UNCHANGED <<job, at, retries, calls, using, result, executors, queue,
                   running, restarts>>

\* A copy of the job is listed; nobody queues it.
Retry(j, copy) ==
    /\ Listed(j) /\ status[j] \in {"failed", "cancelled"}
    /\ at[copy] = "new"
    /\ job' = [job EXCEPT ![copy] = job[j]]
    /\ Goto(copy, "parked")
    /\ \E ok \in BOOLEAN : Write([status EXCEPT ![copy] = "queued"], disk, 0, ok)
    /\ UNCHANGED <<retries, calls, using, result, executors, queue, running,
                   restarts>>

\* The process ends, and a new one loads jobs.json.  A row is what as_dict()
\* wrote, which has no payload, so that RuntimeJob(**row) raises TypeError
\* and _load_jobs goes on to the next row: no job is loaded.
Restart ==
    /\ restarts < MaxRestarts
    /\ restarts' = restarts + 1
    /\ status' = [j \in Jobs |-> "none"]
    /\ at' = [j \in Jobs |-> IF at[j] = "new" THEN "new" ELSE "lost"]
    /\ executors' = [t \in Types |-> Nobody]
    /\ queue' = <<>>
    /\ running' = 0
    /\ UNCHANGED <<job, disk, retries, calls, using, result, faults>>

----------------------------------------------------------------------------

Run(j) == Start(j) \/ Raise(j) \/ Return(j) \/ Resume(j)

Next ==
    \/ Take \/ Restart
    \/ \E j \in Jobs :
           \/ \E s \in RuntimeJob : SubmitFails(j, s) \/ Submit(j, s) \/ Enqueue(j, s)
           \/ Dispatch(j) \/ Run(j) \/ Report(j)
           \/ Cancel(j) \/ Pause(j)
           \/ \E copy \in Jobs : Retry(j, copy)

Spec == Init /\ [][Next]_vars

\* The event loop runs whatever is ready, and executors end: what they call
\* has a timeout.
FairSpec ==
    /\ Spec
    /\ WF_vars(Take)
    /\ \A j \in Jobs : WF_vars(Dispatch(j)) /\ WF_vars(Run(j))

----------------------------------------------------------------------------
(* Properties.                                                             *)

\* Type invariant.
TypeOK ==
    /\ job \in [Jobs -> RuntimeJob]
    /\ status \in [Jobs -> Status]
    /\ disk \in [Jobs -> Status]
    /\ at \in [Jobs -> Place]
    /\ retries \in [Jobs -> 0 .. MaxLimit]
    /\ calls \in [Jobs -> Nat]
    /\ using \in [Jobs -> Jobs \cup {Nobody}]
    /\ result \in [Jobs -> Jobs \cup {Nobody}]
    /\ executors \in [Types -> Jobs \cup {Nobody}]
    /\ queue \in Seq(Jobs)
    /\ running \in Nat
    /\ faults \in 0 .. MaxFaults
    /\ restarts \in 0 .. MaxRestarts

\* The queued jobs that have been given a slot and have not ended.
InFlight == {j \in Jobs : /\ ~job[j].awaited
                          /\ at[j] \in {"dispatched", "executing", "backoff"}}

\* _running is exactly the number of slots in use, so that none is lost when
\* a coroutine ends by an exception and max(0, ...) never hides a mistake;
\* and at most MaxConcurrent queued jobs run at a time.
SlotsCounted == /\ running = Cardinality(InFlight)
                /\ running <= MaxConcurrent

\* An executor is called at most once more than the job may be retried, also
\* when writes of jobs.json raise in between; no attempt goes uncounted.
AttemptsBounded ==
    \A j \in Jobs :
        /\ retries[j] <= job[j].limit
        /\ calls[j] <= retries[j] + 1
        /\ at[j] = "backoff" => calls[j] <= retries[j]

\* An awaited job is answered with what its own executor returned, however
\* many jobs of its type were submitted while it ran or waited for a retry.
OwnResult ==
    \A j \in Jobs : job[j].awaited => result[j] \in {j, Nobody}

\* A job that is completed has the result of an executor, and what has been
\* reported as completed or failed is not changed by any later request,
\* report or attempt; only a restart forgets it.
OutcomeIsFinal ==
    [][\A j \in Jobs :
          status[j] \in {"completed", "failed"} =>
              \/ status'[j] = status[j] /\ result'[j] = result[j]
              \/ restarts' # restarts]_vars

\* What a job reports is its own, was tried as often as its limit allows, and
\* stays.
OutcomeIsOwn == []AttemptsBounded /\ []OwnResult /\ OutcomeIsFinal

\* Every job with a coroutine comes to its end, queued ones included, unless
\* the process restarts: no slot is leaked and no job starves.
EveryJobEnds == \A j \in Jobs : at[j] \in Alive ~> at[j] \in {"ended", "lost"}

=============================================================================
