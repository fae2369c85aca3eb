-------------------------- MODULE CodeBuilder_proofs ---------------------------
(***************************************************************************)
(* Proofs about version 1 of the Code Builder: the task rows of its router *)
(* and the parts that work for a task.  Each part is proved by itself: the *)
(* plan, the patch of a plan, the checks, one structured call of a model,  *)
(* the client of the Ollama service, the backups and the directories of a  *)
(* patch.  The analysis of a repository is in Platform_proofs.             *)
(***************************************************************************)
EXTENDS TaskRouter, ChangePlanner, PatchGeneration, BuildCommands, StructuredCall,
        OllamaClient, BackupStore, SequenceTheorems, FiniteSetTheorems, TLAPS

\* A run no thread has taken yet; a run that the task service has registered.
Waiting == {"idle", "scheduled"}
Working == {"registered", "analysing", "saving", "changing"}

\* The phases from which a restart has a task executed.
Resumable == {"queued", "analyzing", "approved"}

SameFlags(x, y) == x.approval = y.approval /\ x.approved = y.approved

\* What a task that was never created looks like, and how its row and the
\* events of its runs follow it.
Shape(t) ==
    /\ task[t].phase = "new" =>
           /\ task[t] = NoRow /\ row[t] = NoRow
           /\ t \notin stored \cup active \cup rolling
           /\ \A i \in Slots : run[<<t, i>>].at = "idle"
           /\ applied[t] = 0 /\ ordered[t] = 0 /\ cancelled[t] = "no"
    /\ t \in stored => row[t].phase # "new"
    /\ row[t].phase = "new" => row[t] = NoRow
    /\ row[t].phase # "new" => SameFlags(row[t], task[t])

RunShape(t) ==
    \A i \in Slots :
        LET r == run[<<t, i>>]
        IN  /\ r.at \in Waiting \cup {"begun", "registered", "refused"}
                   => r.event = NoRow
            /\ r.event.phase = "new" => r.event = NoRow
            /\ r.event.phase # "new" => SameFlags(r.event, task[t])
            /\ r.at = "ended" =>
                   /\ r.status \in Removable \cup {"succeeded", "dry_run"}
                   /\ r.status = "dry_run" => r.preparing

\* Before its approval a task has one run at most, which prepares the patch;
\* with the patch there is none.  So nothing written before an approval can
\* come after it.
Gating(t) ==
    /\ Gated(t) => \A i, j \in Slots :
           run[<<t, i>>].at # "idle" /\ run[<<t, j>>].at # "idle" => i = j
    /\ Gated(t) /\ task[t].prepared => \A i \in Slots : run[<<t, i>>].at = "idle"
    /\ \A i \in Slots :
           /\ run[<<t, i>>].at \notin Waiting => (run[<<t, i>>].preparing <=> Gated(t))
           /\ run[<<t, i>>].event.prepared => ~Gated(t)
    /\ Gated(t) /\ row[t].prepared => row[t].phase \notin Resumable

\* One run at a time works on a task, and the task cannot be started or
\* approved again once one of its runs has begun.
Exclusion(t) ==
    /\ \A i \in Slots : run[<<t, i>>].at \in Working => t \in active
    /\ \A i, j \in Slots :
           run[<<t, i>>].at \in Working /\ run[<<t, j>>].at \in Working => i = j
    /\ \A i \in Slots :
           run[<<t, i>>].at \notin Waiting => task[t].phase \notin Startable

\* When a run is about to change files, nothing says that the task may be
\* resumed: not the task, not its row, not an event still to be written.  A
\* task that is gone can only be told so.
Marked(t) ==
    /\ \A i \in Slots : LET r == run[<<t, i>>] IN
           /\ r.event.phase \in Resumable /\ ~Gated(t) => r.at = "analysing"
           /\ r.at \in {"saving", "changing"} /\ ~Gated(t)
                  => task[t].phase \notin Resumable
           /\ r.at = "saving" /\ r.event = NoRow /\ ~Gated(t)
                  => row[t].phase \notin Resumable
    /\ t \notin stored /\ ~Gated(t) =>
           /\ row[t].phase \in Resumable => t \in token
           /\ \A i \in Slots :
                  run[<<t, i>>].event.phase \in Resumable => t \in token

\* The runs of an approved task that may still change files.
Pending(t) == {i \in Slots : run[<<t, i>>].at \in
                  {"scheduled", "begun", "registered", "analysing", "saving"}}

\* Each of them has a decision of its own, and so has what a restart resumes.
Counted(t) ==
    /\ Gated(t) => applied[t] = 0
    /\ ~Gated(t) =>
           /\ applied[t] + Cardinality(Pending(t)) <= ordered[t]
           /\ row[t].phase \in Resumable \/ task[t].phase \in Resumable
                  => applied[t] < ordered[t]

\* A task that is recorded as cancelled is told so, or has no run and gets none.
Called(t) ==
    cancelled[t] = "recorded" /\ ~Gated(t) =>
        /\ t \in token \/ \A i \in Slots : run[<<t, i>>].at = "idle"
        /\ task[t].phase \notin Startable \cup Resumable
        /\ row[t].phase \notin Startable \cup Resumable
        /\ \A i \in Slots : run[<<t, i>>].event.phase \notin Startable \cup Resumable

\* A task that no thread works on is what its row says.
Written(t) ==
    t \in stored /\ (\A i \in Slots : run[<<t, i>>].at \in Waiting) => row[t] = task[t]

\* The keys in memory are those of the rows, but for the one a create or a
\* repeat has in hand; clients know those of the rows.
KeysKept ==
    /\ reply = keyRow
    /\ \A k \in Keys :
           /\ keys[k] \in stored \cup {NoTask}
           /\ keyRow[k] \in stored \cup {NoTask}
           /\ k = opening => keys[k] \in stored /\ keyRow[k] \in {NoTask, keys[k]}
           /\ k # opening => keys[k] = keyRow[k]

TaskInv(t) ==
    /\ Shape(t) /\ RunShape(t) /\ Gating(t) /\ Exclusion(t) /\ Marked(t)
    /\ Counted(t) /\ Called(t) /\ Written(t)

RouterInv == RouterTypeOK /\ KeysKept /\ \A t \in Tasks : TaskInv(t)

----------------------------------------------------------------------------
(* Types.                                                                  *)

RunState ==
    [preparing : BOOLEAN,
     at : {"idle", "scheduled", "begun", "registered", "refused",
           "analysing", "saving", "changing", "ended"},
     status : {"none", "analyzing", "backing_up", "applying_patch",
               "succeeded", "dry_run"} \cup Removable,
     event : StoredTask]

LEMMA NoRowTyped == NoRow \in StoredTask
BY DEF NoRow, StoredTask, Phases

LEMMA IdleTyped ==
    ASSUME RouterTypeOK, NEW r \in Runs, run' = [run EXCEPT ![r] = Idle]
    PROVE  /\ run'[r] = Idle
           /\ run' \in [Runs -> RunState]
BY NoRowTyped DEF RouterTypeOK, RunState, Idle

LEMMA ScheduleTyped ==
    ASSUME RouterTypeOK, NEW t \in Tasks, Schedule(t)
    PROVE  /\ run' \in [Runs -> RunState]
           /\ \E i \in Slots :
                  /\ run[<<t, i>>].at = "idle" /\ run'[<<t, i>>].at = "scheduled"
                  /\ run'[<<t, i>>].event = NoRow
                  /\ \A r \in Runs \ {<<t, i>>} : run'[r] = run[r]
<1>1. PICK i \in Slots : /\ run[<<t, i>>] = Idle
                         /\ run' = [run EXCEPT ![<<t, i>>].at = "scheduled"]
    BY DEF Schedule
<1>2. <<t, i>> \in Runs
    BY DEF Runs
<1>3. run[<<t, i>>].at = "idle" /\ run[<<t, i>>].event = NoRow
    BY <1>1 DEF Idle
<1>4. run \in [Runs -> RunState]
    BY DEF RouterTypeOK, RunState
<1>5. run' \in [Runs -> RunState]
    BY <1>1, <1>2, <1>4 DEF RunState
<1>6. /\ run'[<<t, i>>].at = "scheduled"
      /\ run'[<<t, i>>].event = run[<<t, i>>].event
      /\ \A r \in Runs \ {<<t, i>>} : run'[r] = run[r]
    BY <1>1, <1>2, <1>4 DEF RunState
<1> QED
    BY <1>3, <1>5, <1>6

LEMMA TouchTyped ==
    ASSUME RouterTypeOK, NEW t \in Tasks, NEW new \in StoredTask, Touch(t, new)
    PROVE  /\ task' \in [Tasks -> StoredTask] /\ row' \in [Tasks -> StoredTask]
           /\ task'[t] = new /\ row'[t] = IF t \in stored THEN new ELSE row[t]
           /\ \A s \in Tasks \ {t} : task'[s] = task[s] /\ row'[s] = row[s]
BY DEF RouterTypeOK, Touch

LEMMA RemoveTyped ==
    ASSUME RouterTypeOK, NEW t \in Tasks, RemoveTask(t)
    PROVE  /\ row' \in [Tasks -> StoredTask] /\ stored' = stored \ {t}
           /\ row'[t] = NoRow /\ \A s \in Tasks \ {t} : row'[s] = row[s]
           /\ keys' \in [Keys -> Tasks \cup {NoTask}]
           /\ keyRow' \in [Keys -> Tasks \cup {NoTask}]
           /\ reply' \in [Keys -> Tasks \cup {NoTask}]
           /\ \A k \in Keys : /\ keys'[k] = IF keys[k] = t THEN NoTask ELSE keys[k]
                              /\ keyRow'[k] = IF keyRow[k] = t THEN NoTask
                                              ELSE keyRow[k]
                              /\ reply'[k] = IF reply[k] = t THEN NoTask ELSE reply[k]
BY NoRowTyped DEF RouterTypeOK, RemoveTask

LEMMA InitTyped == RouterInit => RouterTypeOK
BY NoRowTyped, BoundsAssumption DEF RouterInit, RouterTypeOK, Idle

LEMMA RunParts ==
    ASSUME NEW r \in Runs
    PROVE  r[1] \in Tasks /\ r[2] \in Slots /\ r = <<r[1], r[2]>>
BY DEF Runs

\* The tasks that the endpoints and the threads leave behind are tasks.
LEMMA NewTaskTyped ==
    ASSUME NEW x \in StoredTask
    PROVE  /\ \A p \in Phases : [x EXCEPT !.phase = p] \in StoredTask
           /\ [x EXCEPT !.approved = TRUE, !.phase = "approved"] \in StoredTask
           /\ [x EXCEPT !.asked = TRUE, !.phase = "rolling_back"] \in StoredTask
           /\ \A p \in Phases, b \in BOOLEAN :
                  [x EXCEPT !.phase = p, !.prepared = b] \in StoredTask
BY DEF StoredTask, Phases

\* What each kind of result makes of a task.
LEMMA PhasesTyped ==
    ASSUME NEW t, NEW status \in {"analyzing", "backing_up", "applying_patch",
                                  "succeeded", "dry_run"} \cup Removable
    PROVE  /\ PhaseOfEvent(t, status) \in Phases \ (Startable \cup {"new"})
           /\ status # "analyzing" /\ ~Gated(t)
                  => PhaseOfEvent(t, status) \notin Resumable
           /\ status \in {"backing_up", "applying_patch"} /\ ~Gated(t)
                  => PhaseOfEvent(t, status) = "executing"
           /\ status \in Removable \cup {"succeeded", "dry_run"}
                  => PhaseOfResult(status) \in Removable \cup {"awaiting_approval"}
           /\ status \in Removable \cup {"succeeded"}
                  => PhaseOfResult(status) \in Removable
<1>1. CASE status \in Removable
    BY <1>1 DEF PhaseOfEvent, PhaseOfResult, Removable, Phases, Startable, Resumable
<1>2. CASE status \notin Removable
    BY <1>2 DEF PhaseOfEvent, PhaseOfResult, Removable, Phases, Startable, Resumable
<1> QED
    BY <1>1, <1>2

\* What Report does to the task and its run.
LEMMA ReportTyped ==
    ASSUME RouterTypeOK, NEW t \in Tasks, NEW i \in Slots,
           NEW at \in {"analysing", "saving", "changing", "ended"},
           NEW status \in {"analyzing", "backing_up", "applying_patch",
                           "succeeded", "dry_run"} \cup Removable,
           Report(<<t, i>>, at, status)
    PROVE  /\ task' \in [Tasks -> StoredTask] /\ run' \in [Runs -> RunState]
           /\ task'[t].phase = PhaseOfEvent(t, status)
           /\ SameFlags(task'[t], task[t]) /\ task'[t].prepared = task[t].prepared
           /\ \A s \in Tasks \ {t} : task'[s] = task[s]
           /\ run'[<<t, i>>].at = at /\ run'[<<t, i>>].status = status
           /\ run'[<<t, i>>].preparing = run[<<t, i>>].preparing
           /\ run'[<<t, i>>].event = IF t \in stored THEN task'[t] ELSE NoRow
           /\ \A r \in Runs \ {<<t, i>>} : run'[r] = run[r]
<1> DEFINE r == <<t, i>>
           new == [task[t] EXCEPT !.phase = PhaseOfEvent(t, status)]
           event == IF t \in stored THEN new ELSE NoRow
<1>1. r \in Runs /\ r[1] = t /\ run \in [Runs -> RunState]
    BY DEF Runs, RouterTypeOK, RunState
<1>2. task[t] \in StoredTask /\ task \in [Tasks -> StoredTask]
    BY DEF RouterTypeOK
<1>3. new \in StoredTask
    BY <1>2, PhasesTyped, NewTaskTyped
<1>4. event \in StoredTask
    BY <1>3, NoRowTyped
<1>5. /\ task' = [task EXCEPT ![t] = new]
      /\ run' = [run EXCEPT ![r].at = at, ![r].status = status, ![r].event = event]
    BY <1>1 DEF Report
<1>6. /\ new.phase = PhaseOfEvent(t, status) /\ SameFlags(new, task[t])
      /\ new.prepared = task[t].prepared
    BY <1>2 DEF SameFlags, StoredTask
<1>7. /\ task' \in [Tasks -> StoredTask] /\ task'[t] = new
      /\ \A s \in Tasks \ {t} : task'[s] = task[s]
    BY <1>2, <1>3, <1>5
<1> HIDE DEF new, event
<1>8. /\ run' \in [Runs -> RunState]
      /\ run'[r].at = at /\ run'[r].status = status /\ run'[r].event = event
      /\ run'[r].preparing = run[r].preparing
      /\ \A q \in Runs \ {r} : run'[q] = run[q]
    BY <1>1, <1>4, <1>5 DEF RunState
<1> QED
    BY <1>6, <1>7, <1>8 DEF event

\* A thread's steps, of run i of task t.
LEMMA ThreadTyped ==
    ASSUME RouterTypeOK, NEW t \in Tasks, NEW i \in Slots, RunShape(t),
           Thread(<<t, i>>)
    PROVE  RouterTypeOK'
<1> DEFINE r == <<t, i>>
<1> USE DEF storeVars
<1>1. r \in Runs /\ r[1] = t /\ run \in [Runs -> RunState]
    BY DEF Runs, RouterTypeOK, RunState
<1>2. task[t] \in StoredTask /\ row \in [Tasks -> StoredTask]
    BY DEF RouterTypeOK
<1>3. ASSUME NEW at \in {"analysing", "saving", "changing", "ended"},
             NEW status \in {"analyzing", "backing_up", "applying_patch",
                             "succeeded", "dry_run"} \cup Removable,
             Report(r, at, status), active' \subseteq Tasks,
             applied' \in [Tasks -> Nat]
      PROVE  RouterTypeOK'
    <2>1. task' \in [Tasks -> StoredTask] /\ run' \in [Runs -> RunState]
        BY <1>3, ReportTyped
    <2> QED
        BY <1>3, <2>1 DEF Report, RouterTypeOK, RunState
<1>4. CASE Begin(r)
    <2>1. run' \in [Runs -> RunState]
        <3>1. CASE run' = [run EXCEPT ![r] = Idle]
            BY <1>1, <3>1, IdleTyped DEF RunState
        <3>2. CASE run' = [run EXCEPT ![r].at = "begun", ![r].preparing = Gated(t)]
            <4>1. Gated(t) \in BOOLEAN
                BY <1>2 DEF Gated, StoredTask
            <4> QED
                BY <1>1, <3>2, <4>1 DEF RunState
        <3> QED
            BY <1>1, <1>4, <3>1, <3>2 DEF Begin
    <2>2. task' \in [Tasks -> StoredTask] /\ row' \in [Tasks -> StoredTask]
        <3>1. CASE UNCHANGED <<task, row>>
            BY <3>1 DEF RouterTypeOK
        <3>2. CASE Touch(t, [task[t] EXCEPT
                     !.phase = IF Gated(t) THEN "analyzing" ELSE "executing"])
            <4>1. [task[t] EXCEPT !.phase = IF Gated(t) THEN "analyzing"
                                            ELSE "executing"] \in StoredTask
                BY <1>2, NewTaskTyped DEF Phases
            <4> QED
                BY <3>2, <4>1, TouchTyped
        <3> QED
            BY <1>1, <1>4, <3>1, <3>2 DEF Begin
    <2> QED
        BY <1>4, <2>1, <2>2 DEF Begin, RouterTypeOK, RunState
<1>5. CASE Register(r)
    <2>1. run' \in [Runs -> RunState]
        BY <1>1, <1>5 DEF Register, RunState
    <2> QED
        BY <1>1, <1>5, <2>1 DEF Register, RouterTypeOK, RunState
<1>6. CASE Analyse(r)
    BY <1>3, <1>6 DEF Analyse, RouterTypeOK
<1>7. CASE BackUp(r)
    BY <1>3, <1>7 DEF BackUp, RouterTypeOK
<1>8. CASE Apply(r)
    <2>1. applied' \in [Tasks -> Nat] /\ active' = active
        BY <1>1, <1>8 DEF Apply, RouterTypeOK
    <2> QED
        BY <1>3, <1>8, <2>1 DEF Apply, RouterTypeOK
<1>9. CASE Persist(r)
    <2>1. run[r].event \in StoredTask /\ run' \in [Runs -> RunState]
        BY <1>1, <1>9, NoRowTyped DEF Persist, RunState
    <2>2. row' \in [Tasks -> StoredTask]
        BY <1>1, <1>2, <1>9, <2>1 DEF Persist
    <2> QED
        BY <1>9, <2>1, <2>2 DEF Persist, RouterTypeOK, RunState
<1>10. ASSUME NEW status \in Removable \cup {"dry_run", "succeeded"}, Finish(r, status)
       PROVE  RouterTypeOK'
    BY <1>1, <1>3, <1>10 DEF Finish, RouterTypeOK
<1>11. ASSUME NEW patch \in BOOLEAN, StoreResult(r, patch)
       PROVE  RouterTypeOK'
    <2>1. run' = [run EXCEPT ![r] = Idle] /\ run[r].at = "ended"
        BY <1>11 DEF StoreResult
    <2>2. run' \in [Runs -> RunState]
        BY <1>1, <2>1, IdleTyped DEF RunState
    <2> DEFINE new == [task[t] EXCEPT !.phase = PhaseOfResult(run[r].status),
                           !.prepared = IF run[r].status = "dry_run" THEN patch
                                        ELSE @]
    <2>3. Touch(t, new)
        BY <1>1, <1>11 DEF StoreResult
    <2>4. run[r].status \in Removable \cup {"succeeded", "dry_run"}
        BY <2>1 DEF RunShape
    <2>5. PhaseOfResult(run[r].status) \in Phases
        BY <2>4, PhasesTyped DEF Phases
    <2>6. new \in StoredTask
        <3>1. CASE run[r].status = "dry_run"
            BY <1>2, <2>5, <3>1, NewTaskTyped
        <3>2. CASE run[r].status # "dry_run"
            BY <1>2, <2>5, <3>2 DEF StoredTask
        <3> QED
            BY <3>1, <3>2
    <2> HIDE DEF new
    <2> QED
        BY <1>11, <2>2, <2>3, <2>6, TouchTyped
           DEF StoreResult, RouterTypeOK, RunState
<1>12. CASE StoreFailure(r)
    <2>1. run' = [run EXCEPT ![r] = Idle]
        BY <1>12 DEF StoreFailure
    <2>2. run' \in [Runs -> RunState]
        BY <1>1, <2>1, IdleTyped DEF RunState
    <2>3. [task[t] EXCEPT !.phase = "failed"] \in StoredTask
        BY <1>2, NewTaskTyped DEF Phases, Removable
    <2>4. task' \in [Tasks -> StoredTask] /\ row' \in [Tasks -> StoredTask]
        BY <1>1, <1>12, <2>3, TouchTyped DEF StoreFailure
    <2> QED
        BY <1>12, <2>2, <2>4 DEF StoreFailure, RouterTypeOK, RunState
<1> QED
    BY <1>4, <1>5, <1>6, <1>7, <1>8, <1>9, <1>10, <1>11, <1>12 DEF Thread

LEMMA RecoveredTyped ==
    ASSUME NEW x \in StoredTask
    PROVE  /\ Recovered(x) \in StoredTask
           /\ SameFlags(Recovered(x), x) /\ Recovered(x).prepared = x.prepared
           /\ Recovered(x).phase = "new" <=> x.phase = "new"
           /\ Recovered(x).phase \in Resumable => x.phase \in Resumable
           /\ Recovered(x).phase \in Startable => x.phase \in Startable \cup Resumable
<1> DEFINE p == CASE x.phase \in {"queued", "analyzing"} -> "queued"
                  [] x.phase \in {"executing", "rolling_back"} -> "failed"
                  [] OTHER -> x.phase
<1>1. /\ p \in Phases /\ (p = "new" <=> x.phase = "new")
      /\ p \in Resumable => x.phase \in Resumable
      /\ p \in Startable => x.phase \in Startable \cup Resumable
    BY DEF StoredTask, Phases, Removable, Resumable, Startable
<1>2. Recovered(x) = [x EXCEPT !.phase = p]
    BY DEF Recovered
<1> HIDE DEF p
<1> QED
    BY <1>1, <1>2 DEF StoredTask, SameFlags

\* What a restart finds, resumes and forgets.
LEMMA RestartTyped ==
    ASSUME RouterTypeOK, Restart
    PROVE  /\ RouterTypeOK'
           /\ stored' = {t \in Tasks : row[t] # NoRow}
           /\ \A t \in stored' : task'[t] = Recovered(row[t])
                                 /\ row'[t] = Recovered(row[t])
           /\ \A t \in Tasks \ stored' : task'[t] = task[t] /\ row'[t] = NoRow
           /\ \E chosen \in Slots : \A t \in Tasks, i \in Slots :
                  /\ run'[<<t, i>>].event = NoRow
                  /\ run'[<<t, i>>].at =
                         IF t \in stored' /\ row[t].phase \in Resumable /\ i = chosen
                           THEN "scheduled" ELSE "idle"
           /\ \A k \in Keys : keys'[k] = IF keyRow[k] \in stored' THEN keyRow[k]
                                         ELSE NoTask
<1> DEFINE found == {t \in Tasks : row[t] # NoRow}
           resumed == {t \in found : Resumed(row[t])}
           chosen == CHOOSE i \in Slots : TRUE
           first == [Idle EXCEPT !.at = "scheduled"]
<1>1. /\ stored' = found /\ restarts < MaxRestarts /\ restarts' = restarts + 1
      /\ task' = [t \in Tasks |-> IF t \in found THEN Recovered(row[t])
                                  ELSE task[t]]
      /\ row' = [t \in Tasks |-> IF t \in found THEN Recovered(row[t]) ELSE NoRow]
      /\ keys' = [k \in Keys |-> IF keyRow[k] \in found THEN keyRow[k] ELSE NoTask]
      /\ run' = [r \in Runs |-> IF r[1] \in resumed /\ r[2] = chosen
                                  THEN first ELSE Idle]
      /\ token' = {} /\ active' = {} /\ rolling' = {} /\ opening' = NoTask
      /\ UNCHANGED <<keyRow, reply, applied, ordered, cancelled>>
    BY DEF Restart
<1>2. first.at = "scheduled" /\ first.event = NoRow /\ first \in RunState
    BY NoRowTyped DEF Idle, RunState
<1>3. Idle.at = "idle" /\ Idle.event = NoRow /\ Idle \in RunState
    BY NoRowTyped DEF Idle, RunState
<1>4. chosen \in Slots
    BY BoundsAssumption
<1> HIDE DEF first, chosen
<1>5. run' \in [Runs -> RunState]
    BY <1>1, <1>2, <1>3
<1>6. \A t \in Tasks : Recovered(row[t]) \in StoredTask
    BY RecoveredTyped DEF RouterTypeOK
<1>7. RouterTypeOK'
    <2>1. task' \in [Tasks -> StoredTask] /\ row' \in [Tasks -> StoredTask]
        BY <1>1, <1>6, NoRowTyped DEF RouterTypeOK
    <2>2. keys' \in [Keys -> Tasks \cup {NoTask}]
        BY <1>1
    <2>3. restarts' \in 0 .. MaxRestarts
        BY <1>1, BoundsAssumption DEF RouterTypeOK
    <2> QED
        BY <1>1, <1>5, <2>1, <2>2, <2>3 DEF RouterTypeOK, RunState
<1>8. ASSUME NEW t \in Tasks, NEW i \in Slots
      PROVE  /\ run'[<<t, i>>].event = NoRow
             /\ run'[<<t, i>>].at =
                    IF t \in stored' /\ row[t].phase \in Resumable /\ i = chosen
                      THEN "scheduled" ELSE "idle"
    <2>1. <<t, i>> \in Runs /\ <<t, i>>[1] = t /\ <<t, i>>[2] = i
        BY DEF Runs
    <2>2. t \in resumed <=> t \in found /\ row[t].phase \in Resumable
        BY DEF Resumed, Resumable
    <2>3. run'[<<t, i>>] = IF t \in resumed /\ i = chosen THEN first ELSE Idle
        BY <1>1, <2>1
    <2> QED
        BY <1>1, <1>2, <1>3, <2>2, <2>3
<1> QED
    BY <1>1, <1>4, <1>7, <1>8

LEMMA EndpointTyped ==
    ASSUME RouterTypeOK, NEW t \in Tasks, Endpoint(t) \/ EndRollback(t)
    PROVE  RouterTypeOK'
<1>1. /\ task[t] \in StoredTask /\ task \in [Tasks -> StoredTask]
      /\ row \in [Tasks -> StoredTask]
    BY DEF RouterTypeOK
<1>2. ASSUME NEW k \in Keys \cup {NoTask}, NEW approval \in BOOLEAN,
             Create(t, k, approval)
      PROVE  RouterTypeOK'
    <2>1. task' \in [Tasks -> StoredTask]
        BY <1>1, <1>2 DEF Create, StoredTask, Phases
    <2>2. row' \in [Tasks -> StoredTask] /\ run' \in [Runs -> RunState]
        BY <1>1, <1>2, <2>1, ScheduleTyped DEF Create
    <2>3. /\ ordered' \in [Tasks -> Nat] /\ keys' \in [Keys -> Tasks \cup {NoTask}]
          /\ stored' \subseteq Tasks
        BY <1>2 DEF Create, RouterTypeOK
    <2> QED
        BY <1>2, <2>1, <2>2, <2>3 DEF Create, RouterTypeOK, RunState
<1>3. ASSUME NEW start \in BOOLEAN, Approve(t, start) PROVE RouterTypeOK'
    <2>1. /\ [task[t] EXCEPT !.approved = TRUE, !.phase = "approved"] \in StoredTask
        BY <1>1, NewTaskTyped
    <2>2. task' \in [Tasks -> StoredTask] /\ row' \in [Tasks -> StoredTask]
        BY <1>3, <2>1, TouchTyped DEF Approve
    <2>3. run' \in [Runs -> RunState]
        BY <1>3, ScheduleTyped DEF Approve, RouterTypeOK, RunState
    <2>4. ordered' \in [Tasks -> Nat]
          /\ cancelled' \in [Tasks -> {"no", "asked", "recorded"}]
        BY <1>3 DEF Approve, RouterTypeOK
    <2> QED
        BY <1>3, <2>2, <2>3, <2>4 DEF Approve, RouterTypeOK, RunState
<1>4. CASE Start(t)
    <2>1. [task[t] EXCEPT !.phase = IF task[t].approval THEN "approved"
                                    ELSE "queued"] \in StoredTask
        BY <1>1, NewTaskTyped DEF Phases
    <2>2. task' \in [Tasks -> StoredTask] /\ row' \in [Tasks -> StoredTask]
        BY <1>4, <2>1, TouchTyped DEF Start
    <2>3. run' \in [Runs -> RunState] /\ ordered' \in [Tasks -> Nat]
        BY <1>4, ScheduleTyped DEF Start, RouterTypeOK
    <2> QED
        BY <1>4, <2>2, <2>3 DEF Start, RouterTypeOK, RunState
<1>5. CASE Reject(t) \/ Cancel(t)
    <2>1. [task[t] EXCEPT !.phase = "cancelled"] \in StoredTask
        BY <1>1, NewTaskTyped DEF Phases, Removable
    <2>2. task' \in [Tasks -> StoredTask] /\ row' \in [Tasks -> StoredTask]
        BY <1>1, <1>5, <2>1, TouchTyped DEF Reject, Cancel
    <2>3. cancelled' \in [Tasks -> {"no", "asked", "recorded"}]
        BY <1>5 DEF Reject, Cancel, RouterTypeOK
    <2> QED
        BY <1>5, <2>2, <2>3 DEF Reject, Cancel, RouterTypeOK
<1>6. CASE Delete(t) \/ Expire(t)
    <2>1. stored' \subseteq Tasks /\ token' \subseteq Tasks
        BY <1>6, RemoveTyped DEF Delete, Expire, RouterTypeOK
    <2>2. UNCHANGED <<task, opening, run, active, rolling, applied, ordered,
                      cancelled, restarts>>
        BY <1>6 DEF Delete, Expire
    <2>3. RemoveTask(t)
        BY <1>6 DEF Delete, Expire
    <2> QED
        BY <2>1, <2>2, <2>3, RemoveTyped DEF RouterTypeOK
<1>7. ASSUME NEW force \in BOOLEAN, BeginRollback(t, force) PROVE RouterTypeOK'
    <2>1. [task[t] EXCEPT !.asked = TRUE, !.phase = "rolling_back"] \in StoredTask
        BY <1>1, NewTaskTyped
    <2>2. task' \in [Tasks -> StoredTask] /\ row' \in [Tasks -> StoredTask]
        BY <1>7, <2>1, TouchTyped DEF BeginRollback
    <2> QED
        BY <1>7, <2>2 DEF BeginRollback, RouterTypeOK
<1>8. CASE EndRollback(t)
    <2>1. [task[t] EXCEPT !.phase = "rollback_failed"] \in StoredTask
        BY <1>1, NewTaskTyped DEF Phases, Removable
    <2>2. task' \in [Tasks -> StoredTask] /\ row' \in [Tasks -> StoredTask]
        BY <1>8, <2>1, TouchTyped DEF EndRollback
    <2> QED
        BY <1>8, <2>2 DEF EndRollback, RouterTypeOK
<1> QED
    BY <1>2, <1>3, <1>4, <1>5, <1>6, <1>7, <1>8 DEF Endpoint

LEMMA NextTyped ==
    RouterTypeOK /\ (\A t \in Tasks : RunShape(t)) /\ [RouterNext]_routerVars
        => RouterTypeOK'
<1> SUFFICES ASSUME RouterTypeOK, \A t \in Tasks : RunShape(t),
                    [RouterNext]_routerVars
             PROVE  RouterTypeOK'
    OBVIOUS
<1>1. ASSUME NEW k \in Keys, Repeat(k) PROVE RouterTypeOK'
    <2>1. keys[k] \in Tasks /\ task[keys[k]] \in StoredTask
        BY <1>1 DEF Repeat, RouterTypeOK
    <2>2. task' \in [Tasks -> StoredTask] /\ row' \in [Tasks -> StoredTask]
        BY <1>1, <2>1, TouchTyped DEF Repeat
    <2> QED
        BY <1>1, <2>2 DEF Repeat, RouterTypeOK
<1>2. CASE CommitKey
    BY <1>2 DEF CommitKey, RouterTypeOK
<1>3. ASSUME NEW r \in Runs, Thread(r) PROVE RouterTypeOK'
    BY <1>3, RunParts, ThreadTyped
<1>4. CASE UNCHANGED routerVars
    BY <1>4 DEF routerVars, storeVars, RouterTypeOK
<1> QED
    BY <1>1, <1>2, <1>3, <1>4, EndpointTyped, RestartTyped DEF RouterNext

----------------------------------------------------------------------------
(* The keys.                                                               *)

LEMMA NextKeys ==
    ASSUME RouterTypeOK, KeysKept, \A t \in Tasks : Shape(t),
           [RouterNext]_routerVars
    PROVE  KeysKept'
<1> USE DEF KeysKept
<1>i. NoTask \notin Tasks /\ NoTask \notin Keys
    BY IdsAssumption
<1>1. ASSUME NEW t \in Tasks, NEW k \in Keys \cup {NoTask},
             NEW approval \in BOOLEAN, Create(t, k, approval)
      PROVE  KeysKept'
    <2>1. /\ opening = NoTask /\ opening' = k /\ stored' = stored \cup {t}
          /\ UNCHANGED <<keyRow, reply>>
          /\ k \in Keys => keys[k] \notin stored
        BY <1>1 DEF Create, LoopFree
    <2>2. CASE k \in Keys
        <3>1. keys' = [keys EXCEPT ![k] = t] /\ keyRow[k] = NoTask
            BY <1>1, <1>i, <2>1, <2>2 DEF Create
        <3> QED
            BY <1>i, <2>1, <2>2, <3>1 DEF RouterTypeOK
    <2>3. CASE k \notin Keys
        BY <1>1, <1>i, <2>1, <2>3 DEF Create
    <2> QED
        BY <2>2, <2>3
<1>2. ASSUME NEW k \in Keys, Repeat(k) PROVE KeysKept'
    BY <1>2, <1>i DEF Repeat, LoopFree
<1>3. CASE CommitKey
    <2>1. opening \in Keys /\ keyRow \in [Keys -> Tasks \cup {NoTask}]
        BY <1>3 DEF CommitKey, RouterTypeOK
    <2> QED
        BY <1>3, <1>i, <2>1 DEF CommitKey
<1>4. ASSUME NEW t \in Tasks, Delete(t) \/ Expire(t) PROVE KeysKept'
    <2>1. opening = NoTask /\ opening' = opening /\ RemoveTask(t)
        BY <1>4 DEF Delete, Expire, LoopFree
    <2>2. keyRow' = reply'
        BY <2>1 DEF RemoveTask
    <2> QED
        BY <1>i, <2>1, <2>2, RemoveTyped
<1>5. CASE Restart
    <2>1. opening' = NoTask /\ UNCHANGED <<keyRow, reply>>
        BY <1>5 DEF Restart
    <2>2. stored \subseteq stored'
        BY <1>5, RestartTyped DEF Shape, RouterTypeOK, NoRow
    <2> QED
        BY <1>5, <1>i, <2>1, <2>2, RestartTyped
<1>6. ASSUME UNCHANGED <<stored, keys, keyRow, opening, reply>> PROVE KeysKept'
    BY <1>6
<1>7. ASSUME NEW r \in Runs, Thread(r) PROVE KeysKept'
    BY <1>6, <1>7
       DEF Thread, Begin, Register, Analyse, BackUp, Apply, Persist, Finish,
           StoreResult, StoreFailure, Report, storeVars
<1>8. ASSUME NEW t \in Tasks, Endpoint(t) \/ EndRollback(t) PROVE KeysKept'
    BY <1>1, <1>4, <1>6, <1>8
       DEF Endpoint, Approve, Start, Reject, Cancel, BeginRollback, EndRollback
<1> QED
    BY <1>2, <1>3, <1>5, <1>6, <1>7, <1>8 DEF RouterNext, routerVars, storeVars

----------------------------------------------------------------------------
(* Each task by itself.                                                    *)

LEMMA TaskFrame ==
    ASSUME NEW s \in Tasks, TaskInv(s),
           task'[s] = task[s], row'[s] = row[s],
           \A i \in Slots : run'[<<s, i>>] = run[<<s, i>>],
           s \in token' <=> s \in token, s \in stored' <=> s \in stored,
           s \in active' <=> s \in active, s \in rolling' <=> s \in rolling,
           applied'[s] = applied[s], ordered'[s] = ordered[s],
           cancelled'[s] = cancelled[s]
    PROVE  TaskInv(s)'
<1>1. Gated(s)' = Gated(s) /\ Pending(s)' = Pending(s)
    BY DEF Gated, Pending
<1>2. Shape(s)' /\ RunShape(s)'
    BY DEF TaskInv, Shape, RunShape
<1>3. Gating(s)' /\ Exclusion(s)' /\ Marked(s)'
    BY <1>1 DEF TaskInv, Gating, Exclusion, Marked
<1>4. Counted(s)' /\ Called(s)' /\ Written(s)'
    BY <1>1 DEF TaskInv, Counted, Called, Written
<1> QED
    BY <1>2, <1>3, <1>4 DEF TaskInv

\* Runs that are pending can be counted, and one more or less of them.
LEMMA PendingCounted ==
    ASSUME NEW S, S \subseteq Slots
    PROVE  /\ IsFiniteSet(S) /\ Cardinality(S) \in Nat
           /\ \A T \in SUBSET S : Cardinality(T) <= Cardinality(S)
           /\ \A i \in Slots \ S : Cardinality(S \cup {i}) = Cardinality(S) + 1
           /\ \A i \in S : Cardinality(S \ {i}) = Cardinality(S) - 1
           /\ S # {} => Cardinality(S) >= 1
<1>1. IsFiniteSet(S)
    BY BoundsAssumption, FS_Subset
<1>2. Cardinality(S) \in Nat
    BY <1>1, FS_CardinalityType
<1>3. \A T \in SUBSET S : Cardinality(T) <= Cardinality(S)
    BY <1>1, FS_Subset
<1>4. S # {} => Cardinality(S) # 0
    BY <1>1, FS_EmptySet
<1>5. \A i \in Slots \ S : Cardinality(S \cup {i}) = Cardinality(S) + 1
    BY <1>1, FS_AddElement
<1>6. \A i \in S : Cardinality(S \ {i}) = Cardinality(S) - 1
    BY <1>1, FS_RemoveElement
<1> QED
    BY <1>1, <1>2, <1>3, <1>4, <1>5, <1>6

\* The parts of the types that the steps of a task rest on.
LEMMA Typed ==
    ASSUME RouterTypeOK, NEW t \in Tasks
    PROVE  /\ task[t] \in StoredTask /\ row[t] \in StoredTask
           /\ applied[t] \in Nat /\ ordered[t] \in Nat
           /\ \A i \in Slots : run[<<t, i>>] \in RunState
           /\ \A i \in Slots : run[<<t, i>>].event \in StoredTask
BY DEF RouterTypeOK, RunState, Runs

\* An endpoint that stores the task in another phase, and leaves its runs
\* alone, keeps what holds of it, if the phase promises no new execution.
LEMMA TouchKeeps ==
    ASSUME RouterTypeOK, NEW t \in Tasks, TaskInv(t), NEW new \in StoredTask,
           Touch(t, new), task[t].phase # "new", new.phase # "new",
           SameFlags(new, task[t]), new.prepared = task[t].prepared,
           new.phase \in Resumable => task[t].phase \in Resumable,
           new.phase \in Startable => task[t].phase \in Startable,
           UNCHANGED <<run, stored, active, applied, ordered>>,
           token \subseteq token',
           cancelled'[t] = "recorded" =>
               \/ cancelled[t] = "recorded"
               \/ /\ t \in stored \cap token' /\ task[t].phase \in Startable
                  /\ new.phase = "cancelled"
    PROVE  TaskInv(t)'
<1>1. /\ task'[t] = new /\ row'[t] = IF t \in stored THEN new ELSE row[t]
    BY TouchTyped
<1>2. Gated(t)' = Gated(t) /\ Pending(t)' = Pending(t)
    BY <1>1 DEF Gated, Pending, SameFlags
<1>3. Shape(t)' /\ RunShape(t)' /\ Written(t)'
    BY <1>1 DEF TaskInv, Shape, RunShape, Written, SameFlags
<1>4. Gating(t)'
    <2>1. Gated(t) /\ task[t].prepared /\ t \in stored => task[t].phase \notin Resumable
        BY DEF TaskInv, Gating, Written, Waiting
    <2> QED
        BY <1>1, <1>2, <2>1 DEF TaskInv, Gating
<1>5. Exclusion(t)' /\ Marked(t)'
    BY <1>1, <1>2 DEF TaskInv, Exclusion, Marked
<1>6. Counted(t)'
    BY <1>1, <1>2 DEF TaskInv, Counted
<1>7. Called(t)'
    <2>1. CASE cancelled[t] = "recorded"
        BY <1>1, <1>2, <2>1 DEF TaskInv, Called
    <2>2. CASE /\ t \in stored \cap token' /\ task[t].phase \in Startable
               /\ new.phase = "cancelled"
        <3>1. \A i \in Slots : run[<<t, i>>].event.phase = "new"
            BY <2>2 DEF TaskInv, Exclusion, RunShape, NoRow
        <3> QED
            BY <1>1, <2>2, <3>1 DEF Called, Startable, Resumable
    <2> QED
        BY <2>1, <2>2 DEF Called
<1> QED
    BY <1>3, <1>4, <1>5, <1>6, <1>7 DEF TaskInv

\* What a new run adds to those that are pending.
LEMMA OneMorePending ==
    ASSUME RouterTypeOK, NEW t \in Tasks, Schedule(t)
    PROVE  \E i \in Slots :
               /\ run[<<t, i>>].at = "idle" /\ run'[<<t, i>>].at = "scheduled"
               /\ run'[<<t, i>>].event = NoRow
               /\ \A j \in Slots \ {i} : run'[<<t, j>>] = run[<<t, j>>]
               /\ \A s \in Tasks \ {t}, j \in Slots : run'[<<s, j>>] = run[<<s, j>>]
               /\ Pending(t)' = Pending(t) \cup {i}
               /\ Cardinality(Pending(t)') = Cardinality(Pending(t)) + 1
<1>1. PICK i \in Slots :
          /\ run[<<t, i>>].at = "idle" /\ run'[<<t, i>>].at = "scheduled"
          /\ run'[<<t, i>>].event = NoRow
          /\ \A r \in Runs \ {<<t, i>>} : run'[r] = run[r]
    BY ScheduleTyped
<1>2. /\ \A j \in Slots \ {i} : run'[<<t, j>>] = run[<<t, j>>]
      /\ \A s \in Tasks \ {t}, j \in Slots : run'[<<s, j>>] = run[<<s, j>>]
    BY <1>1 DEF Runs
<1>3. i \in Slots \ Pending(t) /\ Pending(t)' = Pending(t) \cup {i}
    BY <1>1, <1>2 DEF Pending
<1>4. Pending(t) \subseteq Slots
    BY DEF Pending
<1> QED
    BY <1>1, <1>2, <1>3, <1>4, PendingCounted

LEMMA CreateKeeps ==
    ASSUME RouterTypeOK, NEW t \in Tasks, TaskInv(t), NEW k, NEW approval \in BOOLEAN,
           Create(t, k, approval)
    PROVE  TaskInv(t)'
<1>1. /\ task[t] = NoRow /\ t \notin active /\ t \notin rolling
      /\ applied[t] = 0 /\ ordered[t] = 0 /\ cancelled[t] = "no"
      /\ \A i \in Slots : run[<<t, i>>].at = "idle"
    BY DEF Create, TaskInv, Shape
<1>2. /\ task'[t].phase = "queued" /\ task'[t].approval = approval
      /\ ~task'[t].approved /\ ~task'[t].prepared
      /\ row'[t] = task'[t] /\ t \in stored'
      /\ ordered'[t] = IF approval THEN 0 ELSE 1
      /\ UNCHANGED <<active, rolling, applied, cancelled>>
    BY <1>1 DEF Create, RouterTypeOK, NoRow, StoredTask
<1>3. PICK i \in Slots :
          /\ run'[<<t, i>>].at = "scheduled" /\ run'[<<t, i>>].event = NoRow
          /\ \A j \in Slots \ {i} : run'[<<t, j>>] = run[<<t, j>>]
          /\ Cardinality(Pending(t)') = Cardinality(Pending(t)) + 1
    BY OneMorePending DEF Create
<1>4. Cardinality(Pending(t)') = 1
    <2>1. Pending(t) = {}
        BY <1>1 DEF Pending
    <2> QED
        BY <1>3, <2>1, FS_EmptySet
<1>5. \A j \in Slots : /\ run'[<<t, j>>].at \in Waiting
                       /\ run'[<<t, j>>].event = NoRow
                       /\ j # i => run'[<<t, j>>].at = "idle"
    BY <1>1, <1>3 DEF TaskInv, RunShape, Waiting
<1>6. Gated(t)' = approval
    BY <1>2 DEF Gated
<1>7. Shape(t)' /\ RunShape(t)' /\ Written(t)'
    BY <1>2, <1>5 DEF Shape, RunShape, Written, Waiting, SameFlags, NoRow
<1>8. Gating(t)' /\ Exclusion(t)' /\ Marked(t)'
    BY <1>2, <1>5, <1>6
       DEF Gating, Exclusion, Marked, Waiting, Working, NoRow, Resumable
<1>9. Counted(t)' /\ Called(t)'
    BY <1>1, <1>2, <1>4, <1>6 DEF Counted, Called
<1> QED
    BY <1>7, <1>8, <1>9 DEF TaskInv

LEMMA ApproveKeeps ==
    ASSUME RouterTypeOK, NEW t \in Tasks, TaskInv(t), NEW start \in BOOLEAN,
           Approve(t, start)
    PROVE  TaskInv(t)'
<1> DEFINE new == [task[t] EXCEPT !.approved = TRUE, !.phase = "approved"]
<1>0. task[t] \in StoredTask
    BY Typed
<1>1. new \in StoredTask /\ Touch(t, new)
    BY <1>0, NewTaskTyped DEF Approve
<1>2. /\ new.phase = "approved" /\ new.approved
      /\ new.approval = task[t].approval /\ new.prepared = task[t].prepared
    BY <1>0 DEF StoredTask
<1> HIDE DEF new
<1>3. /\ t \in stored /\ task[t].phase \in Startable /\ task[t].prepared
      /\ task[t].approval
      /\ UNCHANGED <<token, stored, active, rolling, applied>>
      /\ cancelled'[t] = "no" /\ ordered'[t] = ordered[t] + 1
    BY DEF Approve, RouterTypeOK, AllowsApproval, Startable
<1>4. task'[t] = new /\ row'[t] = new
    BY <1>1, <1>3, TouchTyped
<1>5. Gated(t) => /\ \A i \in Slots : run[<<t, i>>].at = "idle"
                  /\ applied[t] = 0 /\ Pending(t) = {}
    BY <1>3 DEF TaskInv, Gating, Counted, Pending
<1>6. \A i \in Slots : /\ run[<<t, i>>].at \in Waiting
                       /\ run[<<t, i>>].event = NoRow
    BY <1>3 DEF TaskInv, Exclusion, RunShape
<1>7. /\ \A i \in Slots : /\ run'[<<t, i>>].at \in Waiting
                          /\ run'[<<t, i>>].event = NoRow
      /\ Cardinality(Pending(t)') \in Nat
      /\ Cardinality(Pending(t)') <= Cardinality(Pending(t)) + 1
    <2>1. Cardinality(Pending(t)) \in Nat
        BY PendingCounted DEF Pending
    <2>2. CASE start
        <3>1. PICK i \in Slots :
                  /\ run'[<<t, i>>].at = "scheduled" /\ run'[<<t, i>>].event = NoRow
                  /\ \A j \in Slots \ {i} : run'[<<t, j>>] = run[<<t, j>>]
                  /\ Cardinality(Pending(t)') = Cardinality(Pending(t)) + 1
            BY <2>2, OneMorePending DEF Approve
        <3> QED
            BY <1>6, <2>1, <3>1 DEF Waiting
    <2>3. CASE ~start
        <3>1. run' = run
            BY <2>3 DEF Approve
        <3>2. Pending(t)' = Pending(t)
            BY <3>1 DEF Pending
        <3> QED
            BY <1>6, <2>1, <3>1, <3>2
    <2> QED
        BY <2>2, <2>3
<1>8. ~Gated(t)' /\ applied[t] + Cardinality(Pending(t)) <= ordered[t]
    <2>1. Gated(t) => Cardinality(Pending(t)) = 0
        BY <1>5, FS_EmptySet
    <2>2. ordered[t] \in Nat
        BY Typed
    <2> QED
        BY <1>2, <1>4, <1>5, <2>1, <2>2 DEF Gated, TaskInv, Counted
<1>9. Shape(t)' /\ RunShape(t)' /\ Written(t)'
    BY <1>2, <1>4, <1>7 DEF Shape, RunShape, Written, Waiting, SameFlags, NoRow
<1>10. Gating(t)' /\ Exclusion(t)' /\ Marked(t)'
    BY <1>3, <1>7, <1>8 DEF Gating, Exclusion, Marked, Waiting, Working, NoRow,
           Resumable
<1>11. Counted(t)' /\ Called(t)'
    <2>1. Cardinality(Pending(t)) \in Nat /\ applied[t] \in Nat /\ ordered[t] \in Nat
        BY Typed, PendingCounted DEF Pending
    <2>2. Counted(t)'
        BY <1>3, <1>7, <1>8, <2>1 DEF Counted
    <2> QED
        BY <1>3, <2>2 DEF Called
<1> QED
    BY <1>9, <1>10, <1>11 DEF TaskInv

LEMMA StartKeeps ==
    ASSUME RouterTypeOK, NEW t \in Tasks, TaskInv(t), Start(t)
    PROVE  TaskInv(t)'
<1> DEFINE new == [task[t] EXCEPT !.phase = IF task[t].approval THEN "approved"
                                            ELSE "queued"]
<1>0. task[t] \in StoredTask
    BY Typed
<1>1. new \in StoredTask /\ Touch(t, new)
    BY <1>0, NewTaskTyped DEF Start, Phases
<1>2. /\ new.phase \in {"approved", "queued"} /\ SameFlags(new, task[t])
      /\ new.prepared = task[t].prepared
    BY <1>0 DEF StoredTask, SameFlags
<1> HIDE DEF new
<1>3. /\ t \in stored /\ task[t].phase \in Startable /\ ~Gated(t)
      /\ UNCHANGED <<token, stored, active, rolling, applied, cancelled>>
      /\ ordered'[t] = ordered[t] + 1
    BY DEF Start, RouterTypeOK, Gated
<1>4. task'[t] = new /\ row'[t] = new
    BY <1>1, <1>3, TouchTyped
<1>5. PICK i \in Slots :
          /\ run'[<<t, i>>].at = "scheduled" /\ run'[<<t, i>>].event = NoRow
          /\ \A j \in Slots \ {i} : run'[<<t, j>>] = run[<<t, j>>]
          /\ Cardinality(Pending(t)') = Cardinality(Pending(t)) + 1
    BY OneMorePending DEF Start
<1>6. \A j \in Slots : /\ run'[<<t, j>>].at \in Waiting
                       /\ run'[<<t, j>>].event = NoRow
    BY <1>3, <1>5 DEF TaskInv, Exclusion, RunShape, Waiting
<1>7. ~Gated(t)' /\ cancelled[t] # "recorded"
    BY <1>2, <1>3, <1>4 DEF Gated, SameFlags, TaskInv, Called
<1>8. Shape(t)' /\ RunShape(t)' /\ Written(t)'
    BY <1>2, <1>4, <1>6 DEF Shape, RunShape, Written, Waiting, SameFlags, NoRow
<1>9. Gating(t)' /\ Exclusion(t)' /\ Marked(t)'
    BY <1>3, <1>6, <1>7 DEF Gating, Exclusion, Marked, Waiting, Working, NoRow,
           Resumable
<1>10. Counted(t)' /\ Called(t)'
    <2>1. Cardinality(Pending(t)) \in Nat /\ applied[t] \in Nat /\ ordered[t] \in Nat
        BY Typed, PendingCounted DEF Pending
    <2>2. Counted(t)'
        BY <1>3, <1>5, <1>7, <2>1 DEF TaskInv, Counted
    <2> QED
        BY <1>3, <1>7, <2>2 DEF Called
<1> QED
    BY <1>8, <1>9, <1>10 DEF TaskInv

\* What an endpoint that only stores the task in another phase keeps.
LEMMA EndpointKeeps ==
    ASSUME RouterTypeOK, NEW t \in Tasks, TaskInv(t), Endpoint(t) \/ EndRollback(t)
    PROVE  TaskInv(t)'
<1>0. task[t] \in StoredTask /\ (t \in stored \cup rolling => task[t].phase # "new")
    BY Typed DEF TaskInv, Shape
<1>p. \A p \in Phases :
          /\ [task[t] EXCEPT !.phase = p] \in StoredTask
          /\ [task[t] EXCEPT !.phase = p].phase = p
          /\ SameFlags([task[t] EXCEPT !.phase = p], task[t])
          /\ [task[t] EXCEPT !.phase = p].prepared = task[t].prepared
    BY <1>0 DEF StoredTask, SameFlags
<1>1. CASE Reject(t) \/ (Cancel(t) /\ task[t].phase \notin Busy)
    <2> DEFINE new == [task[t] EXCEPT !.phase = "cancelled"]
    <2>1. /\ new \in StoredTask /\ new.phase = "cancelled"
          /\ SameFlags(new, task[t]) /\ new.prepared = task[t].prepared
        BY <1>p DEF Phases, Removable
    <2>2. /\ Touch(t, new) /\ t \in stored /\ t \in token' /\ token \subseteq token'
          /\ UNCHANGED <<run, stored, active, applied, ordered>>
        BY <1>1 DEF Reject, Cancel
    <2>3. task[t].phase \in Startable
        BY <1>1 DEF Reject, Cancel, AllowsApproval, AllowsCancellation, Busy, Startable
    <2> HIDE DEF new
    <2> QED
        BY <1>0, <2>1, <2>2, <2>3, TouchKeeps DEF Startable, Resumable
<1>2. CASE Cancel(t) /\ task[t].phase \in Busy
    <2>1. /\ Touch(t, task[t]) /\ t \in stored /\ token \subseteq token'
          /\ UNCHANGED <<run, stored, active, applied, ordered>>
          /\ cancelled'[t] = "recorded" => cancelled[t] = "recorded"
        BY <1>2 DEF Cancel, RouterTypeOK
    <2> QED
        BY <1>0, <2>1, TouchKeeps DEF SameFlags
<1>3. ASSUME NEW force \in BOOLEAN, BeginRollback(t, force)
      PROVE  TaskInv(t)'
    <2> DEFINE new == [task[t] EXCEPT !.asked = TRUE, !.phase = "rolling_back"]
    <2>1. /\ new \in StoredTask /\ new.phase = "rolling_back"
          /\ SameFlags(new, task[t]) /\ new.prepared = task[t].prepared
        BY <1>0, NewTaskTyped DEF StoredTask, SameFlags
    <2>2. /\ Touch(t, new) /\ t \in stored
          /\ UNCHANGED <<run, stored, active, applied, ordered, token, cancelled>>
        BY <1>3 DEF BeginRollback
    <2> HIDE DEF new
    <2> QED
        BY <1>0, <2>1, <2>2, TouchKeeps DEF Startable, Resumable
<1>4. CASE EndRollback(t)
    <2> DEFINE new == [task[t] EXCEPT !.phase = "rollback_failed"]
    <2>1. /\ new \in StoredTask /\ new.phase = "rollback_failed"
          /\ SameFlags(new, task[t]) /\ new.prepared = task[t].prepared
        BY <1>p DEF Phases, Removable
    <2>2. /\ Touch(t, new) /\ t \in rolling
          /\ UNCHANGED <<run, stored, active, applied, ordered, token, cancelled>>
        BY <1>4 DEF EndRollback
    <2> HIDE DEF new
    <2> QED
        BY <1>0, <2>1, <2>2, TouchKeeps DEF Startable, Resumable
<1>5. CASE Delete(t) \/ Expire(t)
    <2>1. /\ t \in stored /\ t \notin stored' /\ row'[t] = NoRow
          /\ UNCHANGED <<task, run, active, rolling, applied, ordered, cancelled>>
          /\ token \subseteq token' /\ (t \in active /\ Delete(t) => t \in token')
          /\ Expire(t) => \A i \in Slots : run[<<t, i>>] = Idle
        BY <1>5, RemoveTyped DEF Delete, Expire
    <2>2. Gated(t)' = Gated(t) /\ Pending(t)' = Pending(t)
        BY <2>1 DEF Gated, Pending
    <2>3. Shape(t)' /\ RunShape(t)' /\ Written(t)' /\ Exclusion(t)'
        BY <1>0, <2>1 DEF TaskInv, Shape, RunShape, Written, Exclusion, NoRow
    <2>4. Gating(t)' /\ Counted(t)' /\ Called(t)'
        BY <2>1, <2>2
           DEF TaskInv, Gating, Counted, Called, NoRow, Resumable, Startable
    <2>5. Marked(t)'
        <3>1. ASSUME NEW i \in Slots, ~Gated(t),
                     run[<<t, i>>].event.phase \in Resumable
              PROVE  t \in token'
            <4>1. run[<<t, i>>].at = "analysing" /\ t \in active
                BY <3>1 DEF TaskInv, Marked, Exclusion, Working
            <4> QED
                BY <1>5, <2>1, <4>1 DEF Idle
        <3>2. row'[t].phase \notin Resumable
            BY <2>1 DEF NoRow, Resumable
        <3> QED
            BY <2>1, <2>2, <3>1, <3>2 DEF TaskInv, Marked
    <2> QED
        BY <2>3, <2>4, <2>5 DEF TaskInv
<1> QED
    BY <1>1, <1>2, <1>3, <1>4, <1>5, CreateKeeps, ApproveKeeps, StartKeeps
       DEF Endpoint

----------------------------------------------------------------------------
(* The threads.                                                            *)

\* The other runs, of the same task and of the others.
LEMMA OtherRuns ==
    ASSUME NEW t \in Tasks, NEW i \in Slots,
           \A r \in Runs \ {<<t, i>>} : run'[r] = run[r]
    PROVE  /\ \A j \in Slots \ {i} : run'[<<t, j>>] = run[<<t, j>>]
           /\ \A s \in Tasks \ {t}, j \in Slots : run'[<<s, j>>] = run[<<s, j>>]
BY DEF Runs

\* A run that goes on without changing files leaves the pending runs as they
\* are; one that ends or changes files is not pending any more.
LEMMA PendingStep ==
    ASSUME NEW t \in Tasks, NEW i \in Slots,
           \A j \in Slots \ {i} : run'[<<t, j>>] = run[<<t, j>>],
           i \in Pending(t)' => i \in Pending(t)
    PROVE  /\ Cardinality(Pending(t)) \in Nat /\ Cardinality(Pending(t)') \in Nat
           /\ Cardinality(Pending(t)') <= Cardinality(Pending(t))
           /\ i \in Pending(t) => Cardinality(Pending(t)) >= 1
           /\ i \in Pending(t) /\ i \notin Pending(t)'
                  => Cardinality(Pending(t)') = Cardinality(Pending(t)) - 1
<1>1. Pending(t) \subseteq Slots /\ Pending(t)' \subseteq Pending(t)
    BY DEF Pending
<1>2. i \notin Pending(t)' => Pending(t)' = Pending(t) \ {i}
    BY DEF Pending
<1>3. Pending(t)' \subseteq Slots
    BY <1>1
<1>4. Cardinality(Pending(t)) \in Nat /\ Cardinality(Pending(t)') \in Nat
    BY <1>1, <1>3, PendingCounted
<1>5. Cardinality(Pending(t)') <= Cardinality(Pending(t))
    BY <1>1, PendingCounted
<1>6. i \in Pending(t) => Cardinality(Pending(t)) >= 1
    BY <1>1, PendingCounted
<1>7. i \in Pending(t) => Cardinality(Pending(t) \ {i}) = Cardinality(Pending(t)) - 1
    BY <1>1, PendingCounted
<1> QED
    BY <1>2, <1>4, <1>5, <1>6, <1>7

LEMMA BeginKeeps ==
    ASSUME RouterTypeOK, NEW t \in Tasks, NEW i \in Slots, TaskInv(t), Begin(<<t, i>>)
    PROVE  TaskInv(t)'
<1> DEFINE r == <<t, i>>
<1>1. r \in Runs /\ r[1] = t /\ run \in [Runs -> RunState]
    BY DEF Runs, RouterTypeOK, RunState
<1>2. /\ run[r].at = "scheduled" /\ run[r].event = NoRow /\ task[t].phase # "new"
      /\ UNCHANGED <<token, stored, active, rolling, applied, ordered, cancelled>>
    BY DEF Begin, TaskInv, RunShape, Shape, Waiting
<1>3. CASE run' = [run EXCEPT ![r] = Idle] /\ UNCHANGED <<task, row>>
    <2>1. /\ run'[r].at = "idle" /\ run'[r].event = NoRow
          /\ \A j \in Slots \ {i} : run'[<<t, j>>] = run[<<t, j>>]
        BY <1>1, <1>3, OtherRuns DEF Idle
    <2>2. /\ Gated(t)' = Gated(t)
          /\ Cardinality(Pending(t)) \in Nat /\ Cardinality(Pending(t)') \in Nat
          /\ Cardinality(Pending(t)') <= Cardinality(Pending(t))
        BY <1>3, <2>1, PendingStep DEF Gated, Pending
    <2>3. Shape(t)' /\ RunShape(t)' /\ Written(t)'
        BY <1>2, <1>3, <2>1
           DEF TaskInv, Shape, RunShape, Written, Waiting, NoRow
    <2>4. Gating(t)' /\ Exclusion(t)' /\ Marked(t)'
        BY <1>2, <1>3, <2>1, <2>2
           DEF TaskInv, Gating, Exclusion, Marked, Waiting, Working, NoRow, Resumable
    <2>5. applied[t] \in Nat /\ ordered[t] \in Nat
        BY Typed
    <2>6. Counted(t)' /\ Called(t)'
        BY <1>2, <1>3, <2>1, <2>2, <2>5
           DEF TaskInv, Counted, Called, NoRow, Startable, Resumable
    <2> QED
        BY <2>3, <2>4, <2>6 DEF TaskInv
<1>4. CASE /\ run' = [run EXCEPT ![r].at = "begun", ![r].preparing = Gated(t)]
           /\ Touch(t, [task[t] EXCEPT
                     !.phase = IF Gated(t) THEN "analyzing" ELSE "executing"])
    <2> DEFINE new == [task[t] EXCEPT
                          !.phase = IF Gated(t) THEN "analyzing" ELSE "executing"]
    <2>0. task[t] \in StoredTask
        BY Typed
    <2>1. /\ new \in StoredTask /\ SameFlags(new, task[t])
          /\ new.phase = IF Gated(t) THEN "analyzing" ELSE "executing"
          /\ new.prepared = task[t].prepared
        BY <2>0, NewTaskTyped DEF StoredTask, SameFlags, Phases
    <2>2. Touch(t, new)
        BY <1>4
    <2> HIDE DEF new
    <2>3. task'[t] = new /\ row'[t] = IF t \in stored THEN new ELSE row[t]
        BY <2>1, <2>2, TouchTyped
    <2>4. Gated(t) \in BOOLEAN
        BY <2>0 DEF Gated, StoredTask
    <2>5. /\ run'[r].at = "begun" /\ run'[r].preparing = Gated(t)
          /\ run'[r].event = NoRow
          /\ \A j \in Slots \ {i} : run'[<<t, j>>] = run[<<t, j>>]
        <3>1. \A q \in Runs \ {r} : run'[q] = run[q]
            BY <1>1, <1>4
        <3>2. \A j \in Slots \ {i} : run'[<<t, j>>] = run[<<t, j>>]
            BY <3>1, OtherRuns
        <3> QED
            BY <1>1, <1>2, <1>4, <2>4, <3>2 DEF RunState
    <2>6. /\ Gated(t)' = Gated(t)
          /\ Cardinality(Pending(t)) \in Nat /\ Cardinality(Pending(t)') \in Nat
          /\ Cardinality(Pending(t)') <= Cardinality(Pending(t))
        BY <1>2, <2>1, <2>3, <2>5, PendingStep DEF Gated, Pending, SameFlags
    <2>7. Gated(t) => ~task[t].prepared
        BY <1>2 DEF TaskInv, Gating
    <2>8. Shape(t)' /\ RunShape(t)' /\ Written(t)'
        BY <1>2, <2>1, <2>3, <2>5
           DEF TaskInv, Shape, RunShape, Written, Waiting, NoRow, SameFlags
    <2>9. Gating(t)'
        BY <1>2, <2>1, <2>3, <2>5, <2>6, <2>7
           DEF TaskInv, Gating, Waiting, NoRow, Resumable
    <2>10. Exclusion(t)' /\ Marked(t)'
        BY <1>2, <2>1, <2>3, <2>5, <2>6
           DEF TaskInv, Exclusion, Marked, Waiting, Working, NoRow, Resumable,
               Startable
    <2>11. applied[t] \in Nat /\ ordered[t] \in Nat
        BY Typed
    <2>12. Counted(t)' /\ Called(t)'
        BY <1>2, <2>1, <2>3, <2>5, <2>6, <2>11
           DEF TaskInv, Counted, Called, NoRow, Startable, Resumable
    <2> QED
        BY <2>8, <2>9, <2>10, <2>12 DEF TaskInv
<1> QED
    BY <1>1, <1>3, <1>4 DEF Begin

LEMMA RegisterKeeps ==
    ASSUME RouterTypeOK, NEW t \in Tasks, NEW i \in Slots, TaskInv(t),
           Register(<<t, i>>)
    PROVE  TaskInv(t)'
<1> DEFINE r == <<t, i>>
<1>1. r \in Runs /\ r[1] = t /\ run \in [Runs -> RunState]
    BY DEF Runs, RouterTypeOK, RunState
<1>2. /\ run[r].at = "begun" /\ run[r].event = NoRow /\ task[t].phase # "new"
      /\ task[t].phase \notin Startable
      /\ UNCHANGED <<task, row, token, stored, rolling, applied, ordered, cancelled>>
      /\ active' = active \cup {t}
    BY DEF Register, TaskInv, RunShape, Shape, Exclusion, Waiting, storeVars
<1>3. /\ run'[r].at = IF t \in active THEN "refused" ELSE "registered"
      /\ run'[r].event = NoRow /\ run'[r].preparing = run[r].preparing
      /\ \A j \in Slots \ {i} : run'[<<t, j>>] = run[<<t, j>>]
    <2>1. \A q \in Runs \ {r} : run'[q] = run[q]
        BY <1>1 DEF Register
    <2>2. \A j \in Slots \ {i} : run'[<<t, j>>] = run[<<t, j>>]
        BY <2>1, OtherRuns
    <2> QED
        BY <1>1, <1>2, <2>2 DEF Register, RunState
<1>4. /\ Gated(t)' = Gated(t)
      /\ Cardinality(Pending(t)) \in Nat /\ Cardinality(Pending(t)') \in Nat
      /\ Cardinality(Pending(t)') <= Cardinality(Pending(t))
    BY <1>2, <1>3, PendingStep DEF Gated, Pending
<1>5. Shape(t)' /\ RunShape(t)' /\ Written(t)'
    BY <1>2, <1>3 DEF TaskInv, Shape, RunShape, Written, Waiting, NoRow
<1>6. Gating(t)' /\ Marked(t)'
    BY <1>2, <1>3, <1>4 DEF TaskInv, Gating, Marked, Waiting, NoRow, Resumable
<1>7. Exclusion(t)'
    BY <1>2, <1>3 DEF TaskInv, Exclusion, Waiting, Working
<1>8. applied[t] \in Nat /\ ordered[t] \in Nat
    BY Typed
<1>9. Counted(t)' /\ Called(t)'
    BY <1>2, <1>3, <1>4, <1>8
       DEF TaskInv, Counted, Called, NoRow, Startable, Resumable
<1> QED
    BY <1>5, <1>6, <1>7, <1>9 DEF TaskInv
\* What the reports of a run keep.  A run that backs up or changes files was not
\* told to stop, and had written what it reported before.
LEMMA ReportKeeps ==
    ASSUME RouterTypeOK, NEW t \in Tasks, NEW i \in Slots, TaskInv(t),
           NEW at \in {"analysing", "saving", "changing", "ended"},
           NEW status \in {"analyzing", "backing_up", "applying_patch",
                           "succeeded", "dry_run"} \cup Removable,
           Report(<<t, i>>, at, status),
           run[<<t, i>>].at \in Working,
           at \in {"analysing", "saving"} => run[<<t, i>>].at # "changing",
           at = "analysing" <=> status = "analyzing",
           at # "ended" => t \notin token,
           at = "ended" => /\ status \in Removable \cup {"succeeded", "dry_run"}
                           /\ status = "dry_run" => run[<<t, i>>].preparing,
           active' = IF at = "ended" THEN active \ {t} ELSE active,
           \/ applied'[t] = applied[t]
           \/ /\ run[<<t, i>>].at = "saving" /\ at = "changing"
              /\ ~run[<<t, i>>].preparing /\ applied'[t] = applied[t] + 1
    PROVE  TaskInv(t)'
<1> DEFINE r == <<t, i>>
<1>1. /\ UNCHANGED <<row, token, stored, ordered, cancelled, rolling>>
      /\ run[r].event = NoRow
    BY DEF Report, storeVars
<1>2. /\ task'[t].phase = PhaseOfEvent(t, status)
      /\ SameFlags(task'[t], task[t]) /\ task'[t].prepared = task[t].prepared
      /\ run'[r].at = at /\ run'[r].status = status
      /\ run'[r].preparing = run[r].preparing
      /\ run'[r].event = IF t \in stored THEN task'[t] ELSE NoRow
    <2>1. Report(r, at, status)
        OBVIOUS
    <2> HIDE DEF r
    <2> QED
        BY <2>1, ReportTyped DEF r
<1>3. \A j \in Slots \ {i} : run'[<<t, j>>] = run[<<t, j>>]
    BY ReportTyped, OtherRuns
<1>4. Gated(t)' = Gated(t)
    BY <1>2 DEF Gated, SameFlags
<1>5. /\ task'[t].phase \notin Startable \cup {"new"}
      /\ task'[t].phase \in Resumable /\ ~Gated(t) => at = "analysing"
    <2>1. /\ PhaseOfEvent(t, status) \in Phases \ (Startable \cup {"new"})
          /\ status # "analyzing" /\ ~Gated(t)
                 => PhaseOfEvent(t, status) \notin Resumable
        BY PhasesTyped
    <2> QED
        BY <1>2, <2>1
<1>6. run[r].preparing <=> Gated(t)
    BY DEF TaskInv, Gating, Working, Waiting
<1>7. Gated(t) => ~task[t].prepared
    BY DEF TaskInv, Gating, Working
<1>8. \A j \in Slots \ {i} : run[<<t, j>>].at \notin Working
    BY DEF TaskInv, Exclusion
<1>9. task[t].phase # "new"
    BY DEF TaskInv, Shape, Working
<1>10. Shape(t)' /\ RunShape(t)' /\ Written(t)'
    BY <1>1, <1>2, <1>3, <1>5, <1>9
       DEF TaskInv, Shape, RunShape, Written, Waiting, NoRow, SameFlags
<1>11. Gating(t)'
    BY <1>1, <1>2, <1>3, <1>4, <1>6, <1>7
       DEF TaskInv, Gating, Working, Waiting, NoRow
<1>12. Exclusion(t)'
    BY <1>2, <1>3, <1>5, <1>8 DEF TaskInv, Exclusion, Working, Waiting
<1>13. Marked(t)'
    <2>1. t \in stored \/ t \in token \/ row[t].phase \notin Resumable \/ Gated(t)
        BY DEF TaskInv, Marked
    <2>2. \A j \in Slots \ {i} : run'[<<t, j>>].at \notin {"saving", "changing"}
        BY <1>3, <1>8 DEF Working
    <2>3. NoRow.phase \notin Resumable
        BY DEF NoRow, Resumable
    <2>4. t \in stored => run'[r].event # NoRow
        BY <1>2, <1>5 DEF NoRow
    <2>5. \A j \in Slots : run'[<<t, j>>].event.phase \in Resumable /\ ~Gated(t)
              => run'[<<t, j>>].at = "analysing"
        BY <1>2, <1>3, <1>5, <2>3 DEF TaskInv, Marked
    <2>6. \A j \in Slots : run'[<<t, j>>].at \in {"saving", "changing"} /\ ~Gated(t)
              => task'[t].phase \notin Resumable
        BY <1>2, <1>5, <2>2
    <2>7. \A j \in Slots : run'[<<t, j>>].at = "saving"
              /\ run'[<<t, j>>].event = NoRow /\ ~Gated(t)
                  => row[t].phase \notin Resumable
        BY <1>2, <2>1, <2>2, <2>4
    <2>8. t \notin stored /\ ~Gated(t) =>
              \A j \in Slots : run'[<<t, j>>].event.phase \in Resumable => t \in token
        BY <1>2, <1>3, <2>3 DEF TaskInv, Marked
    <2>9. t \notin stored /\ ~Gated(t) => (row[t].phase \in Resumable => t \in token)
        BY DEF TaskInv, Marked
    <2> QED
        BY <1>1, <1>4, <2>5, <2>6, <2>7, <2>8, <2>9 DEF Marked
<1>14. Counted(t)'
    <2>1. /\ Cardinality(Pending(t)) \in Nat /\ Cardinality(Pending(t)') \in Nat
          /\ Cardinality(Pending(t)') <= Cardinality(Pending(t))
          /\ i \in Pending(t) => Cardinality(Pending(t)) >= 1
          /\ i \in Pending(t) /\ i \notin Pending(t)'
                 => Cardinality(Pending(t)') = Cardinality(Pending(t)) - 1
        BY <1>2, <1>3, PendingStep DEF Pending, Working
    <2>2. applied[t] \in Nat /\ ordered[t] \in Nat
        BY Typed
    <2>3. CASE applied'[t] = applied[t]
        <3>1. at = "analysing" => i \in Pending(t)
            BY DEF Pending, Working
        <3> QED
            BY <1>1, <1>4, <1>5, <2>1, <2>2, <2>3, <3>1 DEF TaskInv, Counted
    <2>4. CASE /\ run[r].at = "saving" /\ at = "changing"
               /\ ~run[r].preparing /\ applied'[t] = applied[t] + 1
        <3>1. i \in Pending(t) /\ i \notin Pending(t)'
            BY <1>2, <2>4 DEF Pending
        <3>2. row[t].phase \notin Resumable
            BY <1>1, <1>6, <2>4 DEF TaskInv, Marked
        <3> QED
            BY <1>1, <1>4, <1>5, <1>6, <2>1, <2>2, <2>4, <3>1, <3>2
               DEF TaskInv, Counted
    <2> QED
        BY <2>3, <2>4
<1>15. Called(t)'
    <2>1. run[r].at # "idle"
        BY DEF Working
    <2>2. cancelled[t] = "recorded" /\ ~Gated(t) => t \in token
        BY <2>1 DEF TaskInv, Called
    <2>3. NoRow.phase \notin Startable \cup Resumable
        BY DEF NoRow, Startable, Resumable
    <2> QED
        BY <1>1, <1>2, <1>3, <1>4, <1>5, <2>2, <2>3 DEF TaskInv, Called
<1> QED
    BY <1>10, <1>11, <1>12, <1>13, <1>14, <1>15 DEF TaskInv

LEMMA StagesKeep ==
    ASSUME RouterTypeOK, NEW t \in Tasks, NEW i \in Slots, TaskInv(t),
           \/ Analyse(<<t, i>>) \/ BackUp(<<t, i>>) \/ Apply(<<t, i>>)
           \/ \E status \in Removable \cup {"dry_run", "succeeded"} :
                  Finish(<<t, i>>, status)
    PROVE  TaskInv(t)'
<1> DEFINE r == <<t, i>>
<1>0. r[1] = t /\ applied \in [Tasks -> Nat]
    BY DEF RouterTypeOK
<1>1. CASE Analyse(r)
    BY <1>0, <1>1, ReportKeeps DEF Analyse, Working
<1>2. CASE BackUp(r)
    BY <1>0, <1>2, ReportKeeps DEF BackUp, Working
<1>3. CASE Apply(r)
    <2>1. \/ applied'[t] = applied[t]
          \/ ~run[r].preparing /\ applied'[t] = applied[t] + 1
        BY <1>0, <1>3 DEF Apply
    <2> QED
        BY <1>0, <1>3, <2>1, ReportKeeps DEF Apply, Working
<1>4. ASSUME NEW status \in Removable \cup {"dry_run", "succeeded"},
             Finish(r, status)
      PROVE  TaskInv(t)'
    <2>1. status = "dry_run" => run[r].preparing
        BY <1>4 DEF Finish, Outcomes, Removable
    <2>2. /\ Report(r, "ended", status) /\ run[r].at \in Working
          /\ active' = active \ {t} /\ applied' = applied
        BY <1>0, <1>4 DEF Finish, Working
    <2>3. /\ status \in Removable \cup {"succeeded", "dry_run"}
          /\ status # "analyzing"
        BY <1>4 DEF Removable
    <2> QED
        BY <2>1, <2>2, <2>3, ReportKeeps
<1> QED
    BY <1>1, <1>2, <1>3, <1>4

\* An event that is written late says nothing that must not be said any more.
LEMMA PersistKeeps ==
    ASSUME RouterTypeOK, NEW t \in Tasks, NEW i \in Slots, TaskInv(t),
           Persist(<<t, i>>)
    PROVE  TaskInv(t)'
<1> DEFINE r == <<t, i>>
<1>1. r \in Runs /\ r[1] = t /\ run \in [Runs -> RunState]
    BY DEF Runs, RouterTypeOK, RunState
<1>2. /\ run[r].at \in {"analysing", "saving", "changing", "ended"}
      /\ run[r].event.phase # "new" /\ SameFlags(run[r].event, task[t])
      /\ task[t].phase # "new"
      /\ UNCHANGED <<task, token, stored, active, rolling, applied, ordered,
                     cancelled>>
    BY <1>1 DEF Persist, TaskInv, RunShape, Shape, Waiting, RunState
<1>3. row'[t] = run[r].event
    BY <1>1 DEF Persist, RouterTypeOK
<1>4. /\ run'[r].at = run[r].at /\ run'[r].event = NoRow
      /\ run'[r].preparing = run[r].preparing /\ run'[r].status = run[r].status
      /\ \A j \in Slots \ {i} : run'[<<t, j>>] = run[<<t, j>>]
    <2>1. \A q \in Runs \ {r} : run'[q] = run[q]
        BY <1>1 DEF Persist
    <2>2. \A j \in Slots \ {i} : run'[<<t, j>>] = run[<<t, j>>]
        BY <2>1, OtherRuns
    <2> QED
        BY <1>1, <2>2 DEF Persist, RunState
<1>5. \A j \in Slots : /\ run'[<<t, j>>].at = run[<<t, j>>].at
                       /\ run'[<<t, j>>].preparing = run[<<t, j>>].preparing
                       /\ run'[<<t, j>>].status = run[<<t, j>>].status
                       /\ run'[<<t, j>>].event \in {run[<<t, j>>].event, NoRow}
                       /\ j # i => run'[<<t, j>>].event = run[<<t, j>>].event
    BY <1>4
<1>6. Gated(t)' = Gated(t) /\ Pending(t)' = Pending(t)
    BY <1>2, <1>5 DEF Gated, Pending
<1>7. /\ NoRow.phase = "new" /\ ~NoRow.prepared
    BY DEF NoRow
<1>8. run[r].event.phase \in Resumable /\ ~Gated(t) => run[r].at = "analysing"
    BY DEF TaskInv, Marked
<1>9. Shape(t)' /\ RunShape(t)' /\ Written(t)'
    <2>1. Shape(t)'
        BY <1>2, <1>3, <1>5 DEF TaskInv, Shape
    <2>2. RunShape(t)'
        BY <1>2, <1>5, <1>7 DEF TaskInv, RunShape
    <2>3. Written(t)'
        BY <1>2, <1>5 DEF Written, Waiting
    <2> QED
        BY <2>1, <2>2, <2>3
<1>10. Gating(t)' /\ Exclusion(t)'
    <2>1. Gating(t)'
        BY <1>2, <1>3, <1>5, <1>6, <1>7 DEF TaskInv, Gating
    <2>2. Exclusion(t)'
        BY <1>2, <1>5 DEF TaskInv, Exclusion
    <2> QED
        BY <2>1, <2>2
<1>11. Marked(t)'
    <2>1. ASSUME NEW j \in Slots, ~Gated(t), run[<<t, j>>].at = "saving",
                 run'[<<t, j>>].event = NoRow
          PROVE  row'[t].phase \notin Resumable
        <3>1. run[r].at = "analysing" => FALSE
            BY <2>1 DEF TaskInv, Exclusion, Working
        <3> QED
            BY <1>3, <1>8, <2>1, <3>1
    <2> QED
        BY <1>2, <1>3, <1>5, <1>6, <1>7, <2>1 DEF TaskInv, Marked, Resumable
<1>12. Counted(t)'
    <2>1. applied[t] \in Nat /\ ordered[t] \in Nat
          /\ Cardinality(Pending(t)) \in Nat
        BY Typed, PendingCounted DEF Pending
    <2>2. run[r].at = "analysing" => Cardinality(Pending(t)) >= 1
        <3>1. run[r].at = "analysing" => i \in Pending(t)
            BY DEF Pending
        <3>2. Pending(t) \subseteq Slots
            BY DEF Pending
        <3> QED
            BY <3>1, <3>2, PendingCounted
    <2> QED
        BY <1>2, <1>3, <1>6, <1>8, <2>1, <2>2 DEF TaskInv, Counted
<1>13. Called(t)'
    BY <1>2, <1>3, <1>5, <1>6, <1>7
       DEF TaskInv, Called, Startable, Resumable
<1> QED
    BY <1>9, <1>10, <1>11, <1>12, <1>13 DEF TaskInv

\* A run that stores its result, or that it was refused, leaves a task nobody
\* has to resume.  Only a preparation leaves one that waits for approval.
LEMMA EndKeeps ==
    ASSUME RouterTypeOK, NEW t \in Tasks, NEW i \in Slots, TaskInv(t),
           run[<<t, i>>].at \in {"ended", "refused"}, run[<<t, i>>].event = NoRow,
           run' = [run EXCEPT ![<<t, i>>] = Idle],
           NEW new \in StoredTask, Touch(t, new), SameFlags(new, task[t]),
           new.phase \in Removable \/ (new.phase = "awaiting_approval" /\ Gated(t)),
           new.prepared = task[t].prepared \/ Gated(t),
           UNCHANGED <<token, stored, active, rolling, applied, ordered, cancelled>>
    PROVE  TaskInv(t)'
<1> DEFINE r == <<t, i>>
<1>1. r \in Runs /\ run \in [Runs -> RunState]
    BY DEF Runs, RouterTypeOK, RunState
<1>2. /\ run'[r].at = "idle" /\ run'[r].event = NoRow
      /\ \A j \in Slots \ {i} : run'[<<t, j>>] = run[<<t, j>>]
    <2>1. \A q \in Runs \ {r} : run'[q] = run[q]
        BY <1>1
    <2> QED
        BY <1>1, <2>1, OtherRuns DEF Idle
<1>3. /\ task'[t] = new /\ row'[t] = IF t \in stored THEN new ELSE row[t]
    BY TouchTyped
<1>4. Gated(t)' = Gated(t)
    BY <1>3 DEF Gated, SameFlags
<1>5. Pending(t)' = Pending(t)
    BY <1>2 DEF Pending
<1>6. /\ task[t].phase # "new"
      /\ new.phase \notin Resumable \cup {"new"}
      /\ new.phase \in Startable => Gated(t)
    BY DEF TaskInv, Shape, Resumable, Startable, Removable
<1>7. Gated(t) => \A j \in Slots : run'[<<t, j>>].at = "idle"
    BY <1>2 DEF TaskInv, Gating
<1>8. Shape(t)' /\ RunShape(t)' /\ Written(t)'
    <2>1. Shape(t)'
        BY <1>3, <1>6 DEF TaskInv, Shape, SameFlags
    <2>2. RunShape(t)'
        BY <1>2, <1>3 DEF TaskInv, RunShape, SameFlags, NoRow
    <2>3. Written(t)'
        BY <1>3 DEF Written
    <2> QED
        BY <2>1, <2>2, <2>3
<1>9. Gating(t)' /\ Exclusion(t)'
    <2>1. Gating(t)'
        BY <1>2, <1>3, <1>4, <1>6, <1>7 DEF TaskInv, Gating, Waiting, NoRow
    <2>2. Exclusion(t)'
        BY <1>2, <1>3, <1>6, <1>7 DEF TaskInv, Exclusion, Waiting, Working
    <2> QED
        BY <2>1, <2>2
<1>10. Marked(t)'
    BY <1>2, <1>3, <1>4, <1>6 DEF TaskInv, Marked, NoRow, Resumable
<1>11. Counted(t)'
    BY <1>3, <1>4, <1>5, <1>6 DEF TaskInv, Counted
<1>12. Called(t)'
    BY <1>2, <1>3, <1>4, <1>6 DEF TaskInv, Called, NoRow, Startable, Resumable
<1> QED
    BY <1>8, <1>9, <1>10, <1>11, <1>12 DEF TaskInv

LEMMA ThreadKeeps ==
    ASSUME RouterTypeOK, NEW t \in Tasks, NEW i \in Slots, TaskInv(t),
           Thread(<<t, i>>)
    PROVE  TaskInv(t)'
<1> DEFINE r == <<t, i>>
<1>1. r[1] = t /\ task[t] \in StoredTask
    BY Typed
<1>2. ASSUME NEW patch \in BOOLEAN, StoreResult(r, patch)
      PROVE  TaskInv(t)'
    <2> DEFINE status == run[r].status
               new == [task[t] EXCEPT !.phase = PhaseOfResult(status),
                          !.prepared = IF status = "dry_run" THEN patch ELSE @]
    <2>1. /\ run[r].at = "ended" /\ run[r].event = NoRow
          /\ run' = [run EXCEPT ![r] = Idle] /\ Touch(t, new)
          /\ UNCHANGED <<token, stored, active, rolling, applied, ordered, cancelled>>
        BY <1>1, <1>2 DEF StoreResult
    <2>2. /\ status \in Removable \cup {"succeeded", "dry_run"}
          /\ status = "dry_run" => Gated(t)
        BY <2>1 DEF TaskInv, RunShape, Gating, Waiting
    <2>3. /\ PhaseOfResult(status) \in Removable \cup {"awaiting_approval"}
          /\ status # "dry_run" => PhaseOfResult(status) \in Removable
        <3> HIDE DEF status
        <3> QED
            BY <2>2, PhasesTyped
    <2>4. /\ new \in StoredTask /\ new.phase = PhaseOfResult(status)
          /\ SameFlags(new, task[t])
          /\ status # "dry_run" => new.prepared = task[t].prepared
        <3> HIDE DEF status
        <3> QED
            BY <1>1, <2>3 DEF StoredTask, Phases, SameFlags
    <2> HIDE DEF new, status
    <2> QED
        BY <2>1, <2>2, <2>3, <2>4, EndKeeps
<1>3. CASE StoreFailure(r)
    <2> DEFINE new == [task[t] EXCEPT !.phase = "failed"]
    <2>1. /\ run[r].at = "refused" /\ run' = [run EXCEPT ![r] = Idle]
          /\ Touch(t, new)
          /\ UNCHANGED <<token, stored, active, rolling, applied, ordered, cancelled>>
        BY <1>1, <1>3 DEF StoreFailure
    <2>2. run[r].event = NoRow
        BY <2>1 DEF TaskInv, RunShape
    <2>3. /\ new \in StoredTask /\ new.phase \in Removable
          /\ SameFlags(new, task[t]) /\ new.prepared = task[t].prepared
        BY <1>1 DEF StoredTask, Phases, Removable, SameFlags
    <2> HIDE DEF new
    <2> QED
        BY <2>1, <2>2, <2>3, EndKeeps
<1> QED
    BY <1>2, <1>3, BeginKeeps, RegisterKeeps, StagesKeep, PersistKeeps DEF Thread

----------------------------------------------------------------------------
(* The restart, and every step.                                            *)

LEMMA RestartKeeps ==
    ASSUME RouterTypeOK, NEW t \in Tasks, TaskInv(t), Restart
    PROVE  TaskInv(t)'
<1>1. PICK chosen \in Slots : \A i \in Slots :
          /\ run'[<<t, i>>].event = NoRow
          /\ run'[<<t, i>>].at =
                 IF t \in stored' /\ row[t].phase \in Resumable /\ i = chosen
                   THEN "scheduled" ELSE "idle"
    BY RestartTyped
<1>2. /\ t \in stored' <=> row[t] # NoRow
      /\ t \notin active' /\ t \notin rolling'
      /\ UNCHANGED <<applied, ordered, cancelled>>
    BY RestartTyped DEF Restart
<1>3. NoRow.phase = "new" /\ ~NoRow.prepared /\ "new" \notin Resumable \cup Startable
    BY DEF NoRow, Resumable, Startable
<1>4. t \in stored' <=> row[t].phase # "new"
    BY <1>2, <1>3 DEF TaskInv, Shape
<1>5. \A i \in Slots : run'[<<t, i>>].at \in Waiting
    BY <1>1 DEF Waiting
<1>6. applied[t] \in Nat /\ ordered[t] \in Nat
      /\ Cardinality(Pending(t)) \in Nat
    BY Typed, PendingCounted DEF Pending
<1>7. RunShape(t)' /\ Exclusion(t)'
    BY <1>1, <1>3, <1>5 DEF RunShape, Exclusion, Waiting, Working
<1>8. CASE t \in stored'
    <2>1. /\ row'[t] = task'[t] /\ SameFlags(task'[t], row[t])
          /\ task'[t].prepared = row[t].prepared
          /\ task'[t].phase # "new"
          /\ task'[t].phase \in Resumable => row[t].phase \in Resumable
          /\ task'[t].phase \in Startable => row[t].phase \in Startable \cup Resumable
        BY <1>4, <1>8, RestartTyped, RecoveredTyped, Typed
    <2>2. Gated(t)' = Gated(t)
        BY <1>4, <1>8, <2>1 DEF TaskInv, Shape, Gated, SameFlags
    <2>3. Shape(t)' /\ Written(t)'
        BY <1>8, <2>1 DEF Shape, Written, SameFlags
    <2>4. Gating(t)' /\ Marked(t)'
        BY <1>1, <1>3, <1>5, <1>8, <2>1, <2>2
           DEF TaskInv, Gating, Marked, Waiting
    <2>5. Counted(t)'
        <3>1. /\ Pending(t)' \subseteq {chosen}
              /\ row[t].phase \notin Resumable => Pending(t)' = {}
            BY <1>1 DEF Pending
        <3>2. /\ IsFiniteSet({chosen}) /\ Cardinality({chosen}) = 1
              /\ Cardinality({}) = 0
            BY FS_EmptySet, FS_Singleton
        <3>3. /\ Cardinality(Pending(t)') \in Nat /\ Cardinality(Pending(t)') <= 1
            BY <3>1, <3>2, FS_Subset, FS_CardinalityType
        <3>4. CASE Gated(t)
            BY <1>2, <2>2, <3>4 DEF TaskInv, Counted
        <3>5. CASE ~Gated(t) /\ row[t].phase \in Resumable
            <4>1. applied[t] < ordered[t]
                BY <3>5 DEF TaskInv, Counted
            <4>2. applied[t] + Cardinality(Pending(t)') <= ordered[t]
                BY <1>6, <3>3, <4>1
            <4> QED
                BY <1>2, <2>2, <3>5, <4>1, <4>2 DEF Counted
        <3>6. CASE ~Gated(t) /\ row[t].phase \notin Resumable
            <4>1. applied[t] + Cardinality(Pending(t)') <= ordered[t]
                <5>1. Cardinality(Pending(t)') = 0
                    BY <3>1, <3>2, <3>6
                <5>2. applied[t] + Cardinality(Pending(t)) <= ordered[t]
                    BY <3>6 DEF TaskInv, Counted
                <5> QED
                    BY <1>6, <5>1, <5>2
            <4> QED
                BY <1>2, <2>1, <2>2, <3>6, <4>1 DEF Counted
        <3> QED
            BY <3>4, <3>5, <3>6
    <2>6. Called(t)'
        BY <1>1, <1>2, <1>3, <2>1, <2>2 DEF TaskInv, Called
    <2> QED
        BY <1>7, <2>3, <2>4, <2>5, <2>6 DEF TaskInv
<1>9. CASE t \notin stored'
    <2>1. task'[t] = task[t] /\ row'[t] = NoRow
        BY <1>9, RestartTyped
    <2>2. \A i \in Slots : run'[<<t, i>>].at = "idle"
        BY <1>1, <1>9
    <2>3. Gated(t)' = Gated(t) /\ Pending(t)' = {}
        BY <2>1, <2>2 DEF Gated, Pending
    <2>4. Shape(t)' /\ Written(t)'
        BY <1>2, <1>3, <1>9, <2>1, <2>2 DEF TaskInv, Shape, Written
    <2>5. Gating(t)' /\ Marked(t)'
        BY <1>1, <1>3, <2>1, <2>2, <2>3 DEF Gating, Marked, Waiting
    <2>6. Counted(t)'
        BY <1>2, <1>3, <1>6, <2>1, <2>3, FS_EmptySet DEF TaskInv, Counted
    <2>7. Called(t)'
        BY <1>1, <1>2, <1>3, <2>1, <2>2, <2>3 DEF TaskInv, Called
    <2> QED
        BY <1>7, <2>4, <2>5, <2>6, <2>7 DEF TaskInv
<1> QED
    BY <1>8, <1>9

LEMMA InitRouter == RouterInit => RouterInv
<1> SUFFICES ASSUME RouterInit PROVE RouterInv
    OBVIOUS
<1>1. RouterTypeOK
    BY InitTyped
<1>2. KeysKept
    BY IdsAssumption DEF RouterInit, KeysKept
<1>3. ASSUME NEW t \in Tasks PROVE TaskInv(t)
    <2>1. \A i \in Slots : /\ run[<<t, i>>].at = "idle"
                           /\ run[<<t, i>>].event = NoRow
        BY DEF RouterInit, Runs, Idle
    <2>2. /\ task[t] = NoRow /\ row[t] = NoRow /\ applied[t] = 0 /\ ordered[t] = 0
          /\ cancelled[t] = "no" /\ t \notin stored \cup active \cup rolling
        BY DEF RouterInit
    <2>3. ~Gated(t) /\ Pending(t) = {}
        BY <2>1, <2>2 DEF Gated, NoRow, Pending
    <2>4. Shape(t) /\ RunShape(t) /\ Written(t)
        BY <2>1, <2>2 DEF Shape, RunShape, Written, NoRow, Waiting
    <2>5. Gating(t) /\ Exclusion(t) /\ Marked(t)
        BY <2>1, <2>2, <2>3
           DEF Gating, Exclusion, Marked, Waiting, Working, NoRow, Resumable
    <2>6. Counted(t) /\ Called(t)
        BY <2>1, <2>2, <2>3, FS_EmptySet DEF Counted, Called, NoRow, Resumable
    <2> QED
        BY <2>4, <2>5, <2>6 DEF TaskInv
<1> QED
    BY <1>1, <1>2, <1>3 DEF RouterInv

\* What a step of one task leaves of another.
LEMMA OthersKept ==
    ASSUME RouterTypeOK, NEW t \in Tasks, NEW s \in Tasks \ {t}, TaskInv(s),
           \/ Endpoint(t) \/ EndRollback(t) \/ \E i \in Slots : Thread(<<t, i>>)
    PROVE  TaskInv(s)'
<1>0. ASSUME NEW new, Touch(t, new) PROVE task'[s] = task[s] /\ row'[s] = row[s]
    BY <1>0 DEF Touch, RouterTypeOK
<1>1. ASSUME Schedule(t) PROVE \A j \in Slots : run'[<<s, j>>] = run[<<s, j>>]
    BY <1>1, OneMorePending
<1>2. ASSUME Endpoint(t) \/ EndRollback(t) PROVE TaskInv(s)'
    <2>1. ASSUME NEW k, NEW approval, Create(t, k, approval) PROVE TaskInv(s)'
        BY <1>1, <2>1, TaskFrame DEF Create, RouterTypeOK
    <2>2. ASSUME NEW start, Approve(t, start) PROVE TaskInv(s)'
        <3>1. \A j \in Slots : run'[<<s, j>>] = run[<<s, j>>]
            BY <1>1, <2>2 DEF Approve
        <3>2. task'[s] = task[s] /\ row'[s] = row[s]
            BY <1>0, <2>2 DEF Approve
        <3> QED
            BY <2>2, <3>1, <3>2, TaskFrame DEF Approve, RouterTypeOK
    <2>3. CASE Start(t)
        <3>1. \A j \in Slots : run'[<<s, j>>] = run[<<s, j>>]
            BY <1>1, <2>3 DEF Start
        <3>2. task'[s] = task[s] /\ row'[s] = row[s]
            BY <1>0, <2>3 DEF Start
        <3> QED
            BY <2>3, <3>1, <3>2, TaskFrame DEF Start, RouterTypeOK
    <2>4. CASE Reject(t)
        <3>1. task'[s] = task[s] /\ row'[s] = row[s]
            BY <1>0, <2>4 DEF Reject
        <3> QED
            BY <2>4, <3>1, TaskFrame DEF Reject, RouterTypeOK
    <2>5. CASE Cancel(t)
        <3>1. task'[s] = task[s] /\ row'[s] = row[s]
            BY <1>0, <2>5 DEF Cancel
        <3>2. cancelled'[s] = cancelled[s]
            BY <2>5 DEF Cancel, RouterTypeOK
        <3> QED
            BY <2>5, <3>1, <3>2, TaskFrame DEF Cancel
    <2>6. CASE Delete(t) \/ Expire(t)
        <3>1. row'[s] = row[s] /\ (s \in stored' <=> s \in stored)
            BY <2>6, RemoveTyped DEF Delete, Expire
        <3> QED
            BY <2>6, <3>1, TaskFrame DEF Delete, Expire
    <2>7. ASSUME NEW force, BeginRollback(t, force) PROVE TaskInv(s)'
        <3>1. task'[s] = task[s] /\ row'[s] = row[s]
            BY <1>0, <2>7 DEF BeginRollback
        <3> QED
            BY <2>7, <3>1, TaskFrame DEF BeginRollback
    <2>8. CASE EndRollback(t)
        <3>1. task'[s] = task[s] /\ row'[s] = row[s]
            BY <1>0, <2>8 DEF EndRollback
        <3> QED
            BY <2>8, <3>1, TaskFrame DEF EndRollback
    <2> QED
        BY <1>2, <2>1, <2>2, <2>3, <2>4, <2>5, <2>6, <2>7, <2>8 DEF Endpoint
<1>3. ASSUME NEW i \in Slots, Thread(<<t, i>>) PROVE TaskInv(s)'
    <2> DEFINE r == <<t, i>>
    <2>1. r \in Runs /\ r[1] = t /\ run \in [Runs -> RunState]
        BY DEF Runs, RouterTypeOK, RunState
    <2>2. ASSUME \A q \in Runs \ {r} : run'[q] = run[q],
                 task'[s] = task[s], row'[s] = row[s],
                 s \in active' <=> s \in active, applied'[s] = applied[s],
                 UNCHANGED <<token, stored, rolling, ordered, cancelled>>
          PROVE  TaskInv(s)'
        <3>1. \A j \in Slots : run'[<<s, j>>] = run[<<s, j>>]
            BY <2>2, OtherRuns
        <3> QED
            BY <2>2, <3>1, TaskFrame
    <2>3. ASSUME NEW at, NEW status, Report(r, at, status)
          PROVE  /\ \A q \in Runs \ {r} : run'[q] = run[q]
                 /\ task'[s] = task[s] /\ row'[s] = row[s]
                 /\ UNCHANGED <<token, stored, rolling, ordered, cancelled>>
        BY <2>1, <2>3 DEF Report, storeVars, RouterTypeOK
    <2>4. CASE Begin(r)
        <3>1. task'[s] = task[s] /\ row'[s] = row[s]
            BY <1>0, <2>1, <2>4 DEF Begin
        <3>2. \A q \in Runs \ {r} : run'[q] = run[q]
            BY <2>1, <2>4 DEF Begin
        <3> QED
            BY <2>2, <2>4, <3>1, <3>2 DEF Begin
    <2>5. CASE Register(r)
        BY <2>1, <2>2, <2>5 DEF Register, storeVars
    <2>6. CASE Analyse(r) \/ BackUp(r)
        BY <2>2, <2>3, <2>6 DEF Analyse, BackUp
    <2>7. CASE Apply(r)
        <3>1. applied'[s] = applied[s]
            BY <2>1, <2>7 DEF Apply, RouterTypeOK
        <3> QED
            BY <2>2, <2>3, <2>7, <3>1 DEF Apply
    <2>8. CASE Persist(r)
        <3>1. row'[s] = row[s]
            BY <2>1, <2>8 DEF Persist, RouterTypeOK
        <3>2. \A q \in Runs \ {r} : run'[q] = run[q]
            BY <2>1, <2>8 DEF Persist
        <3> QED
            BY <2>2, <2>8, <3>1, <3>2 DEF Persist
    <2>9. ASSUME NEW status, Finish(r, status) PROVE TaskInv(s)'
        BY <2>1, <2>2, <2>3, <2>9 DEF Finish
    <2>10. ASSUME NEW patch, StoreResult(r, patch) PROVE TaskInv(s)'
        <3>1. task'[s] = task[s] /\ row'[s] = row[s]
            BY <1>0, <2>1, <2>10 DEF StoreResult
        <3>2. \A q \in Runs \ {r} : run'[q] = run[q]
            BY <2>1, <2>10 DEF StoreResult
        <3> QED
            BY <2>2, <2>10, <3>1, <3>2 DEF StoreResult
    <2>11. CASE StoreFailure(r)
        <3>1. task'[s] = task[s] /\ row'[s] = row[s]
            BY <1>0, <2>1, <2>11 DEF StoreFailure
        <3>2. \A q \in Runs \ {r} : run'[q] = run[q]
            BY <2>1, <2>11 DEF StoreFailure
        <3> QED
            BY <2>2, <2>11, <3>1, <3>2 DEF StoreFailure
    <2> QED
        BY <1>3, <2>4, <2>5, <2>6, <2>7, <2>8, <2>9, <2>10, <2>11 DEF Thread
<1> QED
    BY <1>2, <1>3

LEMMA NextRouter == RouterInv /\ [RouterNext]_routerVars => RouterInv'
<1> SUFFICES ASSUME RouterInv, [RouterNext]_routerVars PROVE RouterInv'
    OBVIOUS
<1>1. RouterTypeOK /\ KeysKept /\ \A t \in Tasks : TaskInv(t)
    BY DEF RouterInv
<1>2. RouterTypeOK'
    BY <1>1, NextTyped DEF TaskInv
<1>3. KeysKept'
    BY <1>1, NextKeys DEF TaskInv
<1>4. ASSUME NEW s \in Tasks PROVE TaskInv(s)'
    <2>1. TaskInv(s)
        BY <1>1
    <2>2. ASSUME NEW t \in Tasks, Endpoint(t) \/ EndRollback(t) PROVE TaskInv(s)'
        BY <1>1, <2>1, <2>2, EndpointKeeps, OthersKept
    <2>3. ASSUME NEW r \in Runs, Thread(r) PROVE TaskInv(s)'
        <3>1. PICK t \in Tasks, i \in Slots : r = <<t, i>>
            BY DEF Runs
        <3> QED
            BY <1>1, <2>1, <2>3, <3>1, ThreadKeeps, OthersKept
    <2>4. ASSUME NEW k \in Keys, Repeat(k) PROVE TaskInv(s)'
        <3>1. keys[k] \in stored /\ keys[k] \in Tasks /\ Touch(keys[k], task[keys[k]])
              /\ UNCHANGED <<token, stored, run, active, rolling, applied, ordered,
                             cancelled>>
            BY <1>1, <2>4 DEF Repeat, RouterTypeOK
        <3>2. CASE keys[k] = s
            <4>1. task[s] \in StoredTask /\ task[s].phase # "new"
                BY <1>1, <2>1, <3>1, <3>2, Typed DEF TaskInv, Shape
            <4> QED
                BY <1>1, <2>1, <3>1, <3>2, <4>1, TouchKeeps DEF SameFlags
        <3>3. CASE keys[k] # s
            <4>1. task'[s] = task[s] /\ row'[s] = row[s]
                BY <1>1, <3>1, <3>3 DEF Touch, RouterTypeOK
            <4> QED
                BY <2>1, <3>1, <4>1, TaskFrame
        <3> QED
            BY <3>2, <3>3
    <2>5. CASE CommitKey \/ UNCHANGED routerVars
        BY <2>1, <2>5, TaskFrame DEF CommitKey, routerVars, storeVars
    <2>6. CASE Restart
        BY <1>1, <2>1, <2>6, RestartKeeps
    <2> QED
        BY <2>2, <2>3, <2>4, <2>5, <2>6 DEF RouterNext
<1> QED
    BY <1>2, <1>3, <1>4 DEF RouterInv

----------------------------------------------------------------------------
(* The theorems.                                                           *)

\* The inductive invariant: what is in memory, in the rows, in the keys and
\* in the events under way fits together in every state.
THEOREM RouterFits == RouterSpec => []RouterInv
BY InitRouter, NextRouter, PTL DEF RouterSpec

\* Types.
THEOREM RouterTyped == RouterSpec => []RouterTypeOK
<1>1. RouterInv => RouterTypeOK
    BY DEF RouterInv
<1> QED
    BY RouterFits, <1>1, PTL

\* Files change only by a decision of the user that still stands: a task that
\* needs approval is not applied without it, nothing is applied more often than
\* it was ordered (restarts replay no change), and what is recorded as cancelled
\* changes nothing any more.
THEOREM OnlyDecisionsAreApplied == RouterSpec => OnlyDecisionsApplied
<1>1. RouterInv => OnlyApprovedApplied /\ AppliedAsAsked
    <2> SUFFICES ASSUME RouterInv, NEW t \in Tasks
                 PROVE  /\ applied[t] > 0 /\ task[t].approval => task[t].approved
                        /\ applied[t] <= ordered[t]
        BY DEF OnlyApprovedApplied, AppliedAsAsked
    <2>1. applied[t] \in Nat /\ ordered[t] \in Nat
          /\ Cardinality(Pending(t)) \in Nat
        BY Typed, PendingCounted DEF RouterInv, Pending
    <2>2. Counted(t)
        BY DEF RouterInv, TaskInv
    <2> QED
        BY <2>1, <2>2 DEF Counted, Gated
<1>2. RouterInv /\ [RouterNext]_routerVars =>
          [\A t \in Tasks : applied'[t] # applied[t]
              => cancelled[t] # "recorded"]_routerVars
    <2> SUFFICES ASSUME RouterInv, RouterNext, NEW t \in Tasks,
                        applied'[t] # applied[t]
                 PROVE  cancelled[t] # "recorded"
        OBVIOUS
    <2>1. applied \in [Tasks -> Nat] /\ TaskInv(t)
        BY DEF RouterInv, RouterTypeOK
    <2>2. PICK r \in Runs : Apply(r) /\ ~run[r].preparing
        BY DEF RouterNext, Endpoint, Create, Approve, Start, Reject, Cancel, Delete,
               Expire, BeginRollback, EndRollback, Repeat, CommitKey, Restart,
               Thread, Begin, Register, Analyse, BackUp, Apply, Persist, Finish,
               StoreResult, StoreFailure
    <2>3. r[1] = t
        BY <2>1, <2>2, RunParts DEF Apply
    <2>4. PICK i \in Slots : r = <<t, i>>
        BY <2>3, RunParts
    <2>5. run[<<t, i>>].at = "saving" /\ t \notin token /\ ~Gated(t)
        BY <2>1, <2>2, <2>3, <2>4 DEF Apply, TaskInv, Gating, Waiting
    <2> QED
        BY <2>1, <2>5 DEF TaskInv, Called
<1>3. RouterInv => RouterTypeOK
    BY DEF RouterInv
<1> QED
    BY RouterFits, <1>1, <1>2, <1>3, PTL
       DEF RouterSpec, OnlyDecisionsApplied, CancelledAppliesNothing

\* What was answered is remembered: the rows are what the memory holds whenever
\* nothing works on a task, although events are written outside the locks, and
\* a key stands for the task that a client was given for it.
THEOREM AnswersAreRemembered == RouterSpec => []AnswersRemembered
<1>1. RouterInv => AnswersRemembered
    <2> SUFFICES ASSUME RouterInv PROVE AnswersRemembered
        OBVIOUS
    <2>1. ASSUME Quiet, NEW t \in stored PROVE row[t] = task[t]
        <3>1. t \in Tasks /\ \A i \in Slots : <<t, i>> \in Runs
            BY DEF RouterInv, RouterTypeOK, Runs
        <3> QED
            BY <2>1, <3>1 DEF RouterInv, TaskInv, Written, Quiet, Waiting
    <2>2. ASSUME Quiet, NEW k \in Keys PROVE keyRow[k] = keys[k]
        BY <2>2, IdsAssumption DEF RouterInv, KeysKept, Quiet
    <2>3. ASSUME NEW k \in Keys, reply[k] \in stored PROVE keys[k] = reply[k]
        <3>1. NoTask \notin stored
            BY IdsAssumption DEF RouterInv, RouterTypeOK
        <3> QED
            BY <2>3, <3>1 DEF RouterInv, KeysKept
    <2> QED
        BY <2>1, <2>2, <2>3 DEF AnswersRemembered, QuietIsDurable, KeyNamesOneTask
<1> QED
    BY RouterFits, <1>1, PTL

(* ------------------------------- the plan ------------------------------ *)

\* Whatever a model or a client may write: any number of changes and of steps, with
\* any orders and dependencies.
AllDrafts ==
    [files : Seq(Changes), told : BOOLEAN, risk : Risks, needs : SUBSET PlanPaths, long : BOOLEAN,
     steps : Seq([order : Nat, deps : SUBSET Nat, paths : SUBSET PlanPaths])]
PlannerNext ==
    Answer(AllDrafts) \/ Refuse \/ GiveUp \/ Supply(AllDrafts) \/ Convert \/ EditRepository
PlannerSpec == PlannerInit /\ [][PlannerNext]_plannerVars

\* Attempts are counted, and what a plan of the model's has not ended is asked for
\* again.
AttemptsCounted ==
    /\ answers \in Nat /\ moved \in BOOLEAN /\ indexed \subseteq PlanPaths
    /\ asking = "model" => answers <= MaxRepairs
    /\ asking = "supplied" => answers = 0
    /\ plan.files \in Seq(Changes)

PlannerInv ==
    PlannerTypeOK /\ AttemptsCounted /\ StepsInOrder /\ RiskCovered /\ PlanIsGiven

\* One of a set of risks is the highest.
LEMMA HighestIsOne ==
    ASSUME NEW R \in SUBSET Risks, R # {}
    PROVE  Highest(R) \in R /\ \A q \in R : q <= Highest(R)
<1>1. \E r \in R : \A q \in R : q <= r
    <2>1. R \subseteq {1, 2, 3, 4}
        BY DEF Risks
    <2>2. CASE 4 \in R
        BY <2>1, <2>2
    <2>3. CASE 4 \notin R /\ 3 \in R
        BY <2>1, <2>3
    <2>4. CASE 4 \notin R /\ 3 \notin R /\ 2 \in R
        BY <2>1, <2>4
    <2>5. CASE 4 \notin R /\ 3 \notin R /\ 2 \notin R
        <3>1. 1 \in R /\ \A q \in R : q = 1
            BY <2>1, <2>5
        <3> QED
            BY <3>1
    <2> QED
        BY <2>2, <2>3, <2>4, <2>5
<1> QED
    BY <1>1 DEF Highest

LEMMA TwoEnds ==
    ASSUME NEW a, NEW b
    PROVE  <<a>> \o <<b>> = <<a, b>> /\ <<a>> \o <<>> = <<a>>
<1> DEFINE S == {a, b}
<1>1. /\ <<a>> \in Seq(S) /\ <<b>> \in Seq(S) /\ <<a, b>> \in Seq(S)
      /\ Len(<<a>>) = 1 /\ Len(<<b>>) = 1 /\ Len(<<a, b>>) = 2
      /\ <<a>>[1] = a /\ <<b>>[1] = b /\ <<a, b>>[1] = a /\ <<a, b>>[2] = b
    OBVIOUS
<1> HIDE DEF S
<1>2. /\ <<a>> \o <<b>> \in Seq(S) /\ Len(<<a>> \o <<b>>) = 2
      /\ (<<a>> \o <<b>>)[1] = a /\ (<<a>> \o <<b>>)[2] = b
    BY <1>1, ConcatProperties
<1>3. \A i \in 1 .. 2 : (<<a>> \o <<b>>)[i] = <<a, b>>[i]
    BY <1>1, <1>2
<1>4. <<a>> \o <<b>> = <<a, b>>
    BY <1>1, <1>2, <1>3, SeqEqual
<1> QED
    BY <1>1, <1>4, ConcatEmptySeq

\* Where a change begins and ends.
LEMMA EndsAre ==
    ASSUME NEW c \in Changes
    PROVE  /\ c.op = "rename" => Ends(c) = <<c.path, c.to>>
           /\ c.op # "rename" => Ends(c) = <<c.path>>
BY TwoEnds DEF Ends

LEMMA NormalIs ==
    ASSUME NEW c \in Changes
    PROVE  /\ Normal(c) \in Changes /\ Normal(c).path = c.path /\ Normal(c).op = c.op
           /\ c.op = "rename" => Normal(c).to = c.to
           /\ c.op = "delete" => Normal(c).risk >= 2
           /\ Ends(Normal(c)) = Ends(c)
<1>1. /\ Normal(c) \in Changes /\ Normal(c).path = c.path /\ Normal(c).op = c.op
      /\ c.op = "rename" => Normal(c).to = c.to
      /\ c.op = "delete" => Normal(c).risk >= 2
    <2>1. /\ DOMAIN c = {"op", "path", "to", "risk"}
          /\ c = [op |-> c.op, path |-> c.path, to |-> c.to, risk |-> c.risk]
          /\ c.op \in Operations /\ c.path \in PlanPaths
          /\ c.to \in PlanPaths \cup {Nowhere} /\ c.risk \in Risks
        BY DEF Changes
    <2> DEFINE to == IF c.op = "rename" THEN c.to ELSE Nowhere
               risk == IF c.op = "delete" /\ c.risk = 1 THEN 2 ELSE c.risk
    <2>2. Normal(c) = [op |-> c.op, path |-> c.path, to |-> to, risk |-> risk]
        <3>1. Normal(c) = [c EXCEPT !.to = to, !.risk = risk]
            BY <2>1 DEF Normal
        <3> HIDE DEF to, risk
        <3>2. /\ DOMAIN Normal(c) = {"op", "path", "to", "risk"}
              /\ Normal(c).op = c.op /\ Normal(c).path = c.path
              /\ Normal(c).to = to /\ Normal(c).risk = risk
            BY <2>1, <3>1
        <3> QED
            BY <2>1, <3>1
    <2>3. to \in PlanPaths \cup {Nowhere} /\ risk \in Risks /\ (c.op = "rename" => to = c.to)
        BY <2>1 DEF Risks
    <2>4. c.op = "delete" => risk >= 2
        BY <2>1 DEF Risks
    <2> HIDE DEF to, risk
    <2> QED
        BY <2>1, <2>2, <2>3, <2>4 DEF Changes
<1>2. Ends(Normal(c)) = Ends(c)
    BY <1>1, EndsAre
<1> QED
    BY <1>1, <1>2

\* The changes of an accepted plan.
LEMMA NormalisedFiles ==
    ASSUME NEW d \in AllDrafts
    PROVE  /\ Normalised(d).files \in Seq(Changes)
           /\ DOMAIN Normalised(d).files = DOMAIN d.files
           /\ \A i \in DOMAIN d.files : /\ d.files[i] \in Changes
                                        /\ Normalised(d).files[i] = Normal(d.files[i])
           /\ Touched(Normalised(d).files) = Touched(d.files)
<1>1. d.files \in Seq(Changes)
    BY DEF AllDrafts
<1>2. Normalised(d).files = [i \in DOMAIN d.files |-> Normal(d.files[i])]
    BY DEF Normalised
<1>3. \A i \in DOMAIN d.files : d.files[i] \in Changes /\ Normal(d.files[i]) \in Changes
    BY <1>1, NormalIs
<1>4. Normalised(d).files \in Seq(Changes)
    BY <1>1, <1>2, <1>3
<1>5. \A i \in DOMAIN d.files : Ends(Normalised(d).files[i]) = Ends(d.files[i])
    BY <1>2, <1>3, NormalIs
<1>6. Touched(Normalised(d).files) = Touched(d.files)
    BY <1>2, <1>5 DEF Touched
<1> QED
    BY <1>2, <1>3, <1>4, <1>6

(* What Accept makes of a draft, one part of the plan after the other.           *)
LEMMA AcceptedSteps ==
    ASSUME NEW d \in AllDrafts, Accepted(d), NEW i \in DOMAIN Normalised(d).steps
    PROVE  /\ Normalised(d).steps[i].order = i
           /\ Normalised(d).steps[i].deps \subseteq 1 .. i - 1
           /\ Normalised(d).steps[i].paths \subseteq Touched(Normalised(d).files)
<1> DEFINE sorted == Sorted(d.steps)
<1>1. StepsAllowed(sorted, Touched(d.files))
    BY DEF Accepted
<1>2. Normalised(d).steps = Renumbered(sorted)
    BY DEF Normalised
<1> HIDE DEF sorted
<1>3. /\ i \in DOMAIN sorted
      /\ Normalised(d).steps[i] =
            [order |-> i, deps |-> {NewOrder(sorted, e) : e \in sorted[i].deps},
             paths |-> sorted[i].paths]
    BY <1>2 DEF Renumbered
<1>4. \A e \in sorted[i].deps : NewOrder(sorted, e) \in 1 .. i - 1
    BY <1>1, <1>3 DEF StepsAllowed
<1>5. sorted[i].paths \subseteq Touched(d.files)
    BY <1>1, <1>3 DEF StepsAllowed
<1> QED
    BY <1>3, <1>4, <1>5, NormalisedFiles

LEMMA AcceptedRisk ==
    ASSUME NEW d \in AllDrafts, NEW i \in DOMAIN Normalised(d).files
    PROVE  /\ Normalised(d).files[i].risk <= Normalised(d).risk
           /\ Normalised(d).files[i].op = "delete" => Normalised(d).risk >= 2
<1> DEFINE files == Normalised(d).files
           R == {d.risk} \cup {files[j].risk : j \in DOMAIN files}
<1>1. files \in Seq(Changes) /\ d.risk \in Risks
    BY NormalisedFiles DEF AllDrafts
<1>2. Normalised(d).risk = Highest(R)
    BY DEF Normalised, OverallRisk
<1> HIDE DEF files
<1>3. R \in SUBSET Risks
    <2>1. \A j \in DOMAIN files : files[j] \in Changes
        BY <1>1
    <2>2. \A j \in DOMAIN files : files[j].risk \in Risks
        BY <2>1 DEF Changes
    <2> QED
        BY <1>1, <2>2
<1>4. files[i].risk \in R
    BY DEF files
<1> HIDE DEF R
<1>5. Highest(R) \in Risks /\ files[i].risk \in Risks /\ files[i].risk <= Highest(R)
    BY <1>3, <1>4, HighestIsOne
<1>6. files[i].op = "delete" => files[i].risk >= 2
    <2>1. d.files[i] \in Changes /\ files[i] = Normal(d.files[i])
        BY NormalisedFiles DEF files
    <2> QED
        BY <2>1, NormalIs
<1> QED
    BY <1>2, <1>5, <1>6 DEF files, Risks

\* What a plan says of the repository, and of its changes, once it is accepted.
PlanFits(p) ==
    \A i \in DOMAIN p.files :
        LET c == p.files[i]
        IN /\ (c.path \in OnDisk) = (c.op # "create") /\ Placed(c) \cap OnDisk = {}
           /\ OfFiles(c, present) => Possible(c, present)
           /\ \A j \in DOMAIN p.files \ {i} :
                 LET e == p.files[j]
                 IN OfFiles(c, present) /\ OfFiles(e, present) /\ Disjoint(c, e) =>
                        Possible(c, Effect(e, present))

\* What one change leaves, another one finds.
LEMMA ChangesCommute ==
    ASSUME NEW c \in Changes, NEW e \in Changes, NEW files \in SUBSET PlanPaths,
           Possible(c, files), OfFiles(c, files), OfFiles(e, files), Disjoint(c, e),
           c.path # e.path, e.op = "rename" => c.path # e.to,
           \A p \in Placed(c) : p # e.path /\ (e.op = "rename" => p # e.to)
    PROVE  Possible(c, Effect(e, files))
<1>1. PICK F : F = Effect(e, files)
    OBVIOUS
<1>2. /\ e.op \in Operations /\ e.path \in PlanPaths
      /\ e.op = "rename" => e.path \in ToSet(Ends(e)) /\ e.to \in ToSet(Ends(e))
      /\ e.path \in ToSet(Ends(e))
    BY EndsAre DEF Changes, ToSet
<1>3. /\ F \subseteq files \cup Placed(e)
      /\ Placed(e) \subseteq ToSet(Ends(e))
      /\ \A q \in files : q # e.path => q \in F
    BY <1>1, <1>2 DEF Effect, Placed, Operations
<1>4. Placed(c) \subseteq ToSet(Ends(c))
    BY EndsAre DEF Placed, Changes, Operations, ToSet
<1>5. (c.path \in F) = (c.op # "create")
    <2>1. c.path \notin Placed(e)
        BY DEF Placed
    <2> QED
        BY <1>3, <2>1 DEF Possible
<1>6. ASSUME NEW p \in Placed(c)
      PROVE  p \notin F \cup Folders(F) /\ \A q \in F : <<p, q>> \notin Inside
    <2>1. p \notin files \cup Folders(files) /\ \A q \in files : <<p, q>> \notin Inside
        BY <1>6 DEF Possible
    <2>2. \A q \in Placed(e) : p # q /\ <<p, q>> \notin Inside /\ <<q, p>> \notin Inside
        <3>1. \A q \in Placed(e) : <<p, q>> \notin Inside /\ <<q, p>> \notin Inside
            BY <1>3, <1>4, <1>6 DEF Disjoint
        <3>2. \A q \in Placed(e) : p # q
            BY <1>6 DEF Placed
        <3> QED
            BY <3>1, <3>2
    <2>3. p \notin Folders(F)
        <3>1. p \in PlanPaths => \A q \in files : <<q, p>> \notin Inside
            BY <2>1 DEF Folders
        <3> QED
            BY <1>3, <2>2, <3>1 DEF Folders
    <2> QED
        BY <1>3, <2>1, <2>2, <2>3
<1> QED
    BY <1>1, <1>5, <1>6 DEF Possible

LEMMA AcceptedPossible ==
    ASSUME NEW d \in AllDrafts, Accepted(d), present \subseteq PlanPaths
    PROVE  PlanFits(Normalised(d))
<1>1. \A j \in DOMAIN Normalised(d).files :
         j \in DOMAIN d.files /\ d.files[j] \in Changes
         /\ Normalised(d).files[j] = Normal(d.files[j])
    BY NormalisedFiles
<1>2. SUFFICES ASSUME NEW i \in DOMAIN Normalised(d).files
      PROVE  LET c == Normalised(d).files[i]
             IN /\ (c.path \in OnDisk) = (c.op # "create") /\ Placed(c) \cap OnDisk = {}
                /\ OfFiles(c, present) => Possible(c, present)
                /\ \A j \in DOMAIN Normalised(d).files \ {i} :
                      LET e == Normalised(d).files[j]
                      IN OfFiles(c, present) /\ OfFiles(e, present) /\ Disjoint(c, e) =>
                             Possible(c, Effect(e, present))
    BY DEF PlanFits
<1>3. PICK c \in Changes : c = d.files[i]
    BY <1>1
<1>4. PICK n \in Changes : n = Normal(c)
    BY NormalIs
<1>5. n.op = c.op /\ n.path = c.path /\ (c.op = "rename" => n.to = c.to)
    BY <1>4, NormalIs
<1>6. Allowed(c)
    BY <1>1, <1>3 DEF Accepted
<1>7. (n.path \in OnDisk) = (n.op # "create") /\ Placed(n) \cap OnDisk = {}
    BY <1>5, <1>6 DEF Allowed, Safe, Existing, Placed
<1>8. OfFiles(n, present) => Possible(n, present)
    BY <1>7 DEF OfFiles, Possible, OnDisk
<1>9. ASSUME NEW j \in DOMAIN Normalised(d).files \ {i},
             OfFiles(n, present), OfFiles(Normalised(d).files[j], present),
             Disjoint(n, Normalised(d).files[j])
      PROVE  Possible(n, Effect(Normalised(d).files[j], present))
    <2>1. PICK e \in Changes : e = d.files[j]
        BY <1>1, <1>9
    <2>2. PICK m \in Changes : m = Normal(e)
        BY NormalIs
    <2>3. m.op = e.op /\ m.path = e.path /\ (e.op = "rename" => m.to = e.to)
        BY <2>2, NormalIs
    <2>4. \A k \in DOMAIN Ends(c), l \in DOMAIN Ends(e) : Ends(c)[k] # Ends(e)[l]
        BY <1>1, <1>3, <1>9, <2>1 DEF Accepted, Distinct
    <2>5. 1 \in DOMAIN Ends(c) /\ Ends(c)[1] = c.path /\ 1 \in DOMAIN Ends(e) /\ Ends(e)[1] = e.path
        BY EndsAre
    <2>6. c.op = "rename" => 2 \in DOMAIN Ends(c) /\ Ends(c)[2] = c.to
        BY EndsAre
    <2>7. e.op = "rename" => 2 \in DOMAIN Ends(e) /\ Ends(e)[2] = e.to
        BY EndsAre
    <2>8. /\ n.path # m.path
          /\ n.op = "rename" => n.to # m.path
          /\ m.op = "rename" => n.path # m.to
          /\ n.op = "rename" /\ m.op = "rename" => n.to # m.to
        BY <1>5, <2>3, <2>4, <2>5, <2>6, <2>7
    <2>9. \A p \in Placed(n) : p # m.path /\ (m.op = "rename" => p # m.to)
        BY <2>8 DEF Placed
    <2>10. m = Normalised(d).files[j]
        BY <1>1, <1>9, <2>1, <2>2
    <2>11. Possible(n, Effect(m, present))
        BY <1>8, <1>9, <2>8, <2>9, <2>10, ChangesCommute
    <2> QED
        BY <2>10, <2>11
<1>10. n = Normalised(d).files[i]
    BY <1>1, <1>3, <1>4
<1> QED
    BY <1>7, <1>8, <1>9, <1>10

LEMMA AcceptKeepsInv ==
    ASSUME PlannerInv, NEW d \in AllDrafts, Accept(d),
           asking \in {"model", "fallback", "supplied"}
    PROVE  PlannerInv'
<1>1. PICK p : p = Normalised(d)
    OBVIOUS
<1>2. /\ plan' = p /\ answers' = answers + 1
      /\ present' = present /\ indexed' = indexed /\ moved' = moved /\ handed' = handed
      /\ asking' \in {"planned", "checked"}
    BY <1>1 DEF Accept
<1>3. PlannerTypeOK'
    BY <1>2, ChangePlannerAssumption DEF PlannerInv, PlannerTypeOK, AttemptsCounted
<1>4. AttemptsCounted'
    BY <1>1, <1>2, NormalisedFiles DEF PlannerInv, AttemptsCounted
<1>5. StepsInOrder'
    BY <1>1, <1>2, AcceptedSteps DEF Accept, StepsInOrder
<1>6. RiskCovered'
    BY <1>1, <1>2, AcceptedRisk DEF RiskCovered
<1>7. PlanIsGiven'
    <2>1. p.needs = d.needs /\ p.warned = d.needs \ (Touched(d.files) \cup OnDisk)
        BY <1>1 DEF Normalised, Warned
    <2>2. Touched(p.files) = Touched(d.files)
        BY <1>1, NormalisedFiles
    <2>3. p.needs \ p.warned \subseteq OnDisk \cup Touched(p.files)
        BY <2>1, <2>2
    <2>4. asking' # "handed" /\ asking' \in {"planned", "checked", "handed"}
        BY <1>2
    <2>5. (moved \/ plan.needs \ plan.warned \subseteq OnDisk \cup Touched(plan.files))'
        BY <1>2, <2>3 DEF OnDisk, Folders
    <2>6. (plan # NoPlan => \/ asking \in {"planned", "checked", "handed"}
                            \/ asking = "failed" /\ plan.long)'
        BY <2>4
    <2> QED
        BY <2>4, <2>5, <2>6 DEF PlanIsGiven
<1> QED
    BY <1>3, <1>4, <1>5, <1>6, <1>7 DEF PlannerInv

\* An attempt that failed is followed by another, or by the end.
LEMMA FailureKeepsInv ==
    ASSUME PlannerInv, UNCHANGED <<present, indexed, moved, plan, handed>>,
           asking \in {"model", "fallback", "supplied"},
           \/ Retry /\ answers' = answers + 1 /\ Running
           \/ asking' = "failed" /\ answers' = answers + 1
           \/ asking' = "failed" /\ answers' = answers
    PROVE  PlannerInv'
<1>1. plan = NoPlan
    BY DEF PlannerInv, PlanIsGiven
<1>2. /\ present' = present /\ indexed' = indexed /\ moved' = moved /\ plan' = plan
      /\ asking' \in {"model", "fallback", "failed"}
    BY DEF Retry
<1>3. PICK a \in Nat : a = answers'
    BY DEF PlannerInv, AttemptsCounted
<1>4. /\ answers \in Nat /\ MaxRepairs \in Nat /\ answers <= MaxRepairs + 2
      /\ asking = "fallback" => answers = MaxRepairs + 1
      /\ asking = "model" => answers <= MaxRepairs
      /\ asking = "supplied" => answers = 0
    BY ChangePlannerAssumption DEF PlannerInv, PlannerTypeOK, AttemptsCounted
<1>5. /\ a <= MaxRepairs + 2
      /\ asking' = "fallback" => a = MaxRepairs + 1
      /\ asking' = "model" => a <= MaxRepairs
    BY <1>3, <1>4 DEF Retry, Running
<1>6. PlannerTypeOK'
    BY <1>2, <1>3, <1>5 DEF PlannerInv, PlannerTypeOK, NoneInside
<1>7. AttemptsCounted'
    BY <1>2, <1>3, <1>5 DEF PlannerInv, AttemptsCounted
<1>8. StepsInOrder' /\ RiskCovered'
    BY <1>2 DEF PlannerInv, StepsInOrder, RiskCovered
<1>9. PlanIsGiven'
    BY <1>1, <1>2 DEF PlannerInv, PlanIsGiven, OnDisk, Folders
<1> QED
    BY <1>6, <1>7, <1>8, <1>9 DEF PlannerInv

\* What the model of the plan cannot say is no reason to refuse it.
LEMMA ConvertedIsValid ==
    ASSUME NEW c \in Changes
    PROVE  /\ ValidChange(Converted(c))
           /\ Converted(c).path = c.path /\ Converted(c).risk = c.risk
           /\ Converted(c).old = (c.op \in {"update", "delete"})
           /\ Converted(c).type \in {"delete", "rename"} => Converted(c).type = c.op
<1>1. c.op \in {"create", "update", "delete", "rename"} /\ c.path # Nowhere
    BY ChangePlannerAssumption DEF Changes, Operations
<1>2. /\ Converted(c).path = c.path /\ Converted(c).risk = c.risk
      /\ Converted(c).old = (c.op \in {"update", "delete"})
      /\ Converted(c).new = (c.op \in {"create", "update", "rename"})
      /\ Converted(c).type = IF c.op = "update" THEN "modify" ELSE c.op
      /\ Converted(c).previous = IF c.op = "rename" THEN c.path ELSE Nowhere
    BY DEF Converted
<1>3. ValidChange(Converted(c))
    <2>1. CASE c.op = "create"
        BY <1>2, <2>1 DEF ValidChange
    <2>2. CASE c.op = "update"
        BY <1>2, <2>2 DEF ValidChange
    <2>3. CASE c.op = "delete"
        BY <1>2, <2>3 DEF ValidChange
    <2>4. CASE c.op = "rename"
        BY <1>1, <1>2, <2>4 DEF ValidChange
    <2> QED
        BY <1>1, <2>1, <2>2, <2>3, <2>4
<1> QED
    BY <1>2, <1>3

LEMMA ConvertKeepsInv ==
    ASSUME PlannerInv, Convert
    PROVE  PlannerInv'
<1> DEFINE changes == [i \in DOMAIN plan.files |-> Converted(plan.files[i])]
<1>1. plan.files \in Seq(Changes)
    BY DEF PlannerInv, AttemptsCounted
<1>2. \A i \in DOMAIN changes : ValidChange(changes[i])
    BY <1>1, ConvertedIsValid
<1>3. PICK h : h = [changes |-> changes, risk |-> plan.risk, needs |-> plan.needs,
                    warned |-> plan.warned]
    OBVIOUS
<1> SUFFICES ASSUME ~plan.long PROVE PlannerInv'
    <2>1. CASE plan.long
        <3>1. asking' = "failed" /\ UNCHANGED <<present, indexed, answers, moved, plan, handed>>
            BY <2>1 DEF Convert
        <3>2. PlannerTypeOK' /\ AttemptsCounted'
            BY <3>1 DEF PlannerInv, PlannerTypeOK, AttemptsCounted, NoneInside
        <3>3. StepsInOrder' /\ RiskCovered' /\ PlanIsGiven'
            BY <2>1, <3>1
               DEF PlannerInv, StepsInOrder, RiskCovered, PlanIsGiven, OnDisk, Folders
        <3> QED
            BY <3>2, <3>3 DEF PlannerInv
    <2> QED
        BY <2>1
<1>4. /\ handed' = h /\ asking' = "handed"
      /\ present' = present /\ indexed' = indexed /\ answers' = answers
      /\ moved' = moved /\ plan' = plan
    BY <1>2, <1>3 DEF Convert
<1>5. PlannerTypeOK' /\ AttemptsCounted'
    BY <1>4 DEF PlannerInv, PlannerTypeOK, AttemptsCounted, NoneInside
<1>6. StepsInOrder' /\ RiskCovered'
    BY <1>4 DEF PlannerInv, StepsInOrder, RiskCovered
<1>7. /\ Len(h.changes) = Len(plan.files) /\ h.risk = plan.risk
      /\ \A i \in DOMAIN plan.files : h.changes[i] = Converted(plan.files[i])
    <2>1. h.changes = changes /\ h.risk = plan.risk
        BY <1>3
    <2>2. Len(changes) = Len(plan.files)
        BY <1>1
    <2> QED
        BY <2>1, <2>2
<1>8. PlanIsGiven'
    <2>1. ASSUME NEW i \in DOMAIN plan.files
          PROVE  LET m == h.changes[i]  c == plan.files[i]
                 IN /\ m.path = c.path /\ m.risk = c.risk
                    /\ m.old = (c.op \in {"update", "delete"})
                    /\ m.type \in {"delete", "rename"} => m.type = c.op
        BY <1>1, <1>7, ConvertedIsValid
    <2>2. moved \/ plan.needs \ plan.warned \subseteq OnDisk \cup Touched(plan.files)
        BY DEF PlannerInv, PlanIsGiven
    <2> QED
        BY <1>4, <1>7, <2>1, <2>2 DEF PlanIsGiven, OnDisk, Folders
<1> QED
    BY <1>5, <1>6, <1>8 DEF PlannerInv

LEMMA EditKeepsInv ==
    ASSUME PlannerInv, EditRepository
    PROVE  PlannerInv'
<1>1. /\ moved' = TRUE /\ indexed' = indexed /\ asking' = asking /\ answers' = answers
      /\ plan' = plan /\ handed' = handed
    BY DEF EditRepository
<1>2. present' \subseteq PlanPaths /\ NoneInside(present')
    <2>1. PICK p \in PlanPaths :
             present' = IF p \in present THEN present \ {p} ELSE present \cup {p}
        BY DEF EditRepository
    <2> QED
        BY <2>1 DEF PlannerInv, PlannerTypeOK, EditRepository
<1>3. PlannerTypeOK'
    BY <1>1, <1>2 DEF PlannerInv, PlannerTypeOK, NoneInside
<1>4. AttemptsCounted'
    BY <1>1 DEF PlannerInv, AttemptsCounted
<1>5. StepsInOrder' /\ RiskCovered'
    BY <1>1 DEF PlannerInv, StepsInOrder, RiskCovered
<1>6. PlanIsGiven'
    BY <1>1 DEF PlannerInv, PlanIsGiven
<1> QED
    BY <1>3, <1>4, <1>5, <1>6 DEF PlannerInv

LEMMA PlannerStarts == PlannerInit => PlannerInv
<1> SUFFICES ASSUME PlannerInit PROVE PlannerInv
    OBVIOUS
<1>1. plan.files = <<>> /\ plan.steps = <<>> /\ plan.needs = {} /\ plan = NoPlan
    BY DEF PlannerInit, NoPlan
<1>2. PlannerTypeOK /\ AttemptsCounted
    <2>1. present \subseteq PlanPaths /\ indexed \subseteq PlanPaths /\ NoneInside(present)
        BY DEF PlannerInit
    <2>2. /\ asking \in {"model", "supplied"} /\ answers = 0 /\ moved = FALSE
          /\ MaxRepairs \in Nat
        BY ChangePlannerAssumption DEF PlannerInit
    <2>3. PlannerTypeOK
        BY <2>1, <2>2 DEF PlannerTypeOK
    <2>4. plan.files \in Seq(Changes)
        <3>1. <<>> \in Seq(Changes)
            OBVIOUS
        <3> QED
            BY <1>1, <3>1
    <2>5. moved \in BOOLEAN
        BY <2>2
    <2>6. answers \in Nat /\ answers <= MaxRepairs
        BY <2>2
    <2>7. AttemptsCounted
        <3>1. asking = "supplied" => answers = 0
            BY <2>2
        <3> QED
            BY <2>1, <2>4, <2>5, <2>6, <3>1, Zenon DEF AttemptsCounted
    <2> QED
        BY <2>3, <2>7
<1>3. StepsInOrder /\ RiskCovered
    BY <1>1 DEF StepsInOrder, RiskCovered
<1>4. PlanIsGiven
    BY <1>1 DEF PlannerInit, PlanIsGiven
<1> QED
    BY <1>2, <1>3, <1>4 DEF PlannerInv

LEMMA PlannerKeepsInv ==
    ASSUME PlannerInv, [PlannerNext]_plannerVars
    PROVE  PlannerInv'
<1>1. CASE Answer(AllDrafts)
    BY <1>1, AcceptKeepsInv DEF Answer, Running
<1>2. CASE Refuse
    BY <1>2, FailureKeepsInv DEF Refuse, Running
<1>3. CASE GiveUp
    BY <1>3, FailureKeepsInv DEF GiveUp, Running
<1>4. CASE Supply(AllDrafts)
    <2>1. CASE \E d \in AllDrafts : Accept(d)
        BY <1>4, <2>1, AcceptKeepsInv DEF Supply
    <2>2. CASE asking' = "failed" /\ UNCHANGED <<present, indexed, answers, moved, plan, handed>>
        BY <1>4, <2>2, FailureKeepsInv DEF Supply
    <2> QED
        BY <1>4, <2>1, <2>2 DEF Supply
<1>5. CASE Convert
    BY <1>5, ConvertKeepsInv
<1>6. CASE EditRepository
    BY <1>6, EditKeepsInv
<1>7. CASE UNCHANGED plannerVars
    BY <1>7 DEF plannerVars, PlannerInv, PlannerTypeOK, AttemptsCounted, StepsInOrder,
                RiskCovered, PlanIsGiven, NoneInside, OnDisk, Folders
<1> QED
    BY <1>1, <1>2, <1>3, <1>4, <1>5, <1>6, <1>7 DEF PlannerNext

\* A plan changes only when a draft is accepted.
LEMMA AcceptedIsPossible ==
    ASSUME PlannerInv, PlannerNext, plan' # plan
    PROVE  \E p : plan' = p /\ PlanFits(p)
<1>1. PICK d \in AllDrafts : Accept(d)
    BY DEF PlannerNext, Answer, Refuse, GiveUp, Supply, Convert, EditRepository
<1>2. Accepted(d) /\ plan' = Normalised(d)
    BY <1>1 DEF Accept
<1> QED
    BY <1>2, AcceptedPossible DEF PlannerInv, PlannerTypeOK

\* Whatever the model answers, however paths lie inside one another, and however often
\* the repository is edited meanwhile: an accepted plan can be carried out as far as
\* its changes are of files apart from one another, its steps are in order, its risk
\* covers its changes, and it is handed on unless its title is too long.
THEOREM PlansAreSoundAlways == PlannerSpec => PlansAreSound
<1>1. PlannerInv /\ [PlannerNext]_plannerVars => PlannerInv'
    BY PlannerKeepsInv
<1> DEFINE Sound ==
        plan' # plan =>
            \A i \in DOMAIN plan'.files :
                LET c == plan'.files[i]
                IN /\ (c.path \in OnDisk) = (c.op # "create") /\ Placed(c) \cap OnDisk = {}
                   /\ OfFiles(c, present) => Possible(c, present)
                   /\ \A j \in DOMAIN plan'.files \ {i} :
                         LET e == plan'.files[j]
                         IN OfFiles(c, present) /\ OfFiles(e, present) /\ Disjoint(c, e) =>
                                Possible(c, Effect(e, present))
<1>2. PlannerInv /\ [PlannerNext]_plannerVars => [Sound]_plannerVars
    <2> SUFFICES ASSUME PlannerInv, PlannerNext, plan' # plan PROVE Sound
        OBVIOUS
    <2>1. PICK p : plan' = p /\ PlanFits(p)
        BY AcceptedIsPossible
    <2> QED
        BY <2>1 DEF PlanFits
<1>3. PlannerInv => PlannerTypeOK /\ StepsInOrder /\ RiskCovered /\ PlanIsGiven
    BY DEF PlannerInv
<1> QED
    BY PlannerStarts, <1>1, <1>2, <1>3, PTL DEF PlannerSpec, PlansAreSound, PlanIsPossible

(* -------------------------- the patch of a plan ------------------------ *)

GenerationSpec == GenerationInit /\ [][GenerationNext]_generationVars

Stages == {"reading", "asking", "waiting", "checking", "returned", "failed"}

\* Where a generation is says how often the model was asked: a second time only
\* for the one repair.
AskedOnce ==
    /\ generation.at \in Stages
    /\ generation.asked \in 0 .. 2
    /\ generation.at \in {"waiting", "checking"} => generation.asked >= 1
    /\ generation.at = "asking" => generation.asked <= 1
    /\ generation.at = "reading" => generation.asked = 0

GenerationTyped ==
    DOMAIN generation = {"at", "asked", "shown", "hashes", "patch", "checked"}

\* A patch that has been made expects of each file what was read of it, and does
\* nothing that the task and its plan do not allow.
PatchMade ==
    generation.at \in {"checking", "returned"} =>
        \A p \in DOMAIN generation.patch :
            /\ Contains(ApprovedPaths, p)
            /\ generation.patch[p].does = "create" => wanted.creation
            /\ p \in DOMAIN generation.hashes =>
                  generation.patch[p].expects = generation.hashes[p]

\* A patch that is returned passed against the files there were then.
PatchPassed ==
    generation.at = "returned" =>
        \A p \in DOMAIN generation.patch :
            generation.checked[p] = IF generation.patch[p].does = "create" THEN Gone
                                    ELSE generation.patch[p].expects

GenerationInv == GenerationTyped /\ AskedOnce /\ PatchMade /\ PatchPassed

LEMMA GenerationBegins == GenerationInit => GenerationInv
BY DEF GenerationInit, GenerationInv, GenerationTyped, AskedOnce, PatchMade, PatchPassed, Stages

\* An answer that is refused, like a dry run that fails, is followed by a request,
\* or by the end.
LEMMA RepairsOnce ==
    ASSUME GenerationInv, generation.at \in {"waiting", "checking"},
           generation' = Again(generation), wanted' = wanted
    PROVE  GenerationInv'
<1> USE DEF GenerationInv, GenerationTyped, AskedOnce, Stages
<1>1. PICK a \in {"asking", "failed"} :
         generation' = [generation EXCEPT !.at = a] /\ (a = "asking" => generation.asked = 1)
    BY DEF Again
<1>2. generation'.at = a /\ generation'.asked = generation.asked
    BY <1>1
<1>3. DOMAIN generation' = DOMAIN generation
    BY <1>1
<1> QED
    BY <1>1, <1>2, <1>3 DEF PatchMade, PatchPassed

LEMMA GenerationGoesOn == GenerationInv /\ [GenerationNext]_generationVars => GenerationInv'
<1> SUFFICES ASSUME GenerationInv, [GenerationNext]_generationVars PROVE GenerationInv'
    OBVIOUS
<1> USE DEF GenerationInv, GenerationTyped, AskedOnce, Stages
<1>1. CASE ReadContext
    <2>1. PICK a \in {"asking", "failed"} :
             /\ generation'.at = a /\ generation'.asked = generation.asked
             /\ DOMAIN generation' = DOMAIN generation
        <3>1. CASE ApprovedPaths = <<>>
            BY <1>1, <3>1 DEF ReadContext
        <3>2. CASE ApprovedPaths # <<>>
            BY <1>1, <3>2 DEF ReadContext
        <3> QED
            BY <3>1, <3>2
    <2>2. generation.asked = 0
        BY <1>1 DEF ReadContext
    <2> QED
        BY <2>1, <2>2 DEF PatchMade, PatchPassed
<1>2. CASE AskModel
    <2>1. /\ generation'.at = "waiting" /\ generation'.asked = generation.asked + 1
          /\ DOMAIN generation' = DOMAIN generation
        BY <1>2 DEF AskModel
    <2>2. generation.asked <= 1
        BY <1>2 DEF AskModel
    <2> QED
        BY <2>1, <2>2 DEF PatchMade, PatchPassed
<1>3. CASE NoAnswer
    <2>1. /\ generation'.at = "failed" /\ generation'.asked = generation.asked
          /\ DOMAIN generation' = DOMAIN generation
        BY <1>3 DEF NoAnswer
    <2> QED
        BY <2>1 DEF PatchMade, PatchPassed
<1>4. CASE TakeAnswer
    <2>1. CASE generation' = Again(generation)
        BY <1>4, <2>1, RepairsOnce DEF TakeAnswer
    <2>2. ASSUME NEW proposal \in Proposals,
                 \A p \in DOMAIN proposal : Acceptable(proposal[p], p),
                 generation' = [generation EXCEPT !.at = "checking",
                                                  !.patch = AcceptedPatch(proposal)]
          PROVE GenerationInv'
        <3>1. /\ generation'.at = "checking" /\ generation'.patch = AcceptedPatch(proposal)
              /\ generation'.hashes = generation.hashes /\ generation'.asked = generation.asked
              /\ DOMAIN generation' = DOMAIN generation
            BY <2>2
        <3>2. \A p \in DOMAIN AcceptedPatch(proposal) :
                 /\ p \in DOMAIN proposal
                 /\ AcceptedPatch(proposal)[p].does = proposal[p]
                 /\ AcceptedPatch(proposal)[p].expects = ExpectedHash(p)
            BY DEF AcceptedPatch
        <3>3. ApprovedPaths' = ApprovedPaths /\ wanted' = wanted
            BY <1>4 DEF TakeAnswer, ApprovedPaths
        <3>4. PatchMade'
            BY <3>1, <3>2, <3>3, <2>2 DEF PatchMade, Acceptable, ExpectedHash
        <3>5. PatchPassed'
            BY <3>1 DEF PatchPassed
        <3>6. generation.asked >= 1
            BY <1>4 DEF TakeAnswer
        <3> QED
            BY <3>1, <3>4, <3>5, <3>6
    <2> QED
        BY <1>4, <2>1, <2>2 DEF TakeAnswer
<1>5. CASE CheckPatchDry
    <2>1. CASE generation' = Again(generation)
        BY <1>5, <2>1, RepairsOnce DEF CheckPatchDry
    <2>2. CASE PassesDry /\ generation' = [generation EXCEPT !.at = "returned", !.checked = versions]
        <3>1. /\ generation'.at = "returned" /\ generation'.checked = versions
              /\ generation'.hashes = generation.hashes /\ generation'.asked = generation.asked
              /\ generation'.patch = generation.patch
              /\ DOMAIN generation' = DOMAIN generation
            BY <2>2
        <3>2. ApprovedPaths' = ApprovedPaths /\ wanted' = wanted
            BY <1>5 DEF CheckPatchDry, ApprovedPaths
        <3>3. PatchMade'
            BY <1>5, <3>1, <3>2 DEF CheckPatchDry, PatchMade
        <3>4. PatchPassed'
            BY <2>2, <3>1 DEF PassesDry, PatchPassed
        <3> QED
            BY <3>1, <3>3, <3>4
    <2> QED
        BY <1>5, <2>1, <2>2 DEF CheckPatchDry
<1>6. CASE UNCHANGED <<wanted, generation>>
    <2>1. generation' = generation /\ ApprovedPaths' = ApprovedPaths /\ wanted' = wanted
        BY <1>6 DEF ApprovedPaths
    <2> QED
        BY <2>1 DEF PatchMade, PatchPassed
<1> QED
    BY <1>1, <1>2, <1>3, <1>4, <1>5, <1>6
       DEF GenerationNext, GenerationStep, EditText, generationVars

\* A patch is made from the texts that are there when it passes, stays within what
\* was planned and asked for, and is repaired once at most: for every task, plan,
\* answer of the model, and edits by others as many as there may be.
THEOREM GeneratedWithinPlanAlways == GenerationSpec => []GeneratedWithinPlan
<1>1. GenerationInv => GeneratedWithinPlan
    BY DEF GenerationInv, AskedOnce, PatchMade, PatchPassed, GeneratedWithinPlan,
           MadeFromCurrent, ScopeKept
<1> QED
    BY GenerationBegins, GenerationGoesOn, <1>1, PTL DEF GenerationSpec

(* ------------------------------- the checks ---------------------------- *)

CommandSpec == CommandInit /\ [][CommandNext]_commandVars

\* What is launched is what the order resolves to, and nothing is refused that
\* resolves.
LaunchFits ==
    /\ DOMAIN launch = {"at", "program", "arguments"}
    /\ launch.at \in {"asked", "refused", "resolved", "dry", "skipped"}
    /\ launch.at = "refused" => ~Resolves(order)
    /\ launch.at = "resolved" =>
          /\ Resolves(order)
          /\ launch.program = ProgramOf(order) /\ launch.arguments = Run(order)

CommandInv ==
    /\ order \in Orders /\ WellFormed(order) /\ interpreter \in {"system", "repository"}
    /\ LaunchFits

LEMMA ResolvesAsBefore ==
    ASSUME UNCHANGED <<order, configuration, interpreter>>
    PROVE  Resolves(order)' = Resolves(order)
<1>1. order' = order /\ configuration' = configuration /\ interpreter' = interpreter
    OBVIOUS
<1>2. CustomArguments(order)' = CustomArguments(order)
    BY <1>1 DEF CustomArguments
<1>3. Place(ProgramOf(order))' = Place(ProgramOf(order))
    BY <1>1 DEF Place
<1>4. ValidFor(order)' = ValidFor(order)
    BY <1>1, <1>2 DEF ValidFor
<1>5. Findable(ProgramOf(order))' = Findable(ProgramOf(order))
    BY <1>1, <1>3 DEF Findable
<1>6. SafelySet(order)' = SafelySet(order)
    BY <1>1 DEF SafelySet
<1> QED
    BY <1>4, <1>5, <1>6 DEF Resolves

LEMMA CommandsFit == CommandSpec => []CommandInv
<1>1. CommandInit => CommandInv
    BY DEF CommandInit, CommandInv, LaunchFits
<1>2. ASSUME CommandInv, [CommandNext]_commandVars PROVE CommandInv'
    <2>1. /\ order' = order /\ configuration' = configuration /\ interpreter' = interpreter
        BY <1>2 DEF CommandNext, Resolve, DryRun, Skip, commandVars
    <2>2. Resolves(order)' = Resolves(order)
        BY <2>1, ResolvesAsBefore
    <2>3. LaunchFits'
        <3>1. CASE Resolve
            <4>1. CASE Resolves(order)
                <5>1. /\ launch'.at = "resolved" /\ launch'.program = ProgramOf(order)
                      /\ launch'.arguments = Run(order)
                      /\ DOMAIN launch' = {"at", "program", "arguments"}
                    BY <3>1, <4>1 DEF Resolve
                <5> QED
                    BY <5>1, <4>1, <2>1, <2>2 DEF LaunchFits
            <4>2. CASE ~Resolves(order)
                <5>1. launch'.at = "refused" /\ DOMAIN launch' = {"at", "program", "arguments"}
                    BY <3>1, <4>2 DEF Resolve
                <5> QED
                    BY <5>1, <4>2, <2>1, <2>2 DEF LaunchFits
            <4> QED
                BY <4>1, <4>2
        <3>2. CASE Skip
            <4>1. launch'.at = "skipped" /\ DOMAIN launch' = {"at", "program", "arguments"}
                BY <3>2 DEF Skip
            <4> QED
                BY <4>1 DEF LaunchFits
        <3>3. CASE DryRun
            <4>1. launch'.at = "dry" /\ DOMAIN launch' = {"at", "program", "arguments"}
                BY <1>2, <3>3 DEF DryRun, CommandInv, LaunchFits
            <4> QED
                BY <4>1 DEF LaunchFits
        <3>4. CASE launch' = launch
            BY <3>4, <1>2, <2>1, <2>2 DEF CommandInv, LaunchFits
        <3> QED
            BY <1>2, <3>1, <3>2, <3>3, <3>4 DEF CommandNext, commandVars
    <2> QED
        BY <1>2, <2>1, <2>3 DEF CommandInv
<1> QED
    BY <1>1, <1>2, PTL DEF CommandSpec

(* An argument is a record; those in front of the ones asked for name no file.   *)
LEMMA RunsInside ==
    ASSUME NEW o \in Orders, Resolves(o),
           o.kind \in {"python_compile", "pytest", "ruff", "mypy"},
           NEW i \in DOMAIN Run(o)
    PROVE  Run(o)[i].dash \/ Run(o)[i].at # "outside"
<1> DEFINE Arguments == [name : STRING, dash : BOOLEAN, value : BOOLEAN,
                         at : {"nowhere", "inside", "outside"},
                         text : {"plain", "odd", "composed"}]
<1>1. o.arguments \in Seq(Arguments)
    BY OrdersAssumption
<1>2. \A j \in DOMAIN o.arguments : o.arguments[j].dash \/ o.arguments[j].at # "outside"
    <2>1. CASE o.kind = "python_compile"
        <3>1. CompileArguments(o.arguments)
            BY <2>1 DEF Resolves, ValidFor
        <3> QED
            BY <3>1 DEF CompileArguments
    <2>2. CASE o.kind = "pytest"
        <3>1. PytestArguments(o.arguments)
            BY <2>2 DEF Resolves, ValidFor
        <3> QED
            BY <3>1 DEF PytestArguments, FilesInside
    <2>3. CASE o.kind \in {"ruff", "mypy"}
        <3>1. AnalysisArguments(o.arguments)
            BY <2>3 DEF Resolves, ValidFor
        <3> QED
            BY <3>1 DEF AnalysisArguments, FilesInside
    <2> QED
        BY <2>1, <2>2, <2>3
<1>3. Option("-m").dash /\ Word("compileall").at # "outside" /\ Word("pytest").at # "outside"
    BY DEF Option, Word, Argument
<1>4. CASE o.kind \in {"python_compile", "pytest"}
    <2>1. PICK w \in {"compileall", "pytest"} :
             Run(o) = <<Option("-m"), Word(w)>> \o o.arguments
        BY <1>4 DEF Run
    <2>2. CASE i \in {1, 2}
        BY <1>1, <1>3, <2>1, <2>2
    <2>3. CASE i \notin {1, 2}
        <3>1. i - 2 \in DOMAIN o.arguments /\ Run(o)[i] = o.arguments[i - 2]
            BY <1>1, <2>1, <2>3
        <3> QED
            BY <1>2, <3>1
    <2> QED
        BY <2>2, <2>3
<1>5. CASE o.kind \in {"ruff", "mypy"}
    BY <1>2, <1>5 DEF Run
<1> QED
    BY <1>4, <1>5

\* What is resolved stays in the repository.
LEMMA StaysInside == CommandInv => ChecksStayInside
<1> SUFFICES ASSUME CommandInv, launch.at = "resolved" PROVE ChecksStayInside
    BY DEF ChecksStayInside
<1>1. /\ order \in Orders /\ Resolves(order)
      /\ launch.program = ProgramOf(order) /\ launch.arguments = Run(order)
    BY DEF CommandInv, LaunchFits
<1>2. ASSUME order.kind \in {"python_compile", "pytest", "ruff", "mypy"},
             NEW i \in DOMAIN launch.arguments
      PROVE  launch.arguments[i].dash \/ launch.arguments[i].at # "outside"
    BY <1>1, <1>2, RunsInside
<1>3. \/ launch.program.name \in configuration.paths
      \/ ~launch.program.path /\ Place(launch.program) = "system"
    <2>1. ProgramOf(order).name \in DOMAIN Programs \cup {"python"}
        BY <1>1, OrdersAssumption DEF ProgramOf, CommandInv, WellFormed, NoProgram
    <2>2. Place(ProgramOf(order)) \in {"system", "repository", "nowhere"}
        BY <2>1, OrdersAssumption DEF Place, CommandInv
    <2> QED
        BY <1>1, <2>2 DEF Resolves, Findable
<1>4. ASSUME NEW v \in DOMAIN SafeEnvironment(order)
      PROVE  /\ SafeEnvironment(order)[v] = "server" => v \in configuration.inherited
             /\ v = "PATH" => SafeEnvironment(order)[v] = "server" \/ v \in configuration.allowed
             /\ SafeEnvironment(order)[v] = "command" => v \notin SensitiveVariables
    BY <1>1, <1>4 DEF SafeEnvironment, Resolves, SafelySet
<1> QED
    BY <1>2, <1>3, <1>4 DEF ChecksStayInside

LEMMA Concatenated ==
    ASSUME NEW a, NEW b, NEW c
    PROVE  <<a>> \o <<b>> = <<a, b>> /\ <<a>> \o <<b>> \o <<c>> = <<a, b, c>>
           /\ <<a>> \o <<>> = <<a>> /\ <<>> \o <<a>> = <<a>>
           /\ <<a>> \o <<>> \o <<c>> = <<a, c>>
<1> DEFINE S == {a, b, c}
<1>1. ASSUME NEW x \in S, NEW y \in S PROVE <<x>> \o <<y>> = <<x, y>>
    <2>1. /\ <<x>> \in Seq(S) /\ <<y>> \in Seq(S) /\ <<x, y>> \in Seq(S)
          /\ Len(<<x>>) = 1 /\ Len(<<y>>) = 1 /\ Len(<<x, y>>) = 2
          /\ <<x>>[1] = x /\ <<y>>[1] = y /\ <<x, y>>[1] = x /\ <<x, y>>[2] = y
        OBVIOUS
    <2> HIDE DEF S
    <2>2. /\ <<x>> \o <<y>> \in Seq(S) /\ Len(<<x>> \o <<y>>) = 2
          /\ (<<x>> \o <<y>>)[1] = x /\ (<<x>> \o <<y>>)[2] = y
        BY <2>1, ConcatProperties
    <2>3. \A i \in 1 .. 2 : (<<x>> \o <<y>>)[i] = <<x, y>>[i]
        BY <2>1, <2>2
    <2> QED
        BY <2>1, <2>2, <2>3, SeqEqual
<1>2. <<a, b>> \o <<c>> = <<a, b, c>>
    <2>1. /\ <<a, b>> \in Seq(S) /\ <<c>> \in Seq(S) /\ <<a, b, c>> \in Seq(S)
          /\ Len(<<a, b>>) = 2 /\ Len(<<c>>) = 1 /\ Len(<<a, b, c>>) = 3
          /\ <<a, b>>[1] = a /\ <<a, b>>[2] = b /\ <<c>>[1] = c
          /\ <<a, b, c>>[1] = a /\ <<a, b, c>>[2] = b /\ <<a, b, c>>[3] = c
        OBVIOUS
    <2> HIDE DEF S
    <2>2. /\ <<a, b>> \o <<c>> \in Seq(S) /\ Len(<<a, b>> \o <<c>>) = 3
          /\ (<<a, b>> \o <<c>>)[1] = a /\ (<<a, b>> \o <<c>>)[2] = b
          /\ (<<a, b>> \o <<c>>)[3] = c
        BY <2>1, ConcatProperties
    <2>3. \A i \in 1 .. 3 : (<<a, b>> \o <<c>>)[i] = <<a, b, c>>[i]
        BY <2>1, <2>2
    <2> QED
        BY <2>1, <2>2, <2>3, SeqEqual
<1>3. <<a>> \o <<>> = <<a>> /\ <<>> \o <<a>> = <<a>>
    <2>1. <<a>> \in Seq(S)
        OBVIOUS
    <2> QED
        BY <2>1, ConcatEmptySeq
<1> QED
    BY <1>1, <1>2, <1>3

\* The arguments of the checks of the frontend.
LEMMA FrontendArguments ==
    ASSUME NEW m \in Managers
    PROVE  /\ FrontendTestBy(m, "inside") =
                OrderOf(m, IF m = "yarn" THEN <<Word("test"), Option("--runinband")>>
                           ELSE <<Word("test"), Option("--"), Option("--runinband")>>, "inside")
           /\ FrontendBuildBy(m, "inside") =
                OrderOf(m, IF m = "npm" THEN <<Word("run"), Word("build")>>
                           ELSE <<Word("build")>>, "inside")
<1>1. CASE m = "yarn"
    <2>1. FrontendTestBy(m, "inside") =
             OrderOf(m, <<Word("test"), Option("--runinband")>>, "inside")
        BY <1>1, Concatenated DEF FrontendTestBy
    <2>2. FrontendBuildBy(m, "inside") = OrderOf(m, <<Word("build")>>, "inside")
        BY <1>1, Concatenated DEF FrontendBuildBy
    <2> QED
        BY <1>1, <2>1, <2>2
<1>2. CASE m = "npm"
    <2>1. FrontendTestBy(m, "inside") =
             OrderOf(m, <<Word("test"), Option("--"), Option("--runinband")>>, "inside")
        BY <1>2, Concatenated DEF FrontendTestBy
    <2>2. FrontendBuildBy(m, "inside") = OrderOf(m, <<Word("run"), Word("build")>>, "inside")
        BY <1>2, Concatenated DEF FrontendBuildBy
    <2> QED
        BY <1>2, <2>1, <2>2
<1>3. CASE m = "pnpm"
    <2>1. FrontendTestBy(m, "inside") =
             OrderOf(m, <<Word("test"), Option("--"), Option("--runinband")>>, "inside")
        BY <1>3, Concatenated DEF FrontendTestBy
    <2>2. FrontendBuildBy(m, "inside") = OrderOf(m, <<Word("build")>>, "inside")
        BY <1>3, Concatenated DEF FrontendBuildBy
    <2> QED
        BY <1>3, <2>1, <2>2
<1> QED
    BY <1>1, <1>2, <1>3 DEF Managers

\* The kinds of the frontend run what the factories make for npm.
LEMMA RunsSame == CommandInv => SameCheck
<1> SUFFICES ASSUME CommandInv, launch.at = "resolved", order.arguments = <<>>,
                    order.executable = NoProgram
             PROVE  SameCheck
    BY DEF SameCheck
<1>1. launch.program = ProgramOf(order) /\ launch.arguments = Run(order)
    BY DEF CommandInv, LaunchFits
<1>2. ProgramOf(order).name = DefaultExecutable(order.kind)
    BY DEF ProgramOf
<1>3. CASE order.kind = "frontend_test"
    <2> DEFINE Made == FrontendTestBy("npm", "inside")
    <2>1. /\ Made.kind = "npm" /\ Made.executable = NoProgram
          /\ Made.arguments = <<Word("test"), Option("--"), Option("--runinband")>>
        BY FrontendArguments DEF OrderOf, Managers
    <2>2. ProgramOf(Made).name = "npm" /\ Run(Made) = Made.arguments
        BY <2>1 DEF ProgramOf, Run, DefaultExecutable, OfPython
    <2>3. Run(order) = <<Word("test"), Option("--"), Option("--runinband")>>
        BY <1>3 DEF Run
    <2>4. DefaultExecutable(order.kind) = "npm"
        BY <1>3 DEF DefaultExecutable, OfPython
    <2> QED
        BY <1>1, <1>2, <1>3, <2>1, <2>2, <2>3, <2>4 DEF SameCheck
<1>4. CASE order.kind = "frontend_build"
    <2> DEFINE Made == FrontendBuildBy("npm", "inside")
    <2>1. /\ Made.kind = "npm" /\ Made.executable = NoProgram
          /\ Made.arguments = <<Word("run"), Word("build")>>
        BY FrontendArguments DEF OrderOf, Managers
    <2>2. ProgramOf(Made).name = "npm" /\ Run(Made) = Made.arguments
        BY <2>1 DEF ProgramOf, Run, DefaultExecutable, OfPython
    <2>3. Run(order) = <<Word("run"), Word("build")>>
        BY <1>4 DEF Run
    <2>4. DefaultExecutable(order.kind) = "npm"
        BY <1>4 DEF DefaultExecutable, OfPython
    <2> QED
        BY <1>1, <1>2, <1>4, <2>1, <2>2, <2>3, <2>4 DEF SameCheck
<1>5. CASE order.kind = "typescript"
    <2> DEFINE Made == TypeScriptCheck("inside")
    <2>1. /\ Made.kind = "npx" /\ Made.executable = NoProgram
          /\ Made.arguments = <<Word("tsc"), Option("--noemit")>>
        BY DEF TypeScriptCheck, OrderOf
    <2>2. ProgramOf(Made).name = "npx" /\ Run(Made) = Made.arguments
        BY <2>1 DEF ProgramOf, Run, DefaultExecutable, OfPython
    <2>3. Run(order) = <<Word("tsc"), Option("--noemit")>>
        BY <1>5 DEF Run
    <2>4. DefaultExecutable(order.kind) = "npx"
        BY <1>5 DEF DefaultExecutable, OfPython
    <2> QED
        BY <1>1, <1>2, <1>5, <2>1, <2>2, <2>3, <2>4 DEF SameCheck
<1>6. CASE order.kind \notin {"frontend_test", "frontend_build", "typescript"}
    BY <1>1, <1>6 DEF SameCheck
<1> QED
    BY <1>3, <1>4, <1>5, <1>6

(* What the factories make, one kind after the other.                            *)
LEMMA ArgumentIs ==
    ASSUME NEW n
    PROVE  /\ Word(n).name = n /\ Word(n).dash = FALSE
           /\ Word(n).at = "nowhere" /\ Word(n).text = "plain"
           /\ Option(n).name = n /\ Option(n).dash = TRUE /\ Option(n).text = "plain"
           /\ Dot.name = "." /\ Dot.dash = FALSE /\ Dot.at = "inside" /\ Dot.text = "plain"
BY DEF Word, Option, Dot, FileAt, Argument

LEMMA CommonAre ==
    ASSUME NEW args,
           \A i \in DOMAIN args :
               /\ args[i].text = "plain"
               /\ args[i].name \notin {"--exec", "-exec", "--command", "-command", "-c", "-enc",
                                       "-encodedcommand", "--eval", "-e", "/c", "/k"}
    PROVE  Common(args)
<1> SUFFICES ASSUME NEW i \in DOMAIN args
             PROVE  /\ args[i] \notin Exactly({"--exec", "-exec", "--command", "-command", "-c",
                                               "-enc", "-encodedcommand", "--eval", "-e"})
                    /\ args[i] \notin {Word("/c"), Word("/k")}
                    /\ args[i].text # "composed"
    BY DEF Common
<1>1. ASSUME NEW n, args[i] = Option(n) PROVE n = args[i].name
    <2>1. Option(n).name = n
        BY ArgumentIs
    <2> QED
        BY <1>1, <2>1
<1>2. args[i] # Word("/c") /\ args[i] # Word("/k")
    <2>1. Word("/c").name = "/c" /\ Word("/k").name = "/k"
        BY DEF Word, Argument
    <2>2. args[i].name # "/c" /\ args[i].name # "/k"
        OBVIOUS
    <2> QED
        BY <2>1, <2>2
<1>3. ASSUME args[i] \in Exactly({"--exec", "-exec", "--command", "-command", "-c",
                                 "-enc", "-encodedcommand", "--eval", "-e"})
      PROVE  FALSE
    <2>1. PICK n \in {"--exec", "-exec", "--command", "-command", "-c",
                      "-enc", "-encodedcommand", "--eval", "-e"} : args[i] = Option(n)
        BY <1>3 DEF Exactly
    <2> QED
        BY <1>1, <2>1
<1>4. args[i].text # "composed"
    OBVIOUS
<1> QED
    BY <1>2, <1>3, <1>4

\* An argument that is one of the ones that are harmless anywhere.
Harmless(x) ==
    /\ x.text = "plain" /\ x.at # "outside"
    /\ x.name \in {".", "check", "-v", "test", "--", "--runinband", "run", "build", "tsc",
                   "--noemit"}

LEMMA HarmlessAreCommon ==
    ASSUME NEW args, \A i \in DOMAIN args : Harmless(args[i])
    PROVE  Common(args)
<1>1. \A i \in DOMAIN args :
         /\ args[i].text = "plain"
         /\ args[i].name \notin {"--exec", "-exec", "--command", "-command", "-c", "-enc",
                                 "-encodedcommand", "--eval", "-e", "/c", "/k"}
    BY DEF Harmless
<1> QED
    BY <1>1, CommonAre

\* Sequences of one to three arguments.
LEMMA OfHarmless ==
    /\ \A i \in DOMAIN <<>> : Harmless(<<>>[i])
    /\ \A x : Harmless(x) => \A i \in DOMAIN <<x>> : Harmless(<<x>>[i])
    /\ \A x, y : Harmless(x) /\ Harmless(y) =>
          \A i \in DOMAIN <<x, y>> : Harmless(<<x, y>>[i])
    /\ \A x, y, z : Harmless(x) /\ Harmless(y) /\ Harmless(z) =>
          \A i \in DOMAIN <<x, y, z>> : Harmless(<<x, y, z>>[i])
OBVIOUS

LEMMA TheseAreHarmless ==
    /\ Harmless(Dot) /\ Harmless(Word("check")) /\ Harmless(Option("-v"))
    /\ Harmless(Word("test")) /\ Harmless(Option("--")) /\ Harmless(Option("--runinband"))
    /\ Harmless(Word("run")) /\ Harmless(Word("build"))
    /\ Harmless(Word("tsc")) /\ Harmless(Option("--noemit"))
<1>1. Harmless(Dot)
    BY ArgumentIs DEF Harmless
<1>2. \A n \in {"check", "test", "run", "build", "tsc"} : Harmless(Word(n))
    BY DEF Harmless, Word, Argument
<1>3. \A n \in {"-v", "--", "--runinband", "--noemit"} : Harmless(Option(n))
    BY DEF Harmless, Option, Argument
<1> QED
    BY <1>1, <1>2, <1>3

\* What is made well, by whom there may be.
Fine(o) == o.sets = {} /\ ValidFor(o)

\* What the rules of each kind ask of them.
LEMMA HarmlessAreAllowed ==
    ASSUME NEW args, \A i \in DOMAIN args : Harmless(args[i])
    PROVE  /\ PytestArguments(args) /\ AnalysisArguments(args)
           /\ args # <<>> => ManagerArguments(args) /\ NpxArguments(args)
<1> DEFINE Names == {".", "check", "-v", "test", "--", "--runinband", "run", "build", "tsc",
                     "--noemit"}
<1>1. \A i \in DOMAIN args : args[i].name \in Names /\ args[i].at # "outside"
    BY DEF Harmless
<1>2. FilesInside(args)
    BY <1>1 DEF FilesInside
<1>3. PytestArguments(args)
    <2>1. \A n \in Names : n \notin {"--pdb", "--trace", "--pdbcls", "--basetemp"}
        OBVIOUS
    <2> HIDE DEF Names
    <2> QED
        BY <1>1, <1>2, <2>1 DEF PytestArguments, NoneNamed
<1>4. AnalysisArguments(args)
    <2>1. \A n \in Names : n \notin {"--config", "--config-file", "--python-executable",
                                    "--custom-typeshed-dir", "--plugins"}
        OBVIOUS
    <2> HIDE DEF Names
    <2> QED
        BY <1>1, <1>2, <2>1 DEF AnalysisArguments, NoneNamed
<1>5. ASSUME args # <<>> PROVE ManagerArguments(args)
    <2>1. \A n \in Names :
             /\ n \notin ForbiddenCommands
             /\ n \notin {"--global", "-g", "--registry", "--userconfig", "--globalconfig",
                          "--prefix", "--script-shell", "--unsafe-perm"}
        BY DEF ForbiddenCommands
    <2> HIDE DEF Names
    <2>2. FirstCommand(args) \subseteq DOMAIN args
        BY DEF FirstCommand
    <2> QED
        BY <1>1, <1>5, <2>1, <2>2 DEF ManagerArguments, NoneNamed
<1>6. ASSUME args # <<>> PROVE NpxArguments(args)
    <2>1. \A n \in Names : n \notin {"--package", "-p", "--shell", "-c", "--call", "--yes", "-y"}
        OBVIOUS
    <2> HIDE DEF Names
    <2> QED
        BY <1>1, <1>6, <2>1 DEF NpxArguments, NoneNamed
<1> QED
    BY <1>3, <1>4, <1>5, <1>6

LEMMA PythonIsFine ==
    /\ Fine(PythonCompile(<<Dot>>, "inside")) /\ Fine(Pytest(<<>>, "inside"))
    /\ Fine(Ruff("inside")) /\ Fine(Mypy("inside"))
    /\ \A v \in BOOLEAN : Fine(Unittest(v, <<>>, "inside"))
<1>1. \A i \in DOMAIN <<Dot>> : Harmless(<<Dot>>[i])
    BY TheseAreHarmless, OfHarmless
<1>2. \A i \in DOMAIN <<>> : Harmless(<<>>[i])
    OBVIOUS
<1>3. Fine(PythonCompile(<<Dot>>, "inside"))
    <2>1. CompileArguments(<<Dot>>)
        <3>1. \A i \in DOMAIN <<Dot>> : <<Dot>>[i] = Dot
            OBVIOUS
        <3>2. <<Dot>> # <<>>
            OBVIOUS
        <3> QED
            BY <3>1, <3>2, ArgumentIs DEF CompileArguments
    <2>2. Common(<<Dot>>)
        BY <1>1, HarmlessAreCommon
    <2> QED
        BY <2>1, <2>2 DEF Fine, PythonCompile, OrderOf, ValidFor, Managers
<1>4. Fine(Pytest(<<>>, "inside"))
    <2>1. Common(<<>>) /\ PytestArguments(<<>>)
        BY <1>2, HarmlessAreCommon, HarmlessAreAllowed
    <2> QED
        BY <2>1 DEF Fine, Pytest, OrderOf, ValidFor, Managers
<1>5. Fine(Ruff("inside"))
    <2> DEFINE args == <<Word("check"), Dot>>
    <2>1. \A i \in DOMAIN args : Harmless(args[i])
        BY TheseAreHarmless, OfHarmless
    <2>2. Common(args) /\ AnalysisArguments(args)
        <3> HIDE DEF args
        <3> QED
            BY <2>1, HarmlessAreCommon, HarmlessAreAllowed
    <2> QED
        BY <2>2 DEF Fine, Ruff, OrderOf, ValidFor, Managers
<1>6. Fine(Mypy("inside"))
    <2>1. Common(<<Dot>>) /\ AnalysisArguments(<<Dot>>)
        BY <1>1, HarmlessAreCommon, HarmlessAreAllowed
    <2> QED
        BY <2>1 DEF Fine, Mypy, OrderOf, ValidFor, Managers
<1>7. ASSUME NEW v \in BOOLEAN PROVE Fine(Unittest(v, <<>>, "inside"))
    <2>1. Common(<<>>) /\ UnittestArguments(<<>>)
        BY <1>2, HarmlessAreCommon DEF UnittestArguments
    <2>2. Common(<<Option("-v")>>)
        <3>1. \A i \in DOMAIN <<Option("-v")>> : Harmless(<<Option("-v")>>[i])
            BY TheseAreHarmless, OfHarmless
        <3> QED
            BY <3>1, HarmlessAreCommon
    <2>3. UnittestArguments(<<Option("-v")>>)
        <3>1. \A i \in DOMAIN <<Option("-v")>> : <<Option("-v")>>[i] = Option("-v")
            OBVIOUS
        <3>2. Option("-v").dash /\ Option("-v") \in UnittestOptions
            BY ArgumentIs DEF UnittestOptions, Exactly
        <3> QED
            BY <3>1, <3>2 DEF UnittestArguments
    <2>4. CASE v
        <3>1. Unittest(v, <<>>, "inside") = OrderOf("unittest", <<Option("-v")>>, "inside")
            BY <2>4, Concatenated DEF Unittest
        <3> QED
            BY <2>2, <2>3, <3>1 DEF Fine, OrderOf, ValidFor, Managers
    <2>5. CASE ~v
        <3>1. Unittest(v, <<>>, "inside") = OrderOf("unittest", <<>>, "inside")
            BY <2>5 DEF Unittest
        <3> QED
            BY <2>1, <3>1 DEF Fine, OrderOf, ValidFor, Managers
    <2> QED
        BY <2>4, <2>5
<1> QED
    BY <1>3, <1>4, <1>5, <1>6, <1>7

LEMMA FrontendIsFine ==
    /\ \A m \in Managers : Fine(FrontendTestBy(m, "inside")) /\ Fine(FrontendBuildBy(m, "inside"))
    /\ Fine(TypeScriptCheck("inside"))
<1> DEFINE Four == {<<Word("test"), Option("--runinband")>>,
                    <<Word("test"), Option("--"), Option("--runinband")>>,
                    <<Word("run"), Word("build")>>, <<Word("build")>>}
<1>1. ASSUME NEW args, args # <<>>, \A i \in DOMAIN args : Harmless(args[i]), NEW m \in Managers
      PROVE  Fine(OrderOf(m, args, "inside"))
    <2>1. Common(args) /\ ManagerArguments(args)
        BY <1>1, HarmlessAreCommon, HarmlessAreAllowed
    <2> QED
        BY <2>1 DEF Fine, OrderOf, ValidFor, Managers
<1>2. ASSUME NEW args \in Four PROVE args # <<>> /\ \A i \in DOMAIN args : Harmless(args[i])
    <2>1. CASE args = <<Word("test"), Option("--runinband")>>
        BY <2>1, TheseAreHarmless
    <2>2. CASE args = <<Word("test"), Option("--"), Option("--runinband")>>
        BY <2>2, TheseAreHarmless
    <2>3. CASE args = <<Word("run"), Word("build")>>
        BY <2>3, TheseAreHarmless
    <2>4. CASE args = <<Word("build")>>
        BY <2>4, TheseAreHarmless
    <2> QED
        BY <2>1, <2>2, <2>3, <2>4
<1>3. \A args \in Four, m \in Managers : Fine(OrderOf(m, args, "inside"))
    BY <1>1, <1>2
<1>4. Fine(TypeScriptCheck("inside"))
    <2> DEFINE args == <<Word("tsc"), Option("--noemit")>>
    <2>1. args # <<>> /\ \A i \in DOMAIN args : Harmless(args[i])
        BY TheseAreHarmless
    <2>2. Common(args) /\ NpxArguments(args)
        <3> HIDE DEF args
        <3> QED
            BY <2>1, HarmlessAreCommon, HarmlessAreAllowed
    <2> QED
        BY <2>2 DEF Fine, TypeScriptCheck, OrderOf, ValidFor, Managers
<1>5. ASSUME NEW m \in Managers
      PROVE  Fine(FrontendTestBy(m, "inside")) /\ Fine(FrontendBuildBy(m, "inside"))
    <2>1. \E args \in Four : FrontendTestBy(m, "inside") = OrderOf(m, args, "inside")
        BY FrontendArguments
    <2>2. \E args \in Four : FrontendBuildBy(m, "inside") = OrderOf(m, args, "inside")
        BY FrontendArguments
    <2> QED
        BY <1>3, <2>1, <2>2
<1> QED
    BY <1>4, <1>5

LEMMA DefaultsAreFine == \A o \in MadeByDefault : Fine(o)
<1> SUFFICES ASSUME NEW o \in MadeByDefault PROVE Fine(o)
    OBVIOUS
<1>1. ASSUME NEW included \in SomeIncluded,
             o \in ToSet(DefaultSequence(included, "inside", "inside"))
      PROVE  Fine(o)
    <2> DEFINE Seven == {PythonCompile(<<Dot>>, "inside"), Pytest(<<>>, "inside"),
                         Ruff("inside"), Mypy("inside"), FrontendTestBy("npm", "inside"),
                         TypeScriptCheck("inside"), FrontendBuildBy("npm", "inside")}
               If(what, p) == IF what \in included THEN <<p>> ELSE <<>>
    <2>1. \A p \in Seven : Fine(p)
        BY PythonIsFine, FrontendIsFine DEF Managers
    <2>2. ASSUME NEW p \in Seven, NEW q \in Seven, NEW what
          PROVE  <<p, q>> \in Seq(Seven) /\ <<p>> \in Seq(Seven) /\ If(what, p) \in Seq(Seven)
        <3> HIDE DEF Seven
        <3> QED
            OBVIOUS
    <2>3. /\ PythonCompile(<<Dot>>, "inside") \in Seven /\ Pytest(<<>>, "inside") \in Seven
          /\ TypeScriptCheck("inside") \in Seven
          /\ Ruff("inside") \in Seven /\ Mypy("inside") \in Seven
          /\ FrontendTestBy("npm", "inside") \in Seven
          /\ FrontendBuildBy("npm", "inside") \in Seven
        OBVIOUS
    <2>4. /\ <<PythonCompile(<<Dot>>, "inside"), Pytest(<<>>, "inside")>> \in Seq(Seven)
          /\ <<TypeScriptCheck("inside")>> \in Seq(Seven)
          /\ If("ruff", Ruff("inside")) \in Seq(Seven)
          /\ If("mypy", Mypy("inside")) \in Seq(Seven)
          /\ If("tests", FrontendTestBy("npm", "inside")) \in Seq(Seven)
          /\ If("build", FrontendBuildBy("npm", "inside")) \in Seq(Seven)
        BY <2>2, <2>3
    <2>5. DefaultSequence(included, "inside", "inside") =
             <<PythonCompile(<<Dot>>, "inside"), Pytest(<<>>, "inside")>>
             \o If("ruff", Ruff("inside")) \o If("mypy", Mypy("inside"))
             \o If("tests", FrontendTestBy("npm", "inside"))
             \o <<TypeScriptCheck("inside")>>
             \o If("build", FrontendBuildBy("npm", "inside"))
        BY DEF DefaultSequence
    <2> HIDE DEF Seven, If
    <2>6. DefaultSequence(included, "inside", "inside") \in Seq(Seven)
        <3>1. ASSUME NEW s \in Seq(Seven), NEW t \in Seq(Seven) PROVE s \o t \in Seq(Seven)
            BY ConcatProperties
        <3> DEFINE a == <<PythonCompile(<<Dot>>, "inside"), Pytest(<<>>, "inside")>>
                   b == If("ruff", Ruff("inside"))
                   c == If("mypy", Mypy("inside"))
                   d == If("tests", FrontendTestBy("npm", "inside"))
                   e == <<TypeScriptCheck("inside")>>
                   f == If("build", FrontendBuildBy("npm", "inside"))
        <3>2. /\ a \in Seq(Seven) /\ b \in Seq(Seven) /\ c \in Seq(Seven)
              /\ d \in Seq(Seven) /\ e \in Seq(Seven) /\ f \in Seq(Seven)
              /\ DefaultSequence(included, "inside", "inside") = a \o b \o c \o d \o e \o f
            BY <2>4, <2>5
        <3> HIDE DEF a, b, c, d, e, f
        <3>3. a \o b \o c \in Seq(Seven)
            BY <3>1, <3>2
        <3>4. a \o b \o c \o d \o e \in Seq(Seven)
            BY <3>1, <3>2, <3>3
        <3> QED
            BY <3>1, <3>2, <3>4
    <2>7. PICK i \in DOMAIN DefaultSequence(included, "inside", "inside") :
             o = DefaultSequence(included, "inside", "inside")[i]
        <3> HIDE DEF Seven, If
        <3> DEFINE s == DefaultSequence(included, "inside", "inside")
        <3>1. o \in {s[j] : j \in DOMAIN s}
            BY <1>1 DEF ToSet
        <3> HIDE DEF s
        <3>2. \E j \in DOMAIN s : o = s[j]
            BY <3>1
        <3> QED
            BY <3>2 DEF s
    <2>8. o \in Seven
        BY <2>6, <2>7
    <2> QED
        BY <2>1, <2>8
<1>2. CASE \E included \in SomeIncluded :
               o \in ToSet(DefaultSequence(included, "inside", "inside"))
    BY <1>1, <1>2
<1>3. CASE o \in {FrontendTestBy(m, "inside") : m \in Managers}
                 \cup {FrontendBuildBy(m, "inside") : m \in Managers}
    BY <1>3, FrontendIsFine
<1>4. CASE o \in {Unittest(v, <<>>, "inside") : v \in BOOLEAN}
    BY <1>4, PythonIsFine
<1>5. \/ \E included \in SomeIncluded :
             o \in ToSet(DefaultSequence(included, "inside", "inside"))
      \/ o \in {FrontendTestBy(m, "inside") : m \in Managers}
                  \cup {FrontendBuildBy(m, "inside") : m \in Managers}
      \/ o \in {Unittest(v, <<>>, "inside") : v \in BOOLEAN}
    <2> DEFINE Sequences == {ToSet(DefaultSequence(i, "inside", "inside")) : i \in SomeIncluded}
    <2>1. \A x \in UNION Sequences : \E included \in SomeIncluded :
             x \in ToSet(DefaultSequence(included, "inside", "inside"))
        OBVIOUS
    <2>2. o \in (UNION Sequences)
             \cup {FrontendTestBy(m, "inside") : m \in Managers}
             \cup {FrontendBuildBy(m, "inside") : m \in Managers}
             \cup {Unittest(v, <<>>, "inside") : v \in BOOLEAN}
        BY DEF MadeByDefault
    <2> HIDE DEF Sequences
    <2> QED
        BY <2>1, <2>2
<1> QED
    BY <1>2, <1>3, <1>4, <1>5

\* Nothing that the factories make is refused but for want of a program.
LEMMA DefaultsResolve == CommandInv => DefaultsStart
<1> SUFFICES ASSUME CommandInv, launch.at = "refused", order \in MadeByDefault
             PROVE  \/ Place(ProgramOf(order)) = "nowhere"
                    \/ ProgramOf(order).name \notin configuration.paths
    BY DEF DefaultsStart
<1>1. ~Resolves(order)
    BY DEF CommandInv, LaunchFits
<1>2. Fine(order)
    BY DefaultsAreFine
<1> QED
    BY <1>1, <1>2 DEF Resolves, Fine, SafelySet, Findable

\* What is run of the checks is what was asked for, in the repository, and what the
\* factories make is run: for every order, configuration, environment and program.
THEOREM ChecksAreRunAlways == CommandSpec => []ChecksAreRun
BY CommandsFit, StaysInside, RunsSame, DefaultsResolve, PTL DEF ChecksAreRun

(* --------------------------- structured calls -------------------------- *)

StructuredSpec == StructuredInit /\ [][StructuredStep]_exchangeVars

Message == [role : STRING, length : Nat, blanks : Nat]

\* How far a call is says what has been checked.
CallFits ==
    /\ request \in Requests
    /\ DOMAIN exchange = {"at", "sent", "format", "reply", "checked"}
    /\ exchange.at \in {"asked", "refused", "verifying", "payload", "sent", "failed", "parsed",
                        "made", "returned"}
    /\ exchange.at = "asked" => exchange.sent = <<>>
    /\ exchange.sent # <<>> => Askable /\ exchange.sent = ToSend /\ exchange.format = Format
    /\ exchange.at \in {"verifying", "payload", "sent", "parsed", "made", "returned"} =>
          exchange.sent # <<>>
    /\ exchange.at \in {"parsed", "made", "returned"} =>
          WholeReply(exchange.reply) /\ Parsed(exchange.reply)
    /\ exchange.at \in {"made", "returned"} /\ ByModel => exchange.reply.fits

LEMMA RequestIs ==
    ASSUME request \in Requests
    PROVE  /\ request.messages \in Seq(Message)
           /\ request.schema \in {"none", "model", "mapping", "empty", "both"}
BY RequestAssumption DEF Message

\* What is put behind the last message of the user's, or after it.
LEMMA ToldIs ==
    ASSUME NEW m \in Seq(Message), m # <<>>
    PROVE  /\ Len(Tell(m)) \in Nat \ {0}
           /\ Len(Tell(m)) - Len(m) \in {0, 1}
           /\ Tell(m)[Len(Tell(m))].role = "user"
           /\ Front(Tell(m)) = SubSeq(m, 1, Len(Tell(m)) - 1)
           /\ Len(Tell(m)) > Len(m) => m[Len(m)].role # "user"
<1> DEFINE Told(length) == [role |-> "user", length |-> length, blanks |-> 0]
           n == Len(m)
           longer == Told(m[n].length - m[n].blanks + Separator + InstructionLength)
           further == Told(InstructionLength)
           S == Message \cup {longer, further}
<1>1. Tell(m) = IF m[n].role = "user" THEN Append(SubSeq(m, 1, n - 1), longer)
                ELSE Append(m, further)
    BY DEF Tell, Last, Front
<1>2. /\ longer.role = "user" /\ further.role = "user" /\ longer \in S /\ further \in S
      /\ m \in Seq(S)
    OBVIOUS
<1>3. n \in Nat /\ n > 0
    OBVIOUS
<1> HIDE DEF longer, further, S
<1>4. ASSUME NEW f \in Seq(S), NEW x \in S
      PROVE  /\ Len(Append(f, x)) = Len(f) + 1 /\ Append(f, x)[Len(f) + 1] = x
             /\ Append(f, x) \in Seq(S)
             /\ SubSeq(Append(f, x), 1, Len(f)) = f
    <2>1. Len(Append(f, x)) = Len(f) + 1 /\ Append(f, x)[Len(f) + 1] = x
          /\ Append(f, x) \in Seq(S)
        BY AppendProperties
    <2>2. Front(Append(f, x)) = SubSeq(Append(f, x), 1, Len(f))
        BY <2>1 DEF Front
    <2>3. /\ SubSeq(Append(f, x), 1, Len(f)) \in Seq(S)
          /\ Len(SubSeq(Append(f, x), 1, Len(f))) = Len(f)
          /\ \A i \in 1 .. Len(f) : SubSeq(Append(f, x), 1, Len(f))[i] = Append(f, x)[i]
        BY <2>1
    <2>4. \A i \in 1 .. Len(f) : Append(f, x)[i] = f[i]
        BY AppendProperties
    <2> QED
        BY <2>1, <2>3, <2>4, SeqEqual
<1>5. CASE m[n].role = "user"
    <2>1. SubSeq(m, 1, n - 1) \in Seq(S) /\ Len(SubSeq(m, 1, n - 1)) = n - 1
        <3>1. n - 1 \in Nat /\ n - 1 <= n /\ \A i \in 1 .. n - 1 : i \in 1 .. n
            BY <1>3
        <3>2. \A i \in 1 .. n - 1 : m[i] \in S
            BY <1>2, <3>1
        <3>3. PICK k \in Nat : k = n - 1
            BY <3>1
        <3>4. /\ SubSeq(m, 1, k) \in Seq(S)
              /\ Len(SubSeq(m, 1, k)) = IF 1 <= k THEN k - 1 + 1 ELSE 0
            <4>1. 1 \in Int /\ k \in Int /\ \A i \in 1 .. k : m[i] \in S
                BY <3>2, <3>3
            <4> QED
                BY <4>1, SubSeqProperties
        <3> QED
            BY <3>3, <3>4
    <2>2. PICK f \in Seq(S) : f = SubSeq(m, 1, n - 1) /\ Len(f) = n - 1
        BY <2>1
    <2>3. Tell(m) = Append(f, longer)
        BY <1>1, <1>5, <2>2
    <2>4. Len(Tell(m)) = n /\ Tell(m)[n] = longer /\ SubSeq(Tell(m), 1, n - 1) = f
        BY <1>2, <1>3, <1>4, <2>2, <2>3
    <2> QED
        BY <1>2, <1>3, <2>2, <2>4 DEF Front
<1>6. CASE m[n].role # "user"
    <2>1. Tell(m) = Append(m, further)
        BY <1>1, <1>6
    <2>2. Len(Tell(m)) = n + 1 /\ Tell(m)[n + 1] = further /\ SubSeq(Tell(m), 1, n) = m
        BY <1>2, <1>3, <1>4, <2>1
    <2>3. SubSeq(m, 1, n) = m
        <3>1. /\ SubSeq(m, 1, n) \in Seq(S) /\ Len(SubSeq(m, 1, n)) = n
              /\ \A i \in 1 .. n : SubSeq(m, 1, n)[i] = m[i]
            BY <1>2, <1>3
        <3> QED
            BY <1>2, <3>1, SeqEqual
    <2> QED
        BY <1>2, <1>3, <1>6, <2>2, <2>3 DEF Front
<1> QED
    BY <1>5, <1>6

\* One step takes a call from one stage to the next.
LEMMA StructuredKeepsFits ==
    ASSUME CallFits, [StructuredStep]_exchangeVars
    PROVE  CallFits'
<1>1. request' = request
    BY DEF StructuredStep, SendStructured, VerifyModel, Post, SendingFails, Receive, Validate,
           Return, exchangeVars
<1>2. /\ Askable' = Askable /\ ToSend' = ToSend /\ Format' = Format /\ ByModel' = ByModel
    BY <1>1 DEF Askable, Valid, ToSend, Format, ByModel, ArgumentsValid
<1>3. \A r : Parsed(r)' = Parsed(r)
    BY <1>1 DEF Parsed, ByModel
<1>4. PICK e : e = exchange'
    OBVIOUS
<1> DEFINE Fits(x) ==
        /\ DOMAIN x = {"at", "sent", "format", "reply", "checked"}
        /\ x.at \in {"asked", "refused", "verifying", "payload", "sent", "failed", "parsed",
                     "made", "returned"}
        /\ x.at = "asked" => x.sent = <<>>
        /\ x.sent # <<>> => Askable /\ x.sent = ToSend /\ x.format = Format
        /\ x.at \in {"verifying", "payload", "sent", "parsed", "made", "returned"} =>
              x.sent # <<>>
        /\ x.at \in {"parsed", "made", "returned"} => WholeReply(x.reply) /\ Parsed(x.reply)
        /\ x.at \in {"made", "returned"} /\ ByModel => x.reply.fits
<1>5. Fits(exchange) /\ request \in Requests
    BY DEF CallFits
<1>6. SUFFICES Fits(e)
    <2>1. ASSUME Fits(e) PROVE CallFits'
        BY <1>1, <1>2, <1>3, <1>4, <1>5, <2>1 DEF CallFits, WholeReply
    <2> QED
        BY <2>1
<1>7. CASE SendStructured
    <2>1. exchange.at = "asked" /\ exchange.sent = <<>>
        BY <1>5, <1>7 DEF SendStructured
    <2>2. CASE Askable
        <3>1. /\ DOMAIN e = DOMAIN exchange /\ e.at \in {"verifying", "payload"}
              /\ e.sent = ToSend /\ e.format = Format
            BY <1>4, <1>5, <1>7, <2>2 DEF SendStructured
        <3>2. e.sent # <<>>
            BY <2>2, <3>1 DEF Askable, Valid
        <3> QED
            BY <1>5, <2>2, <3>1, <3>2
    <2>3. CASE ~Askable
        <3>1. /\ DOMAIN e = DOMAIN exchange /\ e.at = "refused" /\ e.sent = <<>>
            BY <1>4, <1>5, <1>7, <2>1, <2>3 DEF SendStructured
        <3> QED
            BY <1>5, <3>1
    <2> QED
        BY <2>2, <2>3
<1>8. CASE VerifyModel
    <2>1. /\ exchange.at = "verifying" /\ DOMAIN e = DOMAIN exchange
          /\ e.at \in {"payload", "failed"} /\ e.sent = exchange.sent
          /\ e.format = exchange.format
        BY <1>4, <1>5, <1>8 DEF VerifyModel
    <2> QED
        BY <1>5, <2>1
<1>9. CASE Post
    <2>1. /\ exchange.at = "payload" /\ DOMAIN e = DOMAIN exchange
          /\ e.at \in {"refused", "sent"} /\ e.sent = exchange.sent
          /\ e.format = exchange.format
        BY <1>4, <1>5, <1>9 DEF Post
    <2> QED
        BY <1>5, <2>1
<1>10. CASE SendingFails
    <2>1. /\ DOMAIN e = DOMAIN exchange /\ e.at = "failed" /\ e.sent = exchange.sent
          /\ e.format = exchange.format
        BY <1>4, <1>5, <1>10 DEF SendingFails
    <2> QED
        BY <1>5, <2>1
<1>11. CASE Receive
    <2>1. PICK got \in Replies :
             exchange' = [exchange EXCEPT
                 !.at = IF WholeReply(got) /\ Parsed(got) THEN "parsed" ELSE "failed",
                 !.reply = got]
        BY <1>11 DEF Receive
    <2>2. exchange.at = "sent"
        BY <1>11 DEF Receive
    <2>3. /\ DOMAIN e = DOMAIN exchange /\ e.reply = got /\ e.sent = exchange.sent
          /\ e.format = exchange.format
          /\ e.at = IF WholeReply(got) /\ Parsed(got) THEN "parsed" ELSE "failed"
        BY <1>4, <1>5, <2>1
    <2>4. CASE WholeReply(got) /\ Parsed(got)
        BY <1>5, <2>2, <2>3, <2>4
    <2>5. CASE ~(WholeReply(got) /\ Parsed(got))
        <3>1. e.at = "failed"
            BY <2>3, <2>5
        <3> QED
            BY <1>5, <2>3, <3>1
    <2> QED
        BY <2>4, <2>5
<1>12. CASE Validate
    <2>1. exchange.at = "parsed"
        BY <1>12 DEF Validate
    <2>2. CASE ByModel
        <3>1. CASE exchange.reply.fits
            <4>1. /\ DOMAIN e = DOMAIN exchange /\ e.at = "made" /\ e.sent = exchange.sent
                  /\ e.format = exchange.format /\ e.reply = exchange.reply
                BY <1>4, <1>5, <1>12, <2>2, <3>1 DEF Validate
            <4> QED
                BY <1>5, <2>1, <3>1, <4>1
        <3>2. CASE ~exchange.reply.fits
            <4>1. /\ DOMAIN e = DOMAIN exchange /\ e.at = "failed" /\ e.sent = exchange.sent
                  /\ e.format = exchange.format
                BY <1>4, <1>5, <1>12, <2>2, <3>2 DEF Validate
            <4> QED
                BY <1>5, <4>1
        <3> QED
            BY <3>1, <3>2
    <2>3. CASE ~ByModel
        <3>1. /\ DOMAIN e = DOMAIN exchange /\ e.at = "made" /\ e.sent = exchange.sent
              /\ e.format = exchange.format /\ e.reply = exchange.reply
            BY <1>4, <1>5, <1>12, <2>3 DEF Validate
        <3> QED
            BY <1>5, <2>1, <2>3, <3>1
    <2> QED
        BY <2>2, <2>3
<1>13. CASE Return
    <2>1. /\ exchange.at = "made" /\ DOMAIN e = DOMAIN exchange
          /\ e.at \in {"failed", "returned"} /\ e.sent = exchange.sent
          /\ e.format = exchange.format /\ e.reply = exchange.reply
        BY <1>4, <1>5, <1>13 DEF Return
    <2> QED
        BY <1>5, <2>1
<1>14. CASE exchange' = exchange
    BY <1>4, <1>5, <1>14
<1> QED
    BY <1>7, <1>8, <1>9, <1>10, <1>11, <1>12, <1>13, <1>14 DEF StructuredStep, exchangeVars

LEMMA CallFitsAlways == StructuredSpec => []CallFits
<1>1. StructuredInit => CallFits
    BY DEF StructuredInit, CallFits
<1> QED
    BY <1>1, StructuredKeepsFits, PTL DEF StructuredSpec

LEMMA FitsInstructs == CallFits => InstructionIsGiven
<1> SUFFICES ASSUME CallFits, exchange.sent # <<>> PROVE InstructionIsGiven
    BY DEF InstructionIsGiven
<1>1. PICK asked \in Seq(Message) : asked = request.messages
    BY RequestIs DEF CallFits
<1>2. PICK sent : sent = exchange.sent
    OBVIOUS
<1>3. sent = ToSend /\ Valid(sent) /\ Valid(asked)
    BY <1>1, <1>2 DEF CallFits, Askable
<1>4. asked # <<>> /\ Len(sent) <= MaxMessages
      /\ \A i \in DOMAIN sent : sent[i].length <= MaxLength
    BY <1>3 DEF Valid
<1>5. CASE request.told
    <2>1. sent = Tell(asked)
        BY <1>1, <1>3, <1>5 DEF ToSend
    <2>2. /\ Len(sent) - Len(asked) \in {0, 1} /\ sent[Len(sent)].role = "user"
          /\ Front(sent) = SubSeq(asked, 1, Len(sent) - 1)
          /\ Len(sent) > Len(asked) => asked[Len(asked)].role # "user"
        BY <1>4, <2>1, ToldIs
    <2> QED
        BY <1>1, <1>2, <1>4, <1>5, <2>2 DEF InstructionIsGiven
<1>6. CASE ~request.told
    <2>1. sent = asked
        BY <1>1, <1>3, <1>6 DEF ToSend
    <2>2. Len(sent) - Len(asked) = 0
        BY <2>1
    <2> QED
        BY <1>1, <1>2, <1>4, <1>6, <2>1, <2>2 DEF InstructionIsGiven
<1> QED
    BY <1>5, <1>6

LEMMA FitsAnswers == CallFits => AnswerIsAsAsked
<1> SUFFICES ASSUME CallFits, exchange.at = "returned" PROVE AnswerIsAsAsked
    BY DEF AnswerIsAsAsked
<1>1. WholeReply(exchange.reply) /\ Parsed(exchange.reply) /\ (ByModel => exchange.reply.fits)
    BY DEF CallFits
<1>2. exchange.format = Format
    BY DEF CallFits
<1>3. ByModel => Format = "model"
    BY DEF ByModel, Format
<1> QED
    BY <1>1, <1>2, <1>3 DEF AnswerIsAsAsked, WholeReply, Parsed

\* Whatever is asked and answered: the model is told what is wanted in the last message,
\* within the limits, and what comes back is of the kind asked for.
THEOREM AnswersAreAsAsked == StructuredSpec => [](InstructionIsGiven /\ AnswerIsAsAsked)
BY CallFitsAlways, FitsInstructs, FitsAnswers, PTL

(* -------------------------------- calls -------------------------------- *)

Endpoints == {"version", "tags", "generate"}
Times(s, e) == Cardinality({n \in DOMAIN s : s[n] = e})


LEMMA TimesAppend ==
    ASSUME NEW s \in Seq(Endpoints), NEW x \in Endpoints, NEW e
    PROVE  /\ Times(s, e) \in Nat
           /\ x = e => Times(Append(s, x), e) = Times(s, e) + 1
           /\ x # e => Times(Append(s, x), e) = Times(s, e)
<1> DEFINE N == {n \in DOMAIN s : s[n] = e}
           M == {n \in DOMAIN Append(s, x) : Append(s, x)[n] = e}
<1>1. /\ Append(s, x) \in Seq(Endpoints) /\ Len(Append(s, x)) = Len(s) + 1
      /\ \A n \in 1 .. Len(s) : Append(s, x)[n] = s[n]
      /\ Append(s, x)[Len(s) + 1] = x
    BY AppendProperties
<1>2. DOMAIN s = 1 .. Len(s) /\ DOMAIN Append(s, x) = 1 .. Len(s) + 1 /\ Len(s) \in Nat
    BY <1>1
<1>3. IsFiniteSet(N)
    <2>1. IsFiniteSet(1 .. Len(s)) /\ N \subseteq 1 .. Len(s)
        BY <1>2, FS_Interval
    <2> QED
        BY <2>1, FS_Subset
<1>4. Len(s) + 1 \notin N
    BY <1>2
<1>5. x = e => M = N \cup {Len(s) + 1}
    BY <1>1, <1>2
<1>6. x # e => M = N
    BY <1>1, <1>2
<1> HIDE DEF N, M
<1>7. Cardinality(N) \in Nat /\ Cardinality(N \cup {Len(s) + 1}) = Cardinality(N) + 1
    BY <1>3, <1>4, FS_AddElement, FS_CardinalityType
<1>8. Times(s, e) = Cardinality(N) /\ Times(Append(s, x), e) = Cardinality(M)
    BY DEF Times, N, M
<1> QED
    BY <1>5, <1>6, <1>7, <1>8

LEMMA TimesNone == \A e : Times(<<>>, e) = 0
<1> SUFFICES ASSUME NEW e PROVE Times(<<>>, e) = 0
    OBVIOUS
<1>1. {n \in DOMAIN <<>> : <<>>[n] = e} = {}
    OBVIOUS
<1> QED
    BY <1>1, FS_EmptySet DEF Times

\* What is left to do of a call, by its first request.
Todos == {<<"version">>, <<"version", "tags">>, <<"tags">>, <<"generate">>, <<"tags", "generate">>}

LEMMA TodosAre ==
    ASSUME NEW d \in Todos
    PROVE  /\ d[1] \in Endpoints /\ d # <<>>
           /\ Tail(d) # <<>> =>
                 \/ d[1] = "version" /\ Tail(d) = <<"tags">>
                 \/ d = <<"tags", "generate">> /\ d[1] = "tags" /\ Tail(d) = <<"generate">>
<1>1. CASE d = <<"version">>
    BY <1>1 DEF Endpoints
<1>2. CASE d = <<"version", "tags">>
    <2>1. Tail(d) = <<"tags">>
        BY <1>2
    <2> QED
        BY <1>2, <2>1 DEF Endpoints
<1>3. CASE d = <<"tags">>
    BY <1>3 DEF Endpoints
<1>4. CASE d = <<"generate">>
    BY <1>4 DEF Endpoints
<1>5. CASE d = <<"tags", "generate">>
    <2>1. Tail(d) = <<"generate">>
        BY <1>5
    <2> QED
        BY <1>5, <2>1 DEF Endpoints
<1> QED
    BY <1>1, <1>2, <1>3, <1>4, <1>5 DEF Todos

\* What has been sent of a call: of the requests before the first one left to do, and
\* tries of that one.
TimesFit(k, v, t, g) ==
    /\ v \in {0, 1} /\ t \in {0, 1} /\ g \in Nat
    /\ k.todo[1] = "version" => t = 0 /\ g = 0 /\ (k.stage = "send" => v = 0)
    /\ k.todo[1] = "tags" => g = 0 /\ (k.stage = "send" => t = 0)
    /\ k.todo = <<"tags", "generate">> => v = 0
    /\ k.todo[1] = "generate" =>
          /\ v = 0
          /\ k.stage \in {"send", "sleep"} => g + k.left <= MaxRetries
          /\ k.stage = "await" => g + k.left <= MaxRetries + 1
SentFits(k) == TimesFit(k, Times(k.sent, "version"), Times(k.sent, "tags"), Times(k.sent, "generate"))

CallIs(k) ==
    \/ k = NoCall
    \/ /\ DOMAIN k = {"todo", "stage", "left", "client", "sent"}
       /\ k.stage \in {"send", "await", "sleep"} /\ k.todo \in Todos /\ k.left \in Nat
       /\ k.todo[1] # "generate" => k.left = 0 /\ k.stage # "sleep"
       /\ k.sent \in Seq(Endpoints) /\ SentFits(k)

LEMMA UnderWay ==
    ASSUME NEW k, CallIs(k), k.stage # "none"
    PROVE  /\ DOMAIN k = {"todo", "stage", "left", "client", "sent"}
           /\ k.stage \in {"send", "await", "sleep"} /\ k.todo \in Todos /\ k.left \in Nat
           /\ k.todo[1] # "generate" => k.left = 0 /\ k.stage # "sleep"
           /\ k.sent \in Seq(Endpoints) /\ SentFits(k)
BY DEF CallIs, NoCall

(* The steps of one call.                                                        *)
LEMMA CallBegins ==
    ASSUME NEW todo \in Calls, NEW k,
           k = [NoCall EXCEPT !.todo = todo, !.stage = "send", !.left = Tries(todo[1])]
    PROVE  CallIs(k) /\ k.stage = "send"
<1>1. /\ DOMAIN k = {"todo", "stage", "left", "client", "sent"} /\ k.stage = "send"
      /\ k.todo = todo /\ k.left = Tries(todo[1]) /\ k.sent = <<>>
    BY DEF NoCall
<1>2. todo \in Todos
    BY DEF Calls, Todos
<1>3. /\ Tries(todo[1]) \in Nat /\ Tries(todo[1]) <= MaxRetries /\ MaxRetries \in Nat
      /\ todo[1] # "generate" => Tries(todo[1]) = 0
    BY OllamaClientAssumption DEF Tries
<1>4. Times(<<>>, "version") = 0 /\ Times(<<>>, "tags") = 0 /\ Times(<<>>, "generate") = 0
    BY TimesNone
<1>5. TimesFit(k, 0, 0, 0)
    BY <1>1, <1>3 DEF TimesFit
<1>6. SentFits(k)
    BY <1>1, <1>4, <1>5 DEF SentFits
<1>7. k.sent \in Seq(Endpoints)
    <2>1. <<>> \in Seq(Endpoints)
        OBVIOUS
    <2> QED
        BY <1>1, <2>1
<1> QED
    BY <1>1, <1>2, <1>3, <1>6, <1>7 DEF CallIs

LEMMA CallSends ==
    ASSUME NEW k, CallIs(k), k.stage = "send", NEW client, NEW m, NEW w,
           w = Append(k.sent, k.todo[1]),
           DOMAIN m = DOMAIN k, m.stage = "await", m.client = client,
           m.sent = w, m.todo = k.todo, m.left = k.left
    PROVE  CallIs(m) /\ m.stage = "await" /\ m.client = client /\ m.todo = k.todo
<1>1. /\ DOMAIN k = {"todo", "stage", "left", "client", "sent"} /\ k.todo \in Todos /\ k.left \in Nat
      /\ k.todo[1] # "generate" => k.left = 0
      /\ k.sent \in Seq(Endpoints) /\ SentFits(k)
    BY UnderWay
<1>2. PICK x \in Endpoints : x = k.todo[1]
    BY <1>1, TodosAre
<1>3. /\ DOMAIN m = DOMAIN k /\ m.stage = "await" /\ m.client = client /\ m.todo = k.todo
      /\ m.left = k.left /\ m.sent = Append(k.sent, x)
    BY <1>1, <1>2
<1>4. m.sent \in Seq(Endpoints)
    BY <1>1, <1>3, AppendProperties
<1>5. PICK v, t, g : /\ v = Times(k.sent, "version") /\ t = Times(k.sent, "tags")
                     /\ g = Times(k.sent, "generate")
    OBVIOUS
<1>6. TimesFit(k, v, t, g)
    BY <1>1, <1>5 DEF SentFits
<1>7. /\ v \in Nat /\ t \in Nat /\ g \in Nat /\ v \in {0, 1} /\ t \in {0, 1}
      /\ MaxRetries \in Nat
    BY <1>6, OllamaClientAssumption DEF TimesFit
<1>8. PICK vv \in Nat, tt \in Nat, gg \in Nat :
         /\ vv = Times(m.sent, "version") /\ tt = Times(m.sent, "tags")
         /\ gg = Times(m.sent, "generate")
         /\ IF x = "version" THEN vv = v + 1 ELSE vv = v
         /\ IF x = "tags" THEN tt = t + 1 ELSE tt = t
         /\ IF x = "generate" THEN gg = g + 1 ELSE gg = g
    <2>1. IF x = "version" THEN Times(m.sent, "version") = v + 1
          ELSE Times(m.sent, "version") = v
        BY <1>1, <1>3, <1>5, TimesAppend
    <2>2. IF x = "tags" THEN Times(m.sent, "tags") = t + 1 ELSE Times(m.sent, "tags") = t
        BY <1>1, <1>3, <1>5, TimesAppend
    <2>3. IF x = "generate" THEN Times(m.sent, "generate") = g + 1
          ELSE Times(m.sent, "generate") = g
        BY <1>1, <1>3, <1>5, TimesAppend
    <2> QED
        BY <1>7, <2>1, <2>2, <2>3
<1>9. TimesFit(m, vv, tt, gg)
    <2>1. m.todo[1] = x /\ k.todo[1] = x /\ k.stage = "send" /\ m.stage = "await"
        BY <1>2, <1>3
    <2>2. CASE x = "version"
        <3>1. v = 0 /\ t = 0 /\ g = 0
            BY <1>6, <2>1, <2>2 DEF TimesFit
        <3>2. vv = 1 /\ tt = 0 /\ gg = 0
            BY <1>8, <2>2, <3>1
        <3>3. m.todo # <<"tags", "generate">>
            BY <2>1, <2>2
        <3> QED
            BY <2>1, <2>2, <3>2, <3>3 DEF TimesFit
    <2>3. CASE x = "tags"
        <3>1. t = 0 /\ g = 0 /\ (m.todo = <<"tags", "generate">> => v = 0)
            BY <1>3, <1>6, <2>1, <2>3 DEF TimesFit
        <3>2. vv = v /\ tt = 1 /\ gg = 0
            BY <1>8, <2>3, <3>1
        <3> QED
            BY <1>7, <2>1, <2>3, <3>1, <3>2 DEF TimesFit
    <2>4. CASE x = "generate"
        <3>1. v = 0 /\ t \in {0, 1} /\ g + k.left <= MaxRetries
            BY <1>6, <2>1, <2>4 DEF TimesFit
        <3>2. vv = 0 /\ tt = t /\ gg = g + 1
            BY <1>8, <2>4, <3>1
        <3>3. gg + m.left <= MaxRetries + 1
            BY <1>1, <1>3, <1>7, <3>1, <3>2
        <3>4. m.todo # <<"tags", "generate">>
            BY <2>1, <2>4
        <3> QED
            BY <2>1, <2>4, <3>1, <3>2, <3>3, <3>4 DEF TimesFit
    <2> QED
        BY <2>2, <2>3, <2>4 DEF Endpoints
<1>10. SentFits(m)
    BY <1>8, <1>9 DEF SentFits
<1> QED
    BY <1>1, <1>3, <1>4, <1>10 DEF CallIs

LEMMA CallGoesOn ==
    ASSUME NEW k, CallIs(k), k.stage = "await", Tail(k.todo) # <<>>, NEW m,
           m = [k EXCEPT !.todo = Tail(k.todo), !.stage = "send", !.left = Tries(Tail(k.todo)[1])]
    PROVE  CallIs(m) /\ m.stage = "send"
<1>1. /\ DOMAIN k = {"todo", "stage", "left", "client", "sent"} /\ k.todo \in Todos /\ k.left \in Nat
      /\ k.sent \in Seq(Endpoints) /\ SentFits(k)
    BY UnderWay
<1>2. PICK rest : rest = Tail(k.todo)
    OBVIOUS
<1>3. \/ k.todo[1] = "version" /\ rest = <<"tags">> /\ rest[1] = "tags"
      \/ k.todo = <<"tags", "generate">> /\ k.todo[1] = "tags" /\ rest = <<"generate">>
         /\ rest[1] = "generate"
    <2>1. <<"tags">>[1] = "tags" /\ <<"generate">>[1] = "generate"
        OBVIOUS
    <2> QED
        BY <1>1, <1>2, <2>1, TodosAre
<1>4. /\ DOMAIN m = DOMAIN k /\ m.stage = "send" /\ m.todo = rest
      /\ m.left = Tries(rest[1]) /\ m.sent = k.sent
    BY <1>1, <1>2
<1>5. rest \in Todos /\ rest # <<"tags", "generate">>
    BY <1>3 DEF Todos
<1>6. /\ Tries(rest[1]) \in Nat /\ Tries(rest[1]) <= MaxRetries /\ MaxRetries \in Nat
      /\ rest[1] # "generate" => Tries(rest[1]) = 0
    BY OllamaClientAssumption DEF Tries
<1>7. PICK v, t, g : /\ v = Times(k.sent, "version") /\ t = Times(k.sent, "tags")
                     /\ g = Times(k.sent, "generate")
    OBVIOUS
<1>8. TimesFit(k, v, t, g)
    BY <1>1, <1>7 DEF SentFits
<1>9. TimesFit(m, v, t, g)
    <2>1. CASE k.todo[1] = "version" /\ rest[1] = "tags"
        BY <1>4, <1>5, <1>6, <1>8, <2>1 DEF TimesFit
    <2>2. CASE k.todo = <<"tags", "generate">> /\ k.todo[1] = "tags" /\ rest[1] = "generate"
        BY <1>4, <1>5, <1>6, <1>8, <2>2 DEF TimesFit
    <2> QED
        BY <1>3, <2>1, <2>2
<1>10. SentFits(m)
    BY <1>4, <1>7, <1>9 DEF SentFits
<1> QED
    BY <1>1, <1>4, <1>5, <1>6, <1>10 DEF CallIs

LEMMA CallWaits ==
    ASSUME NEW k, CallIs(k), NEW m,
           \/ k.stage = "await" /\ k.left > 0 /\ m = [k EXCEPT !.stage = "sleep", !.left = @ - 1]
           \/ k.stage = "sleep" /\ m = [k EXCEPT !.stage = "send"]
    PROVE  CallIs(m) /\ m.stage \in {"sleep", "send"} /\ m.todo = k.todo
<1>1. /\ DOMAIN k = {"todo", "stage", "left", "client", "sent"} /\ k.todo \in Todos /\ k.left \in Nat
      /\ k.todo[1] # "generate" => k.left = 0 /\ k.stage # "sleep"
      /\ k.sent \in Seq(Endpoints) /\ SentFits(k)
    BY UnderWay
<1>2. k.todo[1] = "generate"
    <2>1. ASSUME k.left = 0 /\ k.stage # "sleep" PROVE FALSE
        BY <2>1
    <2> QED
        BY <1>1, <2>1
<1>3. /\ DOMAIN m = DOMAIN k /\ m.todo = k.todo /\ m.sent = k.sent
      /\ m.stage \in {"sleep", "send"} /\ m.left \in Nat
      /\ \/ k.stage = "await" /\ m.left + 1 = k.left
         \/ k.stage = "sleep" /\ m.left = k.left
    <2>1. CASE k.stage = "await" /\ k.left > 0 /\ m = [k EXCEPT !.stage = "sleep", !.left = @ - 1]
        <3>1. /\ DOMAIN m = DOMAIN k /\ m.todo = k.todo /\ m.sent = k.sent
              /\ m.stage = "sleep" /\ m.left = k.left - 1
            BY <1>1, <2>1
        <3>2. k.left - 1 \in Nat /\ k.left - 1 + 1 = k.left
            BY <1>1, <2>1
        <3> QED
            BY <2>1, <3>1, <3>2
    <2>2. CASE k.stage = "sleep" /\ m = [k EXCEPT !.stage = "send"]
        BY <1>1, <2>2
    <2> QED
        BY <2>1, <2>2
<1>4. \/ k.stage = "await" /\ m.left + 1 = k.left
      \/ k.stage = "sleep" /\ m.left = k.left
    BY <1>3
<1>5. PICK v, t, g : /\ v = Times(k.sent, "version") /\ t = Times(k.sent, "tags")
                     /\ g = Times(k.sent, "generate")
    OBVIOUS
<1>6. TimesFit(k, v, t, g)
    BY <1>1, <1>5 DEF SentFits
<1>7. v = 0 /\ t \in {0, 1} /\ g \in Nat /\ g + m.left <= MaxRetries
    BY <1>1, <1>2, <1>3, <1>4, <1>6, OllamaClientAssumption DEF TimesFit
<1>8. k.todo # <<"tags", "generate">>
    BY <1>2
<1>9. TimesFit(m, v, t, g)
    BY <1>2, <1>3, <1>7, <1>8 DEF TimesFit
<1>10. SentFits(m)
    BY <1>3, <1>5, <1>9 DEF SentFits
<1> QED
    BY <1>1, <1>2, <1>3, <1>10 DEF CallIs

(* ------------------------- clients and their loops --------------------- *)

\* A living loop has a number nobody else has, and the client under its id is its own
\* or one left by a loop that is gone.
LoopsFit ==
    /\ loops \in Nat
    /\ DOMAIN loop = CallThreads /\ DOMAIN clients = LoopIds
    /\ \A i \in LoopIds : clients[i] \in Nat /\ clients[i] <= loops
    /\ \A t \in CallThreads :
          loop[t] # NoLoop => /\ loop[t].id \in LoopIds
                              /\ loop[t].number \in Nat /\ loop[t].number > 0
                              /\ loop[t].number <= loops
    /\ \A t, u \in CallThreads :
          t # u /\ loop[t] # NoLoop /\ loop[u] # NoLoop =>
              loop[t].id # loop[u].id /\ loop[t].number # loop[u].number
    /\ \A t \in CallThreads, i \in LoopIds :
          loop[t] # NoLoop /\ clients[i] = loop[t].number => loop[t].id = i

CallsFit ==
    /\ DOMAIN call = CallThreads
    /\ \A t \in CallThreads : CallIs(call[t]) /\ (call[t].stage # "none" => loop[t] # NoLoop)
    /\ \A t \in CallThreads : call[t].stage = "await" =>
          /\ call[t].client \in Nat /\ call[t].client <= loops
          /\ \A u \in CallThreads :
                u # t /\ loop[u] # NoLoop => call[t].client # loop[u].number

\* A service that was at rest when it was closed stays so.
ClosedFits ==
    /\ closing \in {"open", "closed", "cleared"}
    /\ closing # "open" /\ ~late => \A t \in CallThreads : call[t].stage = "none"
    /\ closing = "cleared" /\ ~late => \A i \in LoopIds : clients[i] = 0

ClientInv == LoopsFit /\ CallsFit /\ ClosedFits

LEMMA ClientStarts == ClientInit => ClientInv
<1> SUFFICES ASSUME ClientInit PROVE ClientInv
    OBVIOUS
<1>1. LoopsFit
    <2>1. loops = 0 /\ loop = [t \in CallThreads |-> NoLoop] /\ clients = [i \in LoopIds |-> 0]
        BY DEF ClientInit
    <2> QED
        BY <2>1 DEF LoopsFit
<1>2. CallsFit
    <2>1. call = [t \in CallThreads |-> NoCall] /\ NoCall.stage = "none"
        BY DEF ClientInit, NoCall
    <2> QED
        BY <2>1 DEF CallsFit, CallIs
<1>3. ClosedFits
    BY DEF ClientInit, ClosedFits
<1> QED
    BY <1>1, <1>2, <1>3 DEF ClientInv

\* A step of one call that leaves loops and clients alone.
LEMMA OneCall ==
    ASSUME ClientInv, NEW t \in CallThreads, NEW m,
           call' = [call EXCEPT ![t] = m], UNCHANGED <<loop, loops, clients, closing, late>>,
           CallIs(m), m.stage # "await", m.stage # "none" => loop[t] # NoLoop,
           closing = "open" \/ m.stage = "none" \/ call[t].stage # "none"
    PROVE  ClientInv'
<1>1. /\ loop' = loop /\ loops' = loops /\ clients' = clients /\ closing' = closing
      /\ late' = late
    OBVIOUS
<1>2. /\ DOMAIN call' = CallThreads /\ call'[t] = m
      /\ \A u \in CallThreads \ {t} : call'[u] = call[u]
    BY DEF ClientInv, CallsFit
<1>3. LoopsFit'
    BY <1>1 DEF ClientInv, LoopsFit
<1>4. CallsFit'
    BY <1>1, <1>2 DEF ClientInv, CallsFit
<1>5. ClosedFits'
    BY <1>1, <1>2 DEF ClientInv, ClosedFits
<1> QED
    BY <1>3, <1>4, <1>5 DEF ClientInv

LEMMA EndKeepsInv ==
    ASSUME ClientInv, NEW t \in CallThreads, End(t)
    PROVE  ClientInv'
<1>1. CallIs(NoCall) /\ NoCall.stage = "none"
    BY DEF CallIs, NoCall
<1> QED
    BY <1>1, OneCall DEF End

LEMMA StartLoopKeepsInv ==
    ASSUME ClientInv, NEW t \in CallThreads, StartLoop(t)
    PROVE  ClientInv'
<1>1. PICK i \in LoopIds \ {loop[u].id : u \in CallThreads} :
         loop' = [loop EXCEPT ![t] = [id |-> i, number |-> loops + 1]]
    BY DEF StartLoop
<1>2. PICK n \in Nat : n = loops + 1 /\ n > loops /\ n > 0 /\ loops \in Nat
    BY DEF ClientInv, LoopsFit
<1>3. /\ loops' = n /\ clients' = clients /\ call' = call /\ closing' = closing /\ late' = late
      /\ loop[t] = NoLoop
    BY <1>2 DEF StartLoop
<1>4. /\ DOMAIN loop' = CallThreads /\ loop'[t].id = i /\ loop'[t].number = n
      /\ \A u \in CallThreads \ {t} : loop'[u] = loop[u]
    BY <1>1, <1>2 DEF ClientInv, LoopsFit
<1>5. /\ \A j \in LoopIds : clients[j] \in Nat /\ clients[j] <= loops
      /\ \A u \in CallThreads : loop[u] # NoLoop => loop[u].number \in Nat /\ loop[u].number <= loops
    BY DEF ClientInv, LoopsFit
<1>6. /\ \A j \in LoopIds : clients[j] <= n /\ clients[j] # n
      /\ \A u \in CallThreads : loop[u] # NoLoop => loop[u].number <= n /\ loop[u].number # n
    BY <1>2, <1>5
<1>7. LoopsFit'
    <2>1. ASSUME NEW u \in CallThreads, loop'[u] # NoLoop
          PROVE  /\ loop'[u].id \in LoopIds /\ loop'[u].number \in Nat
                 /\ loop'[u].number > 0 /\ loop'[u].number <= n
                 /\ \A j \in LoopIds : clients[j] = loop'[u].number => loop'[u].id = j
        <3>1. CASE u = t
            BY <1>1, <1>2, <1>4, <1>6, <3>1
        <3>2. CASE u # t
            <4>1. loop'[u] = loop[u] /\ loop[u] # NoLoop
                BY <1>4, <2>1, <3>2
            <4> QED
                BY <1>6, <4>1 DEF ClientInv, LoopsFit
        <3> QED
            BY <3>1, <3>2
    <2>2. ASSUME NEW u \in CallThreads, NEW v \in CallThreads, u # v, loop'[u] # NoLoop, loop'[v] # NoLoop
          PROVE  loop'[u].id # loop'[v].id /\ loop'[u].number # loop'[v].number
        <3>1. CASE u # t /\ v # t
            BY <1>4, <2>2, <3>1 DEF ClientInv, LoopsFit
        <3>2. CASE u = t
            <4>1. loop'[v] = loop[v] /\ loop[v] # NoLoop
                BY <1>4, <2>2, <3>2
            <4> QED
                BY <1>1, <1>4, <1>6, <3>2, <4>1
        <3>3. CASE v = t
            <4>1. loop'[u] = loop[u] /\ loop[u] # NoLoop
                BY <1>4, <2>2, <3>3
            <4> QED
                BY <1>1, <1>4, <1>6, <3>3, <4>1
        <3> QED
            BY <3>1, <3>2, <3>3
    <2>3. DOMAIN clients' = LoopIds
        BY <1>3 DEF ClientInv, LoopsFit
    <2> QED
        BY <1>2, <1>3, <1>4, <1>5, <1>6, <2>1, <2>2, <2>3 DEF LoopsFit
<1>8. CallsFit'
    <2>1. ASSUME NEW u \in CallThreads, call[u].stage # "none" PROVE loop'[u] # NoLoop
        <3>1. loop[u] # NoLoop
            BY <2>1 DEF ClientInv, CallsFit
        <3> QED
            BY <1>3, <1>4, <3>1
    <2>2. ASSUME NEW u \in CallThreads, call[u].stage = "await"
          PROVE  /\ call[u].client \in Nat /\ call[u].client <= n
                 /\ \A v \in CallThreads :
                       v # u /\ loop'[v] # NoLoop => call[u].client # loop'[v].number
        <3>1. call[u].client \in Nat /\ call[u].client <= loops
            BY <2>2 DEF ClientInv, CallsFit
        <3>2. call[u].client <= n /\ call[u].client # n
            BY <1>2, <3>1
        <3>3. ASSUME NEW v \in CallThreads, v # u, loop'[v] # NoLoop
              PROVE  call[u].client # loop'[v].number
            <4>1. CASE v = t
                BY <1>4, <3>2, <4>1
            <4>2. CASE v # t
                BY <1>4, <2>2, <3>3, <4>2 DEF ClientInv, CallsFit
            <4> QED
                BY <4>1, <4>2
        <3> QED
            BY <3>1, <3>2, <3>3
    <2>3. DOMAIN call = CallThreads /\ \A u \in CallThreads : CallIs(call[u])
        BY DEF ClientInv, CallsFit
    <2> QED
        BY <1>3, <2>1, <2>2, <2>3 DEF CallsFit
<1>9. ClosedFits'
    BY <1>3 DEF ClientInv, ClosedFits
<1> QED
    BY <1>7, <1>8, <1>9 DEF ClientInv

LEMMA EndLoopKeepsInv ==
    ASSUME ClientInv, NEW t \in CallThreads, EndLoop(t)
    PROVE  ClientInv'
<1>1. /\ loop' = [loop EXCEPT ![t] = NoLoop] /\ loops' = loops /\ clients' = clients
      /\ call' = call /\ closing' = closing /\ late' = late /\ call[t].stage = "none"
    BY DEF EndLoop, Stage
<1>2. /\ DOMAIN loop' = CallThreads /\ loop'[t] = NoLoop
      /\ \A u \in CallThreads \ {t} : loop'[u] = loop[u]
    BY <1>1 DEF ClientInv, LoopsFit
<1>3. \A u \in CallThreads : loop'[u] # NoLoop => u # t /\ loop'[u] = loop[u] /\ loop[u] # NoLoop
    BY <1>2
<1>4. LoopsFit'
    BY <1>1, <1>2, <1>3 DEF ClientInv, LoopsFit
<1>5. CallsFit'
    <2>1. \A u \in CallThreads : call[u].stage # "none" => loop'[u] # NoLoop
        BY <1>1, <1>2 DEF ClientInv, CallsFit
    <2> QED
        BY <1>1, <1>3, <2>1 DEF ClientInv, CallsFit
<1>6. ClosedFits'
    BY <1>1 DEF ClientInv, ClosedFits
<1> QED
    BY <1>4, <1>5, <1>6 DEF ClientInv

LEMMA SendKeepsInv ==
    ASSUME ClientInv, NEW t \in CallThreads, Send(t)
    PROVE  ClientInv'
<1>1. /\ call[t].stage = "send" /\ loop' = loop /\ loops' = loops /\ closing' = closing
      /\ late' = late
    BY DEF Send, Stage
<1>2. PICK i \in LoopIds, n \in Nat :
         /\ i = loop[t].id /\ n = loop[t].number /\ n > 0 /\ n <= loops /\ loop[t] # NoLoop
    BY <1>1 DEF ClientInv, CallsFit, LoopsFit
<1>3. PICK k \in Nat : k = IF clients[i] = 0 THEN n ELSE clients[i]
    BY <1>2 DEF ClientInv, LoopsFit
<1>4. k <= loops /\ k # 0
    BY <1>2, <1>3 DEF ClientInv, LoopsFit
<1>5. clients' = [clients EXCEPT ![i] = k]
    BY <1>2, <1>3 DEF Send, KeyOf
<1>6. /\ DOMAIN clients' = LoopIds /\ clients'[i] = k
      /\ \A j \in LoopIds \ {i} : clients'[j] = clients[j]
    BY <1>5 DEF ClientInv, LoopsFit
<1>7. \A u \in CallThreads : loop[u] # NoLoop /\ u # t => k # loop[u].number
    <2> SUFFICES ASSUME NEW u \in CallThreads, loop[u] # NoLoop, u # t PROVE k # loop[u].number
        OBVIOUS
    <2>1. loop[u].id # i /\ loop[u].number # n
        BY <1>2 DEF ClientInv, LoopsFit
    <2>2. clients[i] # loop[u].number
        BY <1>2, <2>1 DEF ClientInv, LoopsFit
    <2> QED
        BY <1>3, <2>1, <2>2
<1>8. PICK w, m : /\ w = Append(call[t].sent, call[t].todo[1])
                  /\ m = [call[t] EXCEPT !.stage = "await", !.client = k, !.sent = w]
    OBVIOUS
<1>9. call' = [call EXCEPT ![t] = m]
    <2>1. clients'[KeyOf(t)] = k
        BY <1>2, <1>6 DEF KeyOf
    <2>2. call' = [call EXCEPT ![t].stage = "await", ![t].client = clients'[KeyOf(t)],
                               ![t].sent = Append(@, call[t].todo[1])]
        BY DEF Send
    <2>3. call' = [call EXCEPT ![t].stage = "await", ![t].client = k, ![t].sent = w]
        BY <1>8, <2>1, <2>2
    <2> QED
        BY <1>8, <2>3
<1>10. CallIs(m) /\ m.stage = "await" /\ m.client = k
    <2>1. CallIs(call[t])
        BY DEF ClientInv, CallsFit
    <2>2. DOMAIN call[t] = {"todo", "stage", "left", "client", "sent"}
        BY <1>1, <2>1, UnderWay
    <2>3. /\ DOMAIN m = DOMAIN call[t] /\ m.stage = "await" /\ m.client = k
          /\ m.sent = w /\ m.todo = call[t].todo /\ m.left = call[t].left
        BY <1>8, <2>2
    <2>4. w = Append(call[t].sent, call[t].todo[1])
        BY <1>8
    <2> QED
        BY <1>1, <2>1, <2>3, <2>4, CallSends
<1>11. /\ DOMAIN call' = CallThreads /\ call'[t] = m
       /\ \A u \in CallThreads \ {t} : call'[u] = call[u]
    BY <1>9 DEF ClientInv, CallsFit
<1>12. LoopsFit'
    <2>1. ASSUME NEW u \in CallThreads, NEW j \in LoopIds, loop[u] # NoLoop,
                 clients'[j] = loop[u].number
          PROVE  loop[u].id = j
        <3>1. CASE j # i
            BY <1>6, <2>1, <3>1 DEF ClientInv, LoopsFit
        <3>2. CASE j = i
            BY <1>2, <1>6, <1>7, <2>1, <3>2
        <3> QED
            BY <3>1, <3>2
    <2>2. \A j \in LoopIds : clients'[j] \in Nat /\ clients'[j] <= loops
        BY <1>3, <1>4, <1>6 DEF ClientInv, LoopsFit
    <2> QED
        BY <1>1, <1>6, <2>1, <2>2 DEF ClientInv, LoopsFit
<1>13. CallsFit'
    BY <1>1, <1>2, <1>3, <1>4, <1>7, <1>10, <1>11 DEF ClientInv, CallsFit
<1>14. ClosedFits'
    <2>1. closing = "open" \/ late
        BY <1>1 DEF ClientInv, ClosedFits
    <2> QED
        BY <1>1, <2>1 DEF ClientInv, ClosedFits
<1> QED
    BY <1>12, <1>13, <1>14 DEF ClientInv

LEMMA OpenKeepsInv ==
    ASSUME ClientInv, NEW t \in CallThreads, Open(t)
    PROVE  ClientInv'
<1>1. PICK todo \in Calls :
         call' = [call EXCEPT ![t] = [NoCall EXCEPT
                     !.todo = todo, !.stage = "send", !.left = Tries(todo[1])]]
    BY DEF Open
<1>2. PICK m : m = [NoCall EXCEPT !.todo = todo, !.stage = "send", !.left = Tries(todo[1])]
    OBVIOUS
<1>3. CallIs(m) /\ m.stage = "send"
    BY <1>2, CallBegins
<1>4. call' = [call EXCEPT ![t] = m] /\ loop[t] # NoLoop /\ closing = "open"
      /\ UNCHANGED <<loop, loops, clients, closing, late>>
    BY <1>1, <1>2 DEF Open
<1> QED
    BY <1>3, <1>4, OneCall

LEMMA AnsweredKeepsInv ==
    ASSUME ClientInv, NEW t \in CallThreads, Answered(t)
    PROVE  ClientInv'
<1>1. CASE End(t)
    BY <1>1, EndKeepsInv
<1>2. CASE ~End(t)
    <2>1. /\ call[t].stage = "await" /\ Tail(call[t].todo) # <<>>
          /\ call' = [call EXCEPT ![t].todo = Tail(call[t].todo), ![t].stage = "send",
                                  ![t].left = Tries(Tail(call[t].todo)[1])]
          /\ UNCHANGED <<loop, loops, clients, closing, late>>
        BY <1>2 DEF Answered, Stage
    <2>2. PICK m : m = [call[t] EXCEPT !.todo = Tail(call[t].todo), !.stage = "send",
                                       !.left = Tries(Tail(call[t].todo)[1])]
        OBVIOUS
    <2>3. call' = [call EXCEPT ![t] = m]
        BY <2>1, <2>2
    <2>4. CallIs(call[t]) /\ loop[t] # NoLoop
        BY <2>1 DEF ClientInv, CallsFit
    <2>5. CallIs(m) /\ m.stage = "send"
        BY <2>1, <2>2, <2>4, CallGoesOn
    <2> QED
        BY <2>1, <2>3, <2>4, <2>5, OneCall
<1> QED
    BY <1>1, <1>2

LEMMA WaitKeepsInv ==
    ASSUME ClientInv, NEW t \in CallThreads, RetryLater(t) \/ Wake(t)
    PROVE  ClientInv'
<1>1. UNCHANGED <<loop, loops, clients, closing, late>> /\ call[t].stage \in {"await", "sleep"}
    BY DEF RetryLater, Wake, Stage
<1>2. CallIs(call[t]) /\ loop[t] # NoLoop
    BY <1>1 DEF ClientInv, CallsFit
<1>3. CASE RetryLater(t)
    <2>1. /\ call[t].stage = "await" /\ call[t].left > 0
          /\ call' = [call EXCEPT ![t].stage = "sleep", ![t].left = @ - 1]
        BY <1>3 DEF RetryLater, Stage
    <2>2. PICK m : m = [call[t] EXCEPT !.stage = "sleep", !.left = @ - 1]
        OBVIOUS
    <2>3. call' = [call EXCEPT ![t] = m]
        BY <2>1, <2>2
    <2>4. CallIs(m) /\ m.stage \in {"sleep", "send"}
        BY <1>2, <2>1, <2>2, CallWaits
    <2> QED
        BY <1>1, <1>2, <2>3, <2>4, OneCall
<1>4. CASE Wake(t)
    <2>1. call[t].stage = "sleep" /\ call' = [call EXCEPT ![t].stage = "send"]
        BY <1>4 DEF Wake, Stage, SetStage
    <2>2. PICK m : m = [call[t] EXCEPT !.stage = "send"]
        OBVIOUS
    <2>3. call' = [call EXCEPT ![t] = m]
        BY <2>1, <2>2
    <2>4. CallIs(m) /\ m.stage \in {"sleep", "send"}
        BY <1>2, <2>1, <2>2, CallWaits
    <2> QED
        BY <1>1, <1>2, <2>3, <2>4, OneCall
<1> QED
    BY <1>3, <1>4

LEMMA CloseKeepsInv ==
    ASSUME ClientInv, Close \/ ClearClients
    PROVE  ClientInv'
<1>1. CASE Close
    <2>1. /\ loop' = loop /\ loops' = loops /\ clients' = clients /\ call' = call
          /\ closing' = "closed"
          /\ late' = \E t \in CallThreads : call[t].stage # "none"
        BY <1>1 DEF Close, Stage
    <2>2. LoopsFit' /\ CallsFit'
        BY <2>1 DEF ClientInv, LoopsFit, CallsFit
    <2>3. ClosedFits'
        BY <2>1 DEF ClosedFits
    <2> QED
        BY <2>2, <2>3 DEF ClientInv
<1>2. CASE ClearClients
    <2>1. /\ loop' = loop /\ loops' = loops /\ clients' = [i \in LoopIds |-> 0] /\ call' = call
          /\ closing = "closed" /\ closing' = "cleared" /\ late' = late
        BY <1>2 DEF ClearClients
    <2>2. LoopsFit'
        BY <2>1 DEF ClientInv, LoopsFit
    <2>3. CallsFit'
        BY <2>1 DEF ClientInv, CallsFit
    <2>4. ClosedFits'
        BY <2>1 DEF ClientInv, ClosedFits
    <2> QED
        BY <2>2, <2>3, <2>4 DEF ClientInv
<1> QED
    BY <1>1, <1>2

LEMMA ClientKeepsInv ==
    ASSUME ClientInv, [ClientNext]_clientVars
    PROVE  ClientInv'
<1>1. CASE UNCHANGED clientVars
    BY <1>1 DEF clientVars, ClientInv, LoopsFit, CallsFit, ClosedFits
<1>2. ASSUME NEW t \in CallThreads, StartLoop(t) \/ EndLoop(t) \/ Open(t) PROVE ClientInv'
    BY <1>2, StartLoopKeepsInv, EndLoopKeepsInv, OpenKeepsInv
<1>3. ASSUME NEW t \in CallThreads, ClientStep(t) \/ CancelCall(t) PROVE ClientInv'
    BY <1>3, SendKeepsInv, AnsweredKeepsInv, WaitKeepsInv, EndKeepsInv
       DEF ClientStep, CancelCall, Unusable
<1>4. CASE Close \/ ClearClients
    BY <1>4, CloseKeepsInv
<1> QED
    BY <1>1, <1>2, <1>3, <1>4 DEF ClientNext

LEMMA InvSendsBounded == ClientInv => SendsBounded
<1> SUFFICES ASSUME ClientInv, NEW t \in CallThreads
             PROVE  /\ Times(call[t].sent, "version") + Times(call[t].sent, "tags") <= 2
                    /\ Times(call[t].sent, "version") <= 1 /\ Times(call[t].sent, "tags") <= 1
                    /\ Times(call[t].sent, "generate") <= MaxRetries + 1
    BY DEF SendsBounded, Times
<1>1. CallIs(call[t])
    BY DEF ClientInv, CallsFit
<1>2. CASE call[t] = NoCall
    <2>1. call[t].sent = <<>>
        BY <1>2 DEF NoCall
    <2> QED
        BY <2>1, TimesNone, OllamaClientAssumption
<1>3. CASE call[t] # NoCall
    <2>1. PICK v, n, g : /\ v = Times(call[t].sent, "version") /\ n = Times(call[t].sent, "tags")
                         /\ g = Times(call[t].sent, "generate")
        OBVIOUS
    <2>2. /\ TimesFit(call[t], v, n, g) /\ call[t].stage \in {"send", "await", "sleep"}
          /\ call[t].todo[1] \in Endpoints /\ call[t].left \in Nat
        BY <1>1, <1>3, <2>1, TodosAre DEF CallIs, SentFits
    <2>3. v \in {0, 1} /\ n \in {0, 1} /\ g \in Nat /\ g <= MaxRetries + 1
        BY <2>2, OllamaClientAssumption DEF TimesFit, Endpoints
    <2>4. v + n <= 2 /\ v <= 1 /\ n <= 1
        BY <2>3
    <2> QED
        BY <2>1, <2>3, <2>4
<1> QED
    BY <1>2, <1>3

\* A closed service begins no request.
LEMMA ClosedSends ==
    ASSUME ClientInv, ClientNext, closing # "open", NEW t \in CallThreads
    PROVE  call'[t].todo \in {call[t].todo, <<>>}
<1>1. CASE call'[t] = call[t]
    BY <1>1
<1>2. CASE call'[t] # call[t]
    <2>1. PICK u \in CallThreads : Send(u) \/ End(u) \/ RetryLater(u) \/ Wake(u)
        BY <1>2 DEF ClientNext, ClientStep, StartLoop, EndLoop, Open, Close, ClearClients,
                    CancelCall, Unusable, Answered
    <2>2. DOMAIN call = CallThreads
        BY DEF ClientInv, CallsFit
    <2>3. CASE End(u)
        <3>1. call'[t] = NoCall
            BY <1>2, <2>2, <2>3 DEF End
        <3> QED
            BY <3>1 DEF NoCall
    <2>4. CASE Send(u) \/ RetryLater(u) \/ Wake(u)
        <3>1. u = t /\ call[t].stage \in {"send", "await", "sleep"}
            BY <1>2, <2>2, <2>4 DEF Send, RetryLater, Wake, SetStage, Stage
        <3>2. DOMAIN call[t] = {"todo", "stage", "left", "client", "sent"}
            BY <3>1, UnderWay DEF ClientInv, CallsFit
        <3> QED
            BY <2>2, <2>4, <3>1, <3>2 DEF Send, RetryLater, Wake, SetStage
    <2> QED
        BY <2>1, <2>3, <2>4
<1> QED
    BY <1>1, <1>2

\* Whatever ids event loops are given, however requests fail and whenever the service is
\* closed: no call uses the client of another's loop or asks more often than it may.
THEOREM ClientsAreKeptAlways == ClientSpec => ClientsAreKept
<1>1. ClientInv => ClientOfNoOther
    BY DEF ClientInv, LoopsFit, CallsFit, ClientOfNoOther, Stage
<1>2. ClientInv => ClosedKeepsNoClient
    BY DEF ClientInv, ClosedFits, ClosedKeepsNoClient
<1>3. ClientInv /\ [ClientNext]_clientVars =>
        [closing # "open" =>
          \A t \in CallThreads : call'[t].todo \in {call[t].todo, <<>>}]_clientVars
    BY ClosedSends
<1> QED
    BY ClientStarts, ClientKeepsInv, InvSendsBounded, <1>1, <1>2, <1>3, PTL
       DEF ClientSpec, ClientsAreKept, ClosedBeginsNothing

(* ------------------------------- backups ------------------------------- *)

\* A set of numbers has a least one: of the intervals up to the members that are not
\* above one of them, the least with respect to inclusion ends there.
LEMMA HasMinimum ==
    ASSUME NEW S \in SUBSET Nat, S # {}
    PROVE  Min(S) \in S
<1>1. PICK n \in S : TRUE
    OBVIOUS
<1> DEFINE U == 0 .. n
           Initials == {0 .. m : m \in {k \in S : k <= n}}
<1>2. n \in Nat /\ IsFiniteSet(U)
    BY <1>1, FS_Interval
<1>3. Initials \subseteq FiniteSubsetsOf(U) /\ Initials # {}
  <2>1. ASSUME NEW m \in S, m <= n PROVE 0 .. m \in FiniteSubsetsOf(U)
    <3>1. 0 .. m \in SUBSET U
      BY <1>2, <2>1
    <3> QED BY <3>1, <1>2, FS_FiniteSubsetsOfFinite
  <2>2. n <= n
    BY <1>2
  <2> QED BY <1>1, <2>1, <2>2
<1>4. IsWellFoundedOn(StrictSubsetOrdering(U), FiniteSubsetsOf(U))
    BY <1>2, FS_StrictSubsetOrderingWellFounded
<1>5. PICK x \in Initials : \A y \in Initials : ~ (<<y, x>> \in StrictSubsetOrdering(U))
  <2> HIDE DEF U, Initials
  <2> QED BY <1>3, <1>4, WFMin
<1>6. PICK m \in S : m <= n /\ x = 0 .. m
    BY <1>5
<1>7. ASSUME NEW k \in S PROVE m <= k
  <2>1. SUFFICES ASSUME k < m PROVE FALSE
    OBVIOUS
  <2>2. k <= n
    BY <1>2, <1>6, <2>1
  <2>3. 0 .. k \in Initials
    BY <2>2
  <2>4. 0 .. k \subseteq 0 .. m /\ m \in 0 .. m /\ m \notin 0 .. k /\ 0 .. m \in SUBSET U
    BY <1>2, <1>6, <2>1
  <2>5. <<0 .. k, 0 .. m>> \in StrictSubsetOrdering(U)
    BY <2>4 DEF StrictSubsetOrdering
  <2> QED BY <1>5, <1>6, <2>3, <2>5
<1> QED BY <1>7 DEF Min

LEMMA NextIsThere ==
    ASSUME holder.todo \subseteq BackupPaths, holder.todo # {}
    PROVE  NextPath \in holder.todo /\ NextPath \in BackupPaths
<1>1. holder.todo \in SUBSET Nat
    BY BackupStoreAssumption
<1> QED
    BY <1>1, HasMinimum DEF NextPath

RecordType == [path : BackupPaths, existed : BOOLEAN, size : Nat, hash : FileStates]
RecordsIn(s) == {s[n] : n \in DOMAIN s}
PathsIn(s) == {s[n].path : n \in DOMAIN s}

\* Of a backup s: the record of a path, whether it passes the verification, and
\* what a rollback makes of a path.
RecordIn(s, p) == s.manifest[CHOOSE j \in DOMAIN s.manifest : s.manifest[j].path = p]
WholeIn(s) ==
    /\ s.manifest # <<>>
    /\ \A p \in PathsIn(s.manifest) :
          RecordIn(s, p).existed => /\ p \in DOMAIN s.files
                                    /\ Sizes[s.files[p]] = RecordIn(s, p).size
                                    /\ s.files[p] = RecordIn(s, p).hash
PutBack(s, p) == IF RecordIn(s, p).existed THEN s.files[p] ELSE NoFile

\* What a record says is what is stored, and was there if nobody edited.
RecordIs(s, r) ==
    /\ r.existed => r.path \in DOMAIN s.files /\ s.files[r.path] = r.hash
    /\ r.path \in DOMAIN s.was
    /\ ~s.disturbed => s.was[r.path] = IF r.existed THEN r.hash ELSE NoFile
    /\ ~s.disturbed /\ r.existed => r.size = Sizes[r.hash]

StoredTyped(s) ==
    /\ DOMAIN s = {"manifest", "files", "was", "disturbed", "deleted"}
    /\ s.manifest \in Seq(RecordType)
    /\ DOMAIN s.files \subseteq BackupPaths
    /\ \A p \in DOMAIN s.files : s.files[p] \in FileContents

StoredFits(s) ==
    ~s.deleted =>
        /\ \A r \in RecordsIn(s.manifest) : RecordIs(s, r)
        /\ s.manifest # <<>> => PathsIn(s.manifest) = DOMAIN s.was

StoreFits ==
    /\ DOMAIN store = Ids
    /\ \A b \in Ids : StoredTyped(store[b]) /\ StoredFits(store[b])

HolderFits ==
    /\ DOMAIN holder = {"does", "at", "into", "from", "todo", "size", "hash", "records"}
    /\ \/ holder.does = "none" /\ holder.at = "end"
       \/ holder.does = "create" /\ holder.at \in {"stat", "hash", "copy"}
       \/ holder.does = "rollback" /\ holder.at \in {"stat", "hash", "copy", "restore", "check"}
       \/ holder.does = "recover" /\ holder.at \in {"restore", "check"}
       \/ holder.does = "delete" /\ holder.at = "delete"
    /\ holder.into \in Nat /\ holder.into <= given /\ holder.from \in Nat /\ holder.from <= given
    /\ holder.todo \subseteq BackupPaths
    /\ holder.size \in Nat /\ holder.hash \in FileStates /\ holder.records \in Seq(RecordType)
    /\ holder.does = "delete" => holder.from # 0 /\ store[holder.from].deleted
    /\ holder.at \in {"hash", "copy", "check"} => holder.todo # {}

\* A backup s that is being made has a record of each path that is done, and what
\* was there is there still if nobody edits.
MadeSoFar(s) ==
    /\ s.manifest = <<>> /\ ~s.deleted
    /\ \A r \in RecordsIn(holder.records) : RecordIs(s, r)
    /\ DOMAIN s.was = PathsIn(holder.records) \cup holder.todo
    /\ PathsIn(holder.records) \cap holder.todo = {}
    /\ DOMAIN s.was # {}
    /\ ~s.disturbed =>
          /\ \A p \in DOMAIN s.was : s.was[p] = disk[p]
          /\ holder.at = "hash" => disk[NextPath] # NoFile /\ holder.size = Sizes[disk[NextPath]]
          /\ holder.at = "copy" => holder.size = Sizes[holder.hash]
    /\ holder.at = "copy" => holder.hash # NoFile
CreatingFits == Creating => holder.into # 0 /\ MadeSoFar(store[holder.into])

\* The backups of a rollback under way.
RollbackFits ==
    holder.does \in {"rollback", "recover"} =>
        /\ latest.result = "none" /\ latest.safety = holder.into /\ holder.into # 0
        /\ latest.from # 0 /\ latest.from \in Nat /\ latest.from <= given
        /\ latest.from # holder.into
        /\ holder.from = IF holder.does = "rollback" THEN latest.from ELSE holder.into
        /\ WholeIn(store[latest.from])
        /\ Creating => DOMAIN store[holder.into].was = PathsIn(store[latest.from].manifest)
        /\ Creating /\ ~latest.edited => disk = latest.before /\ ~store[holder.into].disturbed
        /\ PutsBack => /\ WholeIn(store[holder.from])
                       /\ holder.todo \subseteq PathsIn(store[holder.from].manifest)

\* What a rollback to the backup s has done so far, if nobody edits.
Waits(p) == p \in holder.todo /\ ~(holder.at = "check" /\ p = NextPath)
DoneSoFar(s) ==
    /\ \A p \in BackupPaths \ PathsIn(s.manifest) : disk[p] = latest.before[p]
    /\ \A p \in PathsIn(s.manifest) :
          /\ holder.does = "rollback" =>
                disk[p] = IF Waits(p) THEN latest.before[p] ELSE PutBack(s, p)
          /\ holder.does = "recover" =>
                /\ disk[p] \in {latest.before[p], PutBack(s, p)}
                /\ ~Waits(p) => disk[p] = latest.before[p]
PutBackSoFar == PutsBack /\ ~latest.edited => DoneSoFar(store[latest.from])

\* The safety backup s of a rollback that has begun to restore or has ended.
SavesBefore(s) ==
    /\ WholeIn(s) /\ PathsIn(s.manifest) = PathsIn(store[latest.from].manifest)
    /\ \A p \in PathsIn(s.manifest) :
          /\ PutBack(s, p) = latest.before[p] /\ s.was[p] = latest.before[p]
SafetyFits ==
    /\ latest.safety # 0 /\ ~latest.edited
    /\ PutsBack \/ latest.result \in {"restored", "recovered", "broken", "died"}
    => latest.safety \in Ids /\ SavesBefore(store[latest.safety])

\* What the rollback to the backup s that ended last has come to.
EndedWell(s) ==
    /\ latest.result = "restored" =>
          \A p \in BackupPaths :
              disk[p] = IF p \in PathsIn(s.manifest) THEN PutBack(s, p) ELSE latest.before[p]
    /\ latest.result \in {"refused", "recovered"} => disk = latest.before
    /\ latest.result \in {"broken", "died"} =>
          \A p \in BackupPaths :
              \/ disk[p] = latest.before[p]
              \/ p \in PathsIn(s.manifest) /\ disk[p] = PutBack(s, p)

\* The rollback that ended last, or none.
LatestFits ==
    /\ DOMAIN latest = {"result", "from", "safety", "edited", "before"}
    /\ latest.result \in {"none", "restored", "refused", "recovered", "broken", "died"}
    /\ holder.does \notin {"rollback", "recover"} /\ latest.result = "none" => latest = NoRollback
    /\ latest.result # "none" => holder.does = "none" /\ latest.from \in Ids
    /\ latest.result # "none" /\ ~latest.edited => EndedWell(store[latest.from])
    /\ latest = NoRollback \/ latest.before \in [BackupPaths -> FileStates]

Numbers ==
    /\ disk \in [BackupPaths -> FileStates] /\ given \in Nat /\ given <= MaxBackups
    /\ fileEdits \in 0 .. MaxBackupEdits /\ deaths \in 0 .. MaxDeaths

BackupInv ==
    /\ Numbers /\ StoreFits /\ HolderFits /\ CreatingFits
    /\ RollbackFits /\ PutBackSoFar /\ SafetyFits /\ LatestFits

LEMMA Appended ==
    ASSUME NEW s \in Seq(RecordType), NEW r \in RecordType
    PROVE  /\ Append(s, r) \in Seq(RecordType)
           /\ RecordsIn(Append(s, r)) = RecordsIn(s) \cup {r}
           /\ PathsIn(Append(s, r)) = PathsIn(s) \cup {r.path}
<1> DEFINE m == Append(s, r)
<1>1. /\ m \in Seq(RecordType) /\ Len(m) = Len(s) + 1 /\ Len(s) \in Nat
      /\ DOMAIN m = 1 .. Len(s) + 1 /\ DOMAIN s = 1 .. Len(s)
      /\ m[Len(s) + 1] = r /\ \A i \in 1 .. Len(s) : m[i] = s[i]
    BY AppendProperties, LenProperties
<1> HIDE DEF m
<1>2. DOMAIN m = DOMAIN s \cup {Len(s) + 1}
    BY <1>1
<1>3. RecordsIn(m) = RecordsIn(s) \cup {r}
    BY <1>1, <1>2 DEF RecordsIn
<1>4. PathsIn(m) = PathsIn(s) \cup {r.path}
    BY <1>1, <1>2 DEF PathsIn
<1> QED
    BY <1>1, <1>3, <1>4 DEF m

\* The record of a path is one of those in the manifest.
LEMMA RecordThere ==
    ASSUME NEW s, NEW p \in PathsIn(s.manifest)
    PROVE  RecordIn(s, p) \in RecordsIn(s.manifest) /\ RecordIn(s, p).path = p
<1>1. PICK j \in DOMAIN s.manifest : s.manifest[j].path = p
    BY DEF PathsIn
<1>2. PICK i : i = CHOOSE j_1 \in DOMAIN s.manifest : s.manifest[j_1].path = p
    OBVIOUS
<1>3. i \in DOMAIN s.manifest /\ s.manifest[i].path = p
    BY <1>1, <1>2
<1> QED
    BY <1>2, <1>3 DEF RecordIn, RecordsIn

LEMMA Views ==
    ASSUME NEW b
    PROVE  /\ AffectedBy(b) = PathsIn(store[b].manifest)
           /\ IntactBackup(b) <=> WholeIn(store[b])
           /\ \A p : RecordOf(b, p) = RecordIn(store[b], p)
<1>1. AffectedBy(b) = PathsIn(store[b].manifest)
    BY DEF AffectedBy, PathsIn
<1>2. \A p : RecordOf(b, p) = RecordIn(store[b], p)
    BY DEF RecordOf, RecordIn
<1> QED
    BY <1>1, <1>2 DEF IntactBackup, Readable, WholeIn

\* A finished backup that nobody has disturbed or deleted passes the verification.
LEMMA FinishedIsWhole ==
    ASSUME NEW s, StoredTyped(s), StoredFits(s), ~s.deleted, s.manifest # <<>>, ~s.disturbed
    PROVE  WholeIn(s) /\ \A p \in PathsIn(s.manifest) : PutBack(s, p) = s.was[p]
<1>1. ASSUME NEW p \in PathsIn(s.manifest)
      PROVE  /\ RecordIn(s, p).existed => /\ p \in DOMAIN s.files
                                          /\ Sizes[s.files[p]] = RecordIn(s, p).size
                                          /\ s.files[p] = RecordIn(s, p).hash
             /\ PutBack(s, p) = s.was[p]
    <2>1. PICK r : r = RecordIn(s, p)
        OBVIOUS
    <2>2. RecordIs(s, r) /\ r.path = p
        BY <2>1, RecordThere DEF StoredFits
    <2> QED
        BY <2>1, <2>2 DEF RecordIs, PutBack
<1> QED
    BY <1>1 DEF WholeIn

(* --------------------------- steps of a backup ------------------------- *)

LEMMA NothingIs ==
    /\ NothingStored.manifest = <<>> /\ NothingStored.files = NoFiles
    /\ ~NothingStored.disturbed /\ ~NothingStored.deleted
    /\ StoredTyped(NothingStored) /\ StoredFits(NothingStored)
    /\ RecordsIn(<<>>) = {} /\ PathsIn(<<>>) = {}
<1>1. RecordsIn(<<>>) = {} /\ PathsIn(<<>>) = {}
    BY DEF RecordsIn, PathsIn
<1>2. <<>> \in Seq(RecordType)
    OBVIOUS
<1>3. /\ NothingStored.manifest = <<>> /\ NothingStored.files = NoFiles
      /\ ~NothingStored.disturbed /\ ~NothingStored.deleted
      /\ DOMAIN NothingStored = {"manifest", "files", "was", "disturbed", "deleted"}
      /\ DOMAIN NoFiles = {}
    BY DEF NothingStored, NoFiles
<1>4. StoredTyped(NothingStored)
    BY <1>2, <1>3 DEF StoredTyped
<1>5. StoredFits(NothingStored)
    BY <1>1, <1>3 DEF StoredFits
<1> QED
    BY <1>1, <1>3, <1>4, <1>5

LEMMA UnlockedIs ==
    /\ DOMAIN Unlocked = {"does", "at", "into", "from", "todo", "size", "hash", "records"}
    /\ Unlocked.does = "none" /\ Unlocked.at = "end" /\ Unlocked.into = 0 /\ Unlocked.from = 0
    /\ Unlocked.todo = {} /\ Unlocked.size = 0 /\ Unlocked.hash = NoFile
    /\ Unlocked.records = <<>>
BY DEF Unlocked

LEMMA NoRollbackIs ==
    /\ DOMAIN NoRollback = {"result", "from", "safety", "edited", "before"}
    /\ NoRollback.result = "none" /\ NoRollback.safety = 0 /\ NoRollback.from = 0
    /\ ~NoRollback.edited
BY DEF NoRollback

\* Without the lock nothing is under way.
LEMMA Rests ==
    ASSUME holder' = Unlocked, given' \in Nat
    PROVE  HolderFits' /\ CreatingFits' /\ RollbackFits' /\ PutBackSoFar'
<1>1. <<>> \in Seq(RecordType) /\ 0 <= given'
    BY SMT
<1>2. NoFile \in FileStates
    BY DEF FileStates
<1>3. HolderFits'
    BY <1>1, <1>2, UnlockedIs DEF HolderFits
<1>4. CreatingFits' /\ RollbackFits' /\ PutBackSoFar'
    BY UnlockedIs DEF CreatingFits, RollbackFits, PutBackSoFar, Creating, PutsBack
<1> QED
    BY <1>3, <1>4

LEMMA BackupStarts == BackupInit => BackupInv
<1> SUFFICES ASSUME BackupInit PROVE BackupInv
    OBVIOUS
<1>1. /\ disk \in [BackupPaths -> FileStates] /\ store = [b \in Ids |-> NothingStored]
      /\ given = 0 /\ holder = Unlocked /\ latest = NoRollback /\ fileEdits = 0 /\ deaths = 0
    BY DEF BackupInit
<1>2. Numbers
    BY <1>1, BackupStoreAssumption DEF Numbers
<1>3. StoreFits
    BY <1>1, NothingIs DEF StoreFits
<1>4. HolderFits
    <2>1. <<>> \in Seq(RecordType)
        OBVIOUS
    <2> QED
        BY <1>1, <2>1, UnlockedIs DEF HolderFits, FileStates
<1>5. CreatingFits /\ RollbackFits /\ PutBackSoFar
    BY <1>1, UnlockedIs DEF CreatingFits, RollbackFits, PutBackSoFar, Creating, PutsBack
<1>6. SafetyFits /\ LatestFits
    BY <1>1, NoRollbackIs, UnlockedIs DEF SafetyFits, LatestFits
<1> QED
    BY <1>2, <1>3, <1>4, <1>5, <1>6 DEF BackupInv

\* A backup begins with what there is.
LEMMA Storing ==
    ASSUME BackupInv, NEW b \in Ids, NEW paths \in SUBSET BackupPaths, StoringInto(b, paths)
    PROVE  /\ StoreFits'
           /\ \A c \in Ids \ {b} : store'[c] = store[c]
           /\ store'[b].manifest = <<>> /\ ~store'[b].deleted /\ ~store'[b].disturbed
           /\ DOMAIN store'[b].was = paths
           /\ \A p \in paths : store'[b].was[p] = disk[p]
<1>1. PICK s : s = [NothingStored EXCEPT !.was = [p \in paths |-> disk[p]]]
    OBVIOUS
<1>2. /\ DOMAIN s = {"manifest", "files", "was", "disturbed", "deleted"}
      /\ s.manifest = <<>> /\ s.files = NoFiles /\ ~s.disturbed /\ ~s.deleted
      /\ s.was = [p \in paths |-> disk[p]]
    <2>1. DOMAIN NothingStored = {"manifest", "files", "was", "disturbed", "deleted"}
        BY NothingIs DEF StoredTyped
    <2> QED
        BY <1>1, <2>1, NothingIs
<1>3. store' = [store EXCEPT ![b] = s]
    BY <1>1 DEF StoringInto
<1>4. /\ DOMAIN store' = Ids /\ store'[b] = s
      /\ \A c \in Ids \ {b} : store'[c] = store[c]
    BY <1>3 DEF BackupInv, StoreFits
<1>5. StoredTyped(s) /\ StoredFits(s)
    <2>1. <<>> \in Seq(RecordType) /\ DOMAIN NoFiles = {}
        BY DEF NoFiles
    <2>2. StoredTyped(s)
        BY <1>2, <2>1 DEF StoredTyped
    <2>3. StoredFits(s)
        BY <1>2, NothingIs DEF StoredFits
    <2> QED
        BY <2>2, <2>3
<1>6. StoreFits'
    BY <1>4, <1>5 DEF BackupInv, StoreFits
<1> QED
    BY <1>2, <1>4, <1>6

LEMMA BackupMadeKeeps ==
    ASSUME BackupInv, CreateBackup
    PROVE  BackupInv'
<1>1. PICK paths \in (SUBSET BackupPaths) \ {{}} :
         /\ holder' = [Unlocked EXCEPT !.does = "create", !.at = "stat", !.into = given + 1,
                                       !.todo = paths]
         /\ StoringInto(given + 1, paths)
    BY DEF CreateBackup
<1>2. /\ given < MaxBackups /\ given' = given + 1 /\ latest' = NoRollback /\ disk' = disk
      /\ fileEdits' = fileEdits /\ deaths' = deaths
    BY DEF CreateBackup
<1>3. PICK b \in Ids : b = given + 1
    BY <1>2, BackupStoreAssumption DEF BackupInv, Numbers, Ids
<1>4. /\ StoreFits' /\ store'[b].manifest = <<>> /\ ~store'[b].deleted
      /\ ~store'[b].disturbed /\ DOMAIN store'[b].was = paths
      /\ \A p \in paths : store'[b].was[p] = disk[p]
    BY <1>1, <1>3, Storing
<1>5. /\ DOMAIN holder' = {"does", "at", "into", "from", "todo", "size", "hash", "records"}
      /\ holder'.does = "create" /\ holder'.at = "stat" /\ holder'.into = b
      /\ holder'.from = 0 /\ holder'.todo = paths /\ holder'.size = 0
      /\ holder'.hash = NoFile /\ holder'.records = <<>>
    BY <1>1, <1>3, UnlockedIs
<1>6. Numbers'
    BY <1>2, BackupStoreAssumption DEF BackupInv, Numbers
<1>7. HolderFits'
    <2>1. <<>> \in Seq(RecordType) /\ NoFile \in FileStates
        BY DEF FileStates
    <2>2. b \in Nat /\ b <= given' /\ 0 \in Nat /\ 0 <= given'
        BY <1>2, <1>3 DEF BackupInv, Numbers
    <2>3. paths \subseteq BackupPaths
        OBVIOUS
    <2> QED
        BY <1>5, <2>1, <2>2, <2>3 DEF HolderFits
<1>8. CreatingFits'
    <2>1. b # 0
        BY <1>3 DEF Ids
    <2>2. MadeSoFar(store[holder.into])'
        BY <1>1, <1>2, <1>4, <1>5, NothingIs DEF MadeSoFar
    <2> QED
        BY <1>5, <2>1, <2>2 DEF CreatingFits
<1>9. RollbackFits' /\ PutBackSoFar'
    BY <1>5 DEF RollbackFits, PutBackSoFar, PutsBack
<1>10. SafetyFits' /\ LatestFits'
    BY <1>2, <1>5, NoRollbackIs DEF SafetyFits, LatestFits
<1> QED
    BY <1>4, <1>6, <1>7, <1>8, <1>9, <1>10 DEF BackupInv

LEMMA StartRollbackKeeps ==
    ASSUME BackupInv, StartRollback
    PROVE  BackupInv'
<1>1. PICK a \in 1 .. given :
         /\ IntactBackup(a)
         /\ holder' = [Unlocked EXCEPT !.does = "rollback", !.from = a, !.at = "stat",
                                       !.todo = AffectedBy(a), !.into = given + 1]
         /\ StoringInto(given + 1, AffectedBy(a))
         /\ latest' = [result |-> "none", from |-> a, edited |-> FALSE, before |-> disk,
                       safety |-> given + 1]
    BY DEF StartRollback
<1>2. /\ given < MaxBackups /\ given' = given + 1 /\ disk' = disk
      /\ fileEdits' = fileEdits /\ deaths' = deaths
    BY DEF StartRollback
<1>3. PICK b \in Ids : b = given + 1
    BY <1>2, BackupStoreAssumption DEF BackupInv, Numbers, Ids
<1>4. /\ a \in Ids /\ a \in Nat /\ a # 0 /\ a # b /\ a <= given' /\ b \in Nat /\ b # 0
      /\ b <= given' /\ a <= given
    BY <1>2, <1>3, BackupStoreAssumption DEF BackupInv, Numbers, Ids
<1>5. PICK paths : paths = PathsIn(store[a].manifest)
    OBVIOUS
<1>6. AffectedBy(a) = paths /\ WholeIn(store[a])
    BY <1>1, <1>5, Views
<1>7. paths \in SUBSET BackupPaths /\ paths # {}
    <2>1. StoredTyped(store[a])
        BY <1>4 DEF BackupInv, StoreFits
    <2>2. store[a].manifest \in Seq(RecordType) /\ store[a].manifest # <<>>
        BY <1>6, <2>1 DEF StoredTyped, WholeIn
    <2>3. PICK m \in Seq(RecordType) : m = store[a].manifest /\ m # <<>>
        BY <2>2
    <2>4. /\ DOMAIN m = 1 .. Len(m) /\ 1 \in 1 .. Len(m)
          /\ \A n \in 1 .. Len(m) : m[n] \in RecordType
        BY <2>3, EmptySeq, LenProperties, ElementOfSeq
    <2>5. \A n \in DOMAIN m : m[n].path \in BackupPaths
        BY <2>4 DEF RecordType
    <2> QED
        BY <1>5, <2>3, <2>4, <2>5 DEF PathsIn
<1>8. /\ StoreFits' /\ store'[a] = store[a]
      /\ store'[b].manifest = <<>> /\ ~store'[b].deleted /\ ~store'[b].disturbed
      /\ DOMAIN store'[b].was = paths /\ \A p \in paths : store'[b].was[p] = disk[p]
    BY <1>1, <1>3, <1>4, <1>6, <1>7, Storing
<1>9. /\ DOMAIN holder' = {"does", "at", "into", "from", "todo", "size", "hash", "records"}
      /\ holder'.does = "rollback" /\ holder'.at = "stat" /\ holder'.into = b
      /\ holder'.from = a /\ holder'.todo = paths /\ holder'.size = 0
      /\ holder'.hash = NoFile /\ holder'.records = <<>>
    BY <1>1, <1>3, <1>6, UnlockedIs
<1>10. /\ DOMAIN latest' = {"result", "from", "safety", "edited", "before"}
       /\ latest'.result = "none" /\ latest'.from = a /\ ~latest'.edited
       /\ latest'.before = disk /\ latest'.safety = b
    BY <1>1, <1>3
<1>11. Numbers'
    BY <1>2, BackupStoreAssumption DEF BackupInv, Numbers
<1>12. HolderFits'
    <2>1. <<>> \in Seq(RecordType) /\ NoFile \in FileStates
        BY DEF FileStates
    <2> QED
        BY <1>4, <1>7, <1>9, <2>1 DEF HolderFits
<1>13. CreatingFits'
    <2>1. MadeSoFar(store[holder.into])'
        BY <1>2, <1>7, <1>8, <1>9, NothingIs DEF MadeSoFar
    <2> QED
        BY <1>4, <1>9, <2>1 DEF CreatingFits
<1>14. RollbackFits'
    <2>1. WholeIn(store'[a])
        BY <1>6, <1>8
    <2>2. ~PutsBack'
        BY <1>9 DEF PutsBack
    <2> QED
        BY <1>2, <1>4, <1>5, <1>8, <1>9, <1>10, <2>1, <2>2 DEF RollbackFits
<1>15. PutBackSoFar' /\ SafetyFits'
    BY <1>9, <1>10 DEF PutBackSoFar, SafetyFits, PutsBack
<1>16. LatestFits'
    <2>1. disk \in [BackupPaths -> FileStates]
        BY DEF BackupInv, Numbers
    <2> QED
        BY <1>9, <1>10, <2>1 DEF LatestFits
<1> QED
    BY <1>8, <1>11, <1>12, <1>13, <1>14, <1>15, <1>16 DEF BackupInv

\* While a backup is made no rollback has ended, and nothing is put back.
LEMMA CreatingIs ==
    ASSUME BackupInv, Creating
    PROVE  /\ holder.does \in {"create", "rollback"} /\ ~PutsBack
           /\ latest.result = "none" /\ holder.into \in Ids
           /\ MadeSoFar(store[holder.into]) /\ holder.into # 0
           /\ StoredTyped(store[holder.into])
           /\ holder.todo # {} => NextPath \in holder.todo /\ NextPath \in BackupPaths
           /\ holder.does = "create" => latest = NoRollback
           /\ holder.does = "rollback" => latest.from \in Ids /\ latest.from # holder.into
<1>1. holder.does \in {"create", "rollback"} /\ ~PutsBack
    BY DEF BackupInv, HolderFits, Creating, PutsBack
<1>2. latest.result = "none" /\ (holder.does = "create" => latest = NoRollback)
    BY <1>1 DEF BackupInv, LatestFits
<1>3. MadeSoFar(store[holder.into]) /\ holder.into # 0
    BY DEF BackupInv, CreatingFits
<1>4. holder.into \in Ids
    BY <1>3, BackupStoreAssumption DEF BackupInv, HolderFits, Numbers, Ids
<1>5. StoredTyped(store[holder.into])
    BY <1>4 DEF BackupInv, StoreFits
<1>6. holder.todo # {} => NextPath \in holder.todo /\ NextPath \in BackupPaths
    BY NextIsThere DEF BackupInv, HolderFits
<1>7. holder.does = "rollback" => latest.from \in Ids /\ latest.from # holder.into
    BY BackupStoreAssumption DEF BackupInv, RollbackFits, Numbers, Ids
<1> QED
    BY <1>1, <1>2, <1>3, <1>4, <1>5, <1>6, <1>7

\* A step of making a backup that leaves the repository and what is known of
\* rollbacks alone.
LEMMA MakingKeeps ==
    ASSUME BackupInv, Creating, Creating', disk' = disk, latest' = latest, NothingElse,
           holder'.does = holder.does, holder'.into = holder.into,
           holder'.from = holder.from, HolderFits', StoreFits',
           \A b \in Ids \ {holder.into} : store'[b] = store[b],
           DOMAIN store'[holder.into].was = DOMAIN store[holder.into].was,
           store'[holder.into].disturbed = store[holder.into].disturbed,
           MadeSoFar(store[holder.into])'
    PROVE  BackupInv'
<1>1. given' = given /\ fileEdits' = fileEdits /\ deaths' = deaths
    BY DEF NothingElse
<1>2. Numbers'
    BY <1>1 DEF BackupInv, Numbers
<1>3. CreatingFits'
    BY CreatingIs DEF CreatingFits
<1>4. ~PutsBack'
    BY DEF Creating, PutsBack
<1>5. PutBackSoFar' /\ SafetyFits' /\ LatestFits'
    <2>1. SafetyFits'
        BY <1>4, CreatingIs DEF SafetyFits
    <2>2. LatestFits'
        BY CreatingIs DEF BackupInv, LatestFits
    <2> QED
        BY <1>4, <2>1, <2>2 DEF PutBackSoFar
<1>6. RollbackFits'
    <2>1. CASE holder.does = "create"
        BY <2>1 DEF RollbackFits
    <2>2. CASE holder.does = "rollback"
        <3>1. store'[latest.from] = store[latest.from]
            BY <2>2, CreatingIs
        <3> QED
            BY <1>1, <1>4, <2>2, <3>1 DEF BackupInv, RollbackFits
    <2> QED
        BY <2>1, <2>2, CreatingIs
<1> QED
    BY <1>2, <1>3, <1>5, <1>6 DEF BackupInv

LEMMA RecordingKeeps ==
    ASSUME BackupInv, Creating, disk' = disk, latest' = latest, NothingElse,
           NEW r \in RecordType, Recording(r), r.path = NextPath, holder.todo # {},
           StoreFits', \A b \in Ids \ {holder.into} : store'[b] = store[b],
           NEW s, s = store[holder.into], NEW e, e = store'[holder.into],
           e.manifest = s.manifest, e.was = s.was, e.disturbed = s.disturbed,
           e.deleted = s.deleted, RecordIs(e, r),
           \A p \in BackupPaths \ {NextPath} :
               /\ p \in DOMAIN e.files <=> p \in DOMAIN s.files
               /\ p \in DOMAIN s.files => e.files[p] = s.files[p]
    PROVE  BackupInv'
<1>1. /\ DOMAIN holder' = DOMAIN holder /\ holder'.records = Append(holder.records, r)
      /\ holder'.todo = holder.todo \ {NextPath} /\ holder'.at = "stat"
      /\ holder'.does = holder.does /\ holder'.into = holder.into
      /\ holder'.from = holder.from /\ holder'.size = holder.size /\ holder'.hash = holder.hash
    <2>1. DOMAIN holder = {"does", "at", "into", "from", "todo", "size", "hash", "records"}
        BY DEF BackupInv, HolderFits
    <2> QED
        BY <2>1 DEF Recording
<1>2. /\ NextPath \in holder.todo /\ NextPath \in BackupPaths
      /\ holder.does \in {"create", "rollback"} /\ MadeSoFar(s)
    BY CreatingIs
<1>3. /\ holder'.records \in Seq(RecordType)
      /\ RecordsIn(holder'.records) = RecordsIn(holder.records) \cup {r}
      /\ PathsIn(holder'.records) = PathsIn(holder.records) \cup {NextPath}
    BY <1>1, Appended DEF BackupInv, HolderFits
<1>4. given' = given
    BY DEF NothingElse
<1>5. HolderFits'
    BY <1>1, <1>2, <1>3, <1>4 DEF BackupInv, HolderFits
<1>6. \A q \in RecordsIn(holder.records) :
         q.path \in BackupPaths /\ q.path \in PathsIn(holder.records)
    <2>1. PICK records : records = holder.records
        OBVIOUS
    <2>2. records \in Seq(RecordType)
        BY <2>1 DEF BackupInv, HolderFits
    <2>3. \A n \in DOMAIN records : records[n] \in RecordType
        BY <2>2, ElementOfSeq, LenProperties
    <2> QED
        BY <2>1, <2>3 DEF RecordsIn, PathsIn, RecordType
<1>7. ASSUME NEW q \in RecordsIn(holder.records)
      PROVE  RecordIs(e, q)
    <2>1. q.path \in BackupPaths \ {NextPath} /\ RecordIs(s, q)
        BY <1>2, <1>6 DEF MadeSoFar
    <2> QED
        BY <2>1 DEF RecordIs
<1>8. MadeSoFar(e)'
    <2>1. /\ e.manifest = <<>> /\ ~e.deleted
          /\ DOMAIN e.was = PathsIn(holder'.records) \cup holder'.todo
          /\ PathsIn(holder'.records) \cap holder'.todo = {}
          /\ DOMAIN e.was # {}
          /\ ~e.disturbed => \A p \in DOMAIN e.was : e.was[p] = disk[p]
        BY <1>1, <1>2, <1>3 DEF MadeSoFar
    <2>2. \A q \in RecordsIn(holder'.records) : RecordIs(e, q)
        BY <1>3, <1>7
    <2> QED
        BY <1>1, <2>1, <2>2 DEF MadeSoFar
<1>9. MadeSoFar(store[holder.into])'
    BY <1>1, <1>8
<1>10. Creating'
    BY <1>1 DEF Creating
<1> QED
    BY <1>1, <1>5, <1>9, <1>10, MakingKeeps

LEMMA StatKeeps ==
    ASSUME BackupInv, StatFile
    PROVE  BackupInv'
<1>1. /\ Creating /\ holder.at = "stat" /\ holder.todo # {}
      /\ disk' = disk /\ store' = store /\ latest' = latest /\ NothingElse
    BY DEF StatFile, Creating
<1>2. /\ NextPath \in holder.todo /\ NextPath \in BackupPaths /\ holder.into \in Ids
      /\ holder.does \in {"create", "rollback"}
      /\ MadeSoFar(store[holder.into]) /\ StoredTyped(store[holder.into])
    BY <1>1, CreatingIs
<1>3. StoreFits'
    BY <1>1 DEF BackupInv, StoreFits
<1>4. CASE disk[NextPath] = NoFile
    <2>1. PICK r : r = NotThere(NextPath)
        OBVIOUS
    <2>2. Recording(r)
        BY <1>4, <2>1 DEF StatFile
    <2>3. /\ r \in RecordType /\ r.path = NextPath /\ ~r.existed
        BY <1>2, <2>1 DEF NotThere, RecordType, FileStates
    <2>4. RecordIs(store[holder.into], r)
        BY <1>2, <1>4, <2>3 DEF RecordIs, MadeSoFar
    <2> QED
        BY <1>1, <1>3, <2>2, <2>3, <2>4, RecordingKeeps
<1>5. CASE disk[NextPath] # NoFile
    <2>1. holder' = [holder EXCEPT !.size = Sizes[disk[NextPath]], !.at = "hash"]
        BY <1>5 DEF StatFile
    <2>2. /\ DOMAIN holder' = DOMAIN holder /\ holder'.records = holder.records
          /\ holder'.todo = holder.todo /\ holder'.at = "hash"
          /\ holder'.does = holder.does /\ holder'.into = holder.into
          /\ holder'.from = holder.from /\ holder'.hash = holder.hash
          /\ holder'.size = Sizes[disk[NextPath]]
        <3>1. DOMAIN holder = {"does", "at", "into", "from", "todo", "size", "hash", "records"}
            BY DEF BackupInv, HolderFits
        <3> QED
            BY <2>1, <3>1
    <2>3. disk[NextPath] \in FileContents /\ Sizes[disk[NextPath]] \in Nat
        BY <1>2, <1>5, BackupStoreAssumption DEF BackupInv, Numbers, FileStates
    <2>4. given' = given
        BY <1>1 DEF NothingElse
    <2>5. HolderFits'
        BY <1>1, <1>2, <2>2, <2>3, <2>4 DEF BackupInv, HolderFits
    <2>6. NextPath' = NextPath
        BY <2>2 DEF NextPath
    <2>7. MadeSoFar(store[holder.into])'
        BY <1>1, <1>2, <1>5, <2>2, <2>6 DEF MadeSoFar
    <2>8. Creating'
        BY <2>2 DEF Creating
    <2> QED
        BY <1>1, <1>3, <2>2, <2>5, <2>7, <2>8, MakingKeeps
<1> QED
    BY <1>4, <1>5

LEMMA CreateFailsKeeps ==
    ASSUME BackupInv, Creating, CreateFails
    PROVE  BackupInv'
<1>1. /\ holder.does \in {"create", "rollback"} /\ latest.result = "none"
      /\ holder.into \in Ids
      /\ holder.does = "create" => latest = NoRollback
      /\ holder.does = "rollback" => latest.from \in Ids /\ latest.from # holder.into
    BY CreatingIs
<1>2. /\ store' = [store EXCEPT ![holder.into] = NothingStored] /\ holder' = Unlocked
      /\ latest' = IF holder.does = "create" THEN latest
                   ELSE [latest EXCEPT !.result = "refused"]
      /\ disk' = disk /\ given' = given /\ fileEdits' = fileEdits /\ deaths' = deaths
    BY DEF CreateFails, NothingElse
<1>3. Numbers'
    BY <1>2 DEF BackupInv, Numbers
<1>4. StoreFits'
    BY <1>1, <1>2, NothingIs DEF BackupInv, StoreFits
<1>5. HolderFits' /\ CreatingFits' /\ RollbackFits' /\ PutBackSoFar'
    BY <1>2, Rests DEF BackupInv, Numbers
<1>6. ~PutsBack' /\ holder'.does = "none"
    BY <1>2, UnlockedIs DEF PutsBack
<1>7. CASE holder.does = "create"
    <2>1. SafetyFits' /\ LatestFits'
        BY <1>1, <1>2, <1>6, <1>7, NoRollbackIs DEF SafetyFits, LatestFits
    <2> QED
        BY <1>3, <1>4, <1>5, <2>1 DEF BackupInv
<1>8. CASE holder.does = "rollback"
    <2>1. /\ DOMAIN latest' = DOMAIN latest /\ latest'.result = "refused"
          /\ latest'.from = latest.from /\ latest'.safety = latest.safety
          /\ latest'.edited = latest.edited /\ latest'.before = latest.before
        <3>1. DOMAIN latest = {"result", "from", "safety", "edited", "before"}
            BY DEF BackupInv, LatestFits
        <3> QED
            BY <1>2, <1>8, <3>1
    <2>2. SafetyFits'
        BY <1>6, <2>1 DEF SafetyFits
    <2>3. latest # NoRollback /\ (~latest.edited => disk = latest.before)
        BY <1>8, NoRollbackIs DEF BackupInv, RollbackFits
    <2>4. LatestFits'
        <3>1. ~latest.edited => EndedWell(store[latest.from])'
            BY <1>2, <2>1, <2>3 DEF EndedWell
        <3> QED
            BY <1>1, <1>6, <1>8, <2>1, <2>3, <3>1 DEF BackupInv, LatestFits
    <2> QED
        BY <1>3, <1>4, <1>5, <2>2, <2>4 DEF BackupInv
<1> QED
    BY <1>1, <1>7, <1>8

LEMMA HashKeeps ==
    ASSUME BackupInv, HashFile
    PROVE  BackupInv'
<1>1. Creating /\ holder.at = "hash" /\ holder.todo # {}
    BY DEF HashFile, Creating, BackupInv, HolderFits
<1>2. /\ NextPath \in BackupPaths /\ holder.does \in {"create", "rollback"}
      /\ MadeSoFar(store[holder.into])
    BY <1>1, CreatingIs
<1>3. CASE disk[NextPath] = NoFile
    BY <1>1, <1>3, CreateFailsKeeps DEF HashFile
<1>4. CASE disk[NextPath] # NoFile
    <2>1. /\ holder' = [holder EXCEPT !.hash = disk[NextPath], !.at = "copy"]
          /\ disk' = disk /\ store' = store /\ latest' = latest /\ NothingElse
        BY <1>4 DEF HashFile
    <2>2. /\ DOMAIN holder' = DOMAIN holder /\ holder'.records = holder.records
          /\ holder'.todo = holder.todo /\ holder'.at = "copy"
          /\ holder'.does = holder.does /\ holder'.into = holder.into
          /\ holder'.from = holder.from /\ holder'.hash = disk[NextPath]
          /\ holder'.size = holder.size
        <3>1. DOMAIN holder = {"does", "at", "into", "from", "todo", "size", "hash", "records"}
            BY DEF BackupInv, HolderFits
        <3> QED
            BY <2>1, <3>1
    <2>3. disk[NextPath] \in FileStates
        BY <1>2 DEF BackupInv, Numbers
    <2>4. given' = given
        BY <2>1 DEF NothingElse
    <2>5. HolderFits'
        BY <1>1, <1>2, <2>2, <2>3, <2>4 DEF BackupInv, HolderFits
    <2>6. MadeSoFar(store[holder.into])'
        BY <1>1, <1>2, <1>4, <2>1, <2>2 DEF MadeSoFar
    <2>7. Creating' /\ StoreFits'
        BY <2>1, <2>2 DEF Creating, BackupInv, StoreFits
    <2> QED
        BY <1>1, <2>1, <2>2, <2>5, <2>6, <2>7, MakingKeeps
<1> QED
    BY <1>3, <1>4

LEMMA CopyKeeps ==
    ASSUME BackupInv, CopyFile
    PROVE  BackupInv'
<1>1. Creating /\ holder.at = "copy" /\ holder.todo # {}
    BY DEF CopyFile, Creating, BackupInv, HolderFits
<1>2. /\ NextPath \in BackupPaths /\ NextPath \in holder.todo /\ holder.into \in Ids
      /\ MadeSoFar(store[holder.into]) /\ StoredTyped(store[holder.into])
    BY <1>1, CreatingIs
<1>3. CASE disk[NextPath] # holder.hash
    BY <1>1, <1>3, CreateFailsKeeps DEF CopyFile
<1>4. CASE disk[NextPath] = holder.hash
    <2>1. CopyNextPath /\ disk' = disk /\ latest' = latest /\ NothingElse
        BY <1>4 DEF CopyFile
    <2>2. PICK s : s = store[holder.into]
        OBVIOUS
    <2>3. PICK f : f = [p \in DOMAIN s.files \cup {NextPath} |->
                           IF p = NextPath THEN disk[p] ELSE s.files[p]]
        OBVIOUS
    <2>4. PICK e : e = [s EXCEPT !.files = f]
        OBVIOUS
    <2>5. store' = [store EXCEPT ![holder.into] = e]
        <3>1. store' = [store EXCEPT ![holder.into].files =
                           [p \in DOMAIN @ \cup {NextPath} |-> IF p = NextPath THEN disk[p] ELSE @[p]]]
            BY <2>1 DEF CopyNextPath
        <3> QED
            BY <2>2, <2>3, <2>4, <3>1
    <2>6. /\ DOMAIN store' = Ids /\ store'[holder.into] = e
          /\ \A b \in Ids \ {holder.into} : store'[b] = store[b]
        BY <1>2, <2>5 DEF BackupInv, StoreFits
    <2>7. /\ DOMAIN e = DOMAIN s /\ e.manifest = s.manifest /\ e.was = s.was
          /\ e.disturbed = s.disturbed /\ e.deleted = s.deleted /\ e.files = f
        BY <1>2, <2>2, <2>4 DEF StoredTyped
    <2>8. holder.hash \in FileContents
        BY <1>1, <1>2 DEF MadeSoFar, BackupInv, HolderFits, FileStates
    <2>9. /\ DOMAIN f = DOMAIN s.files \cup {NextPath} /\ f[NextPath] = holder.hash
          /\ \A p \in DOMAIN s.files \ {NextPath} : f[p] = s.files[p]
        BY <1>4, <2>3
    <2>10. StoredTyped(e) /\ StoredFits(e)
        <3>1. StoredTyped(e)
            BY <1>2, <2>2, <2>7, <2>8, <2>9 DEF StoredTyped
        <3>2. e.manifest = <<>>
            BY <1>2, <2>2, <2>7 DEF MadeSoFar
        <3> QED
            BY <3>1, <3>2, NothingIs DEF StoredFits
    <2>11. StoreFits'
        BY <2>6, <2>10 DEF BackupInv, StoreFits
    <2>12. PICK r : r = [path |-> NextPath, existed |-> TRUE,
                         size |-> holder.size, hash |-> holder.hash]
        OBVIOUS
    <2>13. r \in RecordType /\ r.path = NextPath /\ Recording(r)
        BY <1>2, <2>1, <2>12 DEF RecordType, CopyNextPath, BackupInv, HolderFits
    <2>14. RecordIs(e, r)
        <3>1. r.path = NextPath /\ r.existed /\ r.size = holder.size /\ r.hash = holder.hash
            BY <2>12
        <3>2. NextPath \in DOMAIN s.was /\ (~s.disturbed => s.was[NextPath] = disk[NextPath])
              /\ (~s.disturbed => holder.size = Sizes[holder.hash])
            BY <1>1, <1>2, <2>2 DEF MadeSoFar
        <3> QED
            BY <1>4, <2>7, <2>9, <3>1, <3>2 DEF RecordIs
    <2>15. \A p \in BackupPaths \ {NextPath} :
              /\ p \in DOMAIN e.files <=> p \in DOMAIN s.files
              /\ p \in DOMAIN s.files => e.files[p] = s.files[p]
        BY <2>7, <2>9
    <2> QED
        BY <1>1, <2>1, <2>2, <2>6, <2>7, <2>11, <2>13, <2>14, <2>15, RecordingKeeps
<1> QED
    BY <1>3, <1>4

LEMMA ManifestKeeps ==
    ASSUME BackupInv, WriteManifest
    PROVE  BackupInv'
<1>1. /\ Creating /\ holder.at = "stat" /\ holder.todo = {}
      /\ store' = [store EXCEPT ![holder.into].manifest = holder.records]
      /\ disk' = disk /\ latest' = latest
      /\ given' = given /\ fileEdits' = fileEdits /\ deaths' = deaths
    BY DEF WriteManifest, Creating, NothingElse
<1>2. /\ holder.does \in {"create", "rollback"} /\ latest.result = "none"
      /\ holder.into \in Ids /\ holder.into # 0
      /\ MadeSoFar(store[holder.into]) /\ StoredTyped(store[holder.into])
      /\ holder.does = "create" => latest = NoRollback
      /\ holder.does = "rollback" => latest.from \in Ids /\ latest.from # holder.into
    BY <1>1, CreatingIs
<1>3. PICK s : s = store[holder.into]
    OBVIOUS
<1>4. PICK e : e = [s EXCEPT !.manifest = holder.records]
    OBVIOUS
<1>5. /\ DOMAIN store' = Ids /\ store'[holder.into] = e
      /\ \A b \in Ids \ {holder.into} : store'[b] = store[b]
    BY <1>1, <1>2, <1>3, <1>4 DEF BackupInv, StoreFits
<1>6. /\ DOMAIN e = DOMAIN s /\ e.manifest = holder.records /\ e.was = s.was
      /\ e.disturbed = s.disturbed /\ e.deleted = s.deleted /\ e.files = s.files
    BY <1>2, <1>3, <1>4 DEF StoredTyped
<1>7. StoredTyped(e)
    BY <1>2, <1>3, <1>6 DEF StoredTyped, BackupInv, HolderFits
<1>8. /\ PathsIn(e.manifest) = DOMAIN e.was /\ DOMAIN e.was # {}
      /\ e.manifest # <<>> /\ ~e.deleted
    BY <1>1, <1>2, <1>3, <1>6, NothingIs DEF MadeSoFar
<1>9. StoredFits(e)
    BY <1>2, <1>3, <1>6, <1>8 DEF MadeSoFar, StoredFits, RecordIs
<1>10. StoreFits'
    BY <1>5, <1>7, <1>9 DEF BackupInv, StoreFits
<1>11. Numbers'
    BY <1>1 DEF BackupInv, Numbers
<1>12. CASE holder.does = "create"
    <2>1. holder' = Unlocked
        BY <1>12 DEF WriteManifest
    <2>2. HolderFits' /\ CreatingFits' /\ RollbackFits' /\ PutBackSoFar'
        BY <1>1, <2>1, Rests DEF BackupInv, Numbers
    <2>3. SafetyFits' /\ LatestFits'
        BY <1>1, <1>2, <1>12, NoRollbackIs DEF SafetyFits, LatestFits
    <2> QED
        BY <1>10, <1>11, <2>2, <2>3 DEF BackupInv
<1>13. CASE holder.does = "rollback"
    <2>1. PICK b \in Ids : b = latest.from /\ b # holder.into
        BY <1>2, <1>13
    <2>2. /\ holder.from = b /\ latest.safety = holder.into /\ b # 0 /\ WholeIn(store[b])
          /\ DOMAIN s.was = PathsIn(store[b].manifest)
          /\ ~latest.edited => disk = latest.before /\ ~s.disturbed
        BY <1>1, <1>3, <1>13, <2>1 DEF BackupInv, RollbackFits
    <2>3. AffectedBy(holder.from) = PathsIn(store[b].manifest)
        BY <2>2, Views
    <2>4. holder' = [holder EXCEPT !.at = "restore", !.todo = AffectedBy(holder.from)]
        BY <1>13 DEF WriteManifest
    <2>5. /\ DOMAIN holder' = DOMAIN holder /\ holder'.records = holder.records
          /\ holder'.todo = PathsIn(store[b].manifest) /\ holder'.at = "restore"
          /\ holder'.does = "rollback" /\ holder'.into = holder.into
          /\ holder'.from = b /\ holder'.hash = holder.hash /\ holder'.size = holder.size
        <3>1. DOMAIN holder = {"does", "at", "into", "from", "todo", "size", "hash", "records"}
            BY DEF BackupInv, HolderFits
        <3> QED
            BY <1>13, <2>2, <2>3, <2>4, <3>1
    <2>6. PathsIn(store[b].manifest) \subseteq BackupPaths
        <3>1. PICK m : m = holder.records
            OBVIOUS
        <3>2. m \in Seq(RecordType)
            BY <3>1 DEF BackupInv, HolderFits
        <3>3. \A n \in DOMAIN m : m[n] \in RecordType
            BY <3>2, ElementOfSeq, LenProperties
        <3>4. \A n \in DOMAIN m : m[n].path \in BackupPaths
            BY <3>3 DEF RecordType
        <3>5. PathsIn(m) \subseteq BackupPaths
            BY <3>4 DEF PathsIn
        <3> QED
            BY <1>6, <1>8, <2>2, <3>1, <3>5
    <2>7. HolderFits'
        BY <1>1, <2>2, <2>5, <2>6 DEF BackupInv, HolderFits
    <2>8. CreatingFits'
        BY <2>5 DEF CreatingFits, Creating
    <2>9. store'[b] = store[b] /\ PutsBack' /\ ~Creating'
        BY <1>5, <2>1, <2>5 DEF PutsBack, Creating
    <2>10. RollbackFits'
        BY <1>1, <1>13, <2>1, <2>2, <2>5, <2>9 DEF BackupInv, RollbackFits
    <2>11. ~latest.edited => SavesBefore(e)'
        <3>1. SUFFICES ASSUME ~latest.edited PROVE SavesBefore(e)'
            OBVIOUS
        <3>2. WholeIn(e) /\ \A p \in PathsIn(e.manifest) : PutBack(e, p) = e.was[p]
            BY <1>6, <1>7, <1>8, <1>9, <2>2, <3>1, FinishedIsWhole
        <3>3. \A p \in DOMAIN e.was : e.was[p] = latest.before[p]
            BY <1>2, <1>3, <1>6, <2>2, <3>1 DEF MadeSoFar
        <3> QED
            BY <1>1, <1>6, <1>8, <2>1, <2>2, <2>9, <3>2, <3>3 DEF SavesBefore
    <2>12. SafetyFits'
        BY <1>1, <1>2, <1>5, <2>2, <2>11 DEF SafetyFits
    <2>13. PutBackSoFar'
        <3>1. ~latest.edited => DoneSoFar(store[b])'
            BY <1>1, <2>2, <2>5, <2>9 DEF DoneSoFar, Waits
        <3> QED
            BY <1>1, <2>1, <3>1 DEF PutBackSoFar
    <2>14. LatestFits'
        BY <1>1, <1>2, <2>5 DEF BackupInv, LatestFits
    <2> QED
        BY <1>10, <1>11, <2>7, <2>8, <2>10, <2>12, <2>13, <2>14 DEF BackupInv
<1> QED
    BY <1>2, <1>12, <1>13

(* -------------------------- steps of a rollback ------------------------ *)

\* What is known while files are put back: the backup they come from is whole.
LEMMA PuttingIs ==
    ASSUME BackupInv, PutsBack
    PROVE  /\ holder.does \in {"rollback", "recover"} /\ ~Creating
           /\ holder.into \in Ids /\ holder.from \in Ids /\ latest.from \in Ids
           /\ latest.result = "none" /\ latest.safety = holder.into /\ latest # NoRollback
           /\ holder.from = IF holder.does = "rollback" THEN latest.from ELSE holder.into
           /\ WholeIn(store[holder.from]) /\ WholeIn(store[latest.from])
           /\ StoredTyped(store[holder.from])
           /\ holder.todo \subseteq PathsIn(store[holder.from].manifest)
           /\ PathsIn(store[holder.from].manifest) \subseteq BackupPaths
           /\ holder.todo # {} => NextPath \in holder.todo /\ NextPath \in BackupPaths
           /\ ~latest.edited => /\ DoneSoFar(store[latest.from])
                                /\ SavesBefore(store[holder.into])
<1>1. holder.does \in {"rollback", "recover"} /\ ~Creating
    BY DEF BackupInv, HolderFits, Creating, PutsBack
<1>2. /\ latest.result = "none" /\ latest.safety = holder.into /\ holder.into # 0
      /\ latest.from # 0 /\ latest.from \in Nat /\ latest.from <= given
      /\ holder.from = IF holder.does = "rollback" THEN latest.from ELSE holder.into
      /\ WholeIn(store[holder.from]) /\ WholeIn(store[latest.from])
      /\ holder.todo \subseteq PathsIn(store[holder.from].manifest)
    BY <1>1 DEF BackupInv, RollbackFits
<1>3. holder.into \in Ids /\ holder.from \in Ids /\ latest.from \in Ids
    BY <1>2, BackupStoreAssumption DEF BackupInv, HolderFits, Numbers, Ids
<1>4. StoredTyped(store[holder.from])
    BY <1>3 DEF BackupInv, StoreFits
<1>5. PathsIn(store[holder.from].manifest) \subseteq BackupPaths
    <2>1. PICK m : m = store[holder.from].manifest
        OBVIOUS
    <2>2. m \in Seq(RecordType)
        BY <1>4, <2>1 DEF StoredTyped
    <2>3. \A n \in DOMAIN m : m[n] \in RecordType
        BY <2>2, ElementOfSeq, LenProperties
    <2>4. \A n \in DOMAIN m : m[n].path \in BackupPaths
        BY <2>3 DEF RecordType
    <2> QED
        BY <2>1, <2>4 DEF PathsIn
<1>6. holder.todo # {} => NextPath \in holder.todo /\ NextPath \in BackupPaths
    BY NextIsThere DEF BackupInv, HolderFits
<1>7. ~latest.edited => DoneSoFar(store[latest.from]) /\ SavesBefore(store[holder.into])
    BY <1>2 DEF BackupInv, PutBackSoFar, SafetyFits
<1>8. latest # NoRollback
    BY <1>2, NoRollbackIs
<1> QED
    BY <1>1, <1>2, <1>3, <1>4, <1>5, <1>6, <1>7, <1>8

\* A step of putting back that leaves the backups and what is known of the rollback
\* alone.
LEMMA PuttingKeeps ==
    ASSUME BackupInv, PutsBack, PutsBack', store' = store, latest' = latest, NothingElse,
           DOMAIN holder' = DOMAIN holder, holder'.records = holder.records,
           holder'.does \in {"rollback", "recover"}, holder'.into = holder.into,
           holder'.hash = holder.hash, holder'.size = holder.size,
           holder'.from = IF holder'.does = "rollback" THEN latest.from ELSE holder.into,
           WholeIn(store[holder'.from]),
           holder'.todo \subseteq PathsIn(store[holder'.from].manifest),
           holder'.todo \subseteq BackupPaths,
           holder'.at = "check" => holder'.todo # {},
           disk' \in [BackupPaths -> FileStates],
           ~latest.edited => DoneSoFar(store[latest.from])'
    PROVE  BackupInv'
<1>1. given' = given /\ fileEdits' = fileEdits /\ deaths' = deaths
    BY DEF NothingElse
<1>2. Numbers' /\ StoreFits'
    BY <1>1 DEF BackupInv, Numbers, StoreFits
<1>3. /\ ~Creating' /\ holder'.does # "none" /\ holder'.does # "delete"
      /\ holder'.at \in {"restore", "check"}
    BY DEF PutsBack, Creating
<1>4. HolderFits'
    <2>1. holder'.from \in Nat /\ holder'.from <= given
        BY PuttingIs DEF BackupInv, HolderFits, RollbackFits
    <2> QED
        BY <1>1, <1>3, <2>1 DEF BackupInv, HolderFits
<1>5. CreatingFits'
    BY <1>3 DEF CreatingFits
<1>6. RollbackFits'
    BY <1>1, <1>3, PuttingIs DEF BackupInv, RollbackFits
<1>7. PutBackSoFar'
    BY DEF PutBackSoFar
<1>8. SafetyFits'
    <2>1. ~latest.edited => SavesBefore(store[holder.into])
        BY PuttingIs
    <2>2. SavesBefore(store[holder.into]) => SavesBefore(store[holder.into])'
        BY DEF SavesBefore
    <2> QED
        BY <2>1, <2>2, PuttingIs DEF SafetyFits
<1>9. LatestFits'
    BY PuttingIs DEF BackupInv, LatestFits
<1> QED
    BY <1>2, <1>4, <1>5, <1>6, <1>7, <1>8, <1>9 DEF BackupInv

\* The end of a rollback.
LEMMA RollbackEndsKeeps ==
    ASSUME BackupInv, PutsBack, NEW result \in {"restored", "recovered", "broken", "died"},
           holder' = Unlocked, latest' = [latest EXCEPT !.result = result],
           disk' = disk, store' = store, Numbers',
           result = "restored" => holder.does = "rollback" /\ holder.todo = {}
                                  /\ holder.at = "restore",
           result = "recovered" => holder.does = "recover" /\ holder.todo = {}
                                   /\ holder.at = "restore"
    PROVE  BackupInv'
<1>1. StoreFits'
    BY DEF BackupInv, StoreFits
<1>2. HolderFits' /\ CreatingFits' /\ RollbackFits' /\ PutBackSoFar'
    BY Rests DEF Numbers
<1>3. /\ DOMAIN latest' = DOMAIN latest /\ latest'.result = result
      /\ latest'.from = latest.from /\ latest'.safety = latest.safety
      /\ latest'.edited = latest.edited /\ latest'.before = latest.before
    <2>1. DOMAIN latest = {"result", "from", "safety", "edited", "before"}
        BY DEF BackupInv, LatestFits
    <2> QED
        BY <2>1
<1>4. holder'.does = "none" /\ ~PutsBack'
    BY UnlockedIs DEF PutsBack
<1>5. SafetyFits'
    <2>1. PICK s, a : s = store[holder.into] /\ a = store[latest.from]
        OBVIOUS
    <2>2. SavesBefore(s) => SavesBefore(s)'
        BY <1>3, <2>1 DEF SavesBefore
    <2>3. latest'.safety = holder.into /\ holder.into \in Ids /\ store'[holder.into] = s
          /\ (~latest'.edited => SavesBefore(s))
        BY <1>3, <2>1, PuttingIs
    <2> QED
        BY <2>2, <2>3 DEF SafetyFits
<1>6. ASSUME ~latest.edited PROVE EndedWell(store[latest.from])'
    <2>1. /\ DoneSoFar(store[latest.from]) /\ SavesBefore(store[holder.into])
          /\ holder.does \in {"rollback", "recover"}
        BY <1>6, PuttingIs
    <2>2. PICK P, s : s = store[latest.from] /\ P = PathsIn(s.manifest)
        OBVIOUS
    <2>3. /\ \A p \in BackupPaths \ P : disk[p] = latest.before[p]
          /\ \A p \in P :
                /\ holder.does = "rollback" =>
                      disk[p] = IF Waits(p) THEN latest.before[p] ELSE PutBack(s, p)
                /\ holder.does = "recover" =>
                      /\ disk[p] \in {latest.before[p], PutBack(s, p)}
                      /\ ~Waits(p) => disk[p] = latest.before[p]
        BY <2>1, <2>2 DEF DoneSoFar
    <2>4. \A p \in BackupPaths :
             disk[p] = latest.before[p] \/ (p \in P /\ disk[p] = PutBack(s, p))
        BY <2>1, <2>3
    <2>5. CASE result = "restored"
        <3>1. \A p : ~Waits(p)
            BY <2>5 DEF Waits
        <3>2. \A p \in BackupPaths :
                 disk[p] = IF p \in P THEN PutBack(s, p) ELSE latest.before[p]
            BY <2>3, <2>5, <3>1
        <3> QED
            BY <1>3, <2>2, <2>5, <3>2 DEF EndedWell
    <2>6. CASE result = "recovered"
        <3>1. \A p : ~Waits(p)
            BY <2>6 DEF Waits
        <3>2. \A p \in BackupPaths : disk[p] = latest.before[p]
            BY <2>3, <2>6, <3>1
        <3>3. disk \in [BackupPaths -> FileStates] /\ latest.before \in [BackupPaths -> FileStates]
            BY PuttingIs DEF BackupInv, Numbers, LatestFits
        <3>4. disk = latest.before
            BY <3>2, <3>3
        <3> QED
            BY <1>3, <2>6, <3>4 DEF EndedWell
    <2>7. CASE result \in {"broken", "died"}
        BY <1>3, <2>2, <2>4, <2>7 DEF EndedWell
    <2> QED
        BY <2>5, <2>6, <2>7
<1>7. LatestFits'
    BY <1>3, <1>4, <1>6, PuttingIs DEF BackupInv, LatestFits
<1> QED
    BY <1>1, <1>2, <1>5, <1>7 DEF BackupInv

LEMMA RestoreKeeps ==
    ASSUME BackupInv, RestoreFile
    PROVE  BackupInv'
<1>1. /\ PutsBack /\ holder.at = "restore" /\ holder.todo # {}
      /\ store' = store /\ latest' = latest /\ NothingElse
    BY DEF RestoreFile, PutsBack
<1>2. PICK s : s = store[holder.from]
    OBVIOUS
<1>3. /\ NextPath \in holder.todo /\ NextPath \in BackupPaths
      /\ NextPath \in PathsIn(s.manifest) /\ WholeIn(s) /\ StoredTyped(s)
      /\ holder.does \in {"rollback", "recover"}
    BY <1>1, <1>2, PuttingIs
<1>4. RecordOf(holder.from, NextPath) = RecordIn(s, NextPath)
    BY <1>2, Views
<1>5. disk' = [disk EXCEPT ![NextPath] = PutBack(s, NextPath)]
    BY <1>2, <1>4 DEF RestoreFile, PutBack
<1>6. PutBack(s, NextPath) \in FileStates
    BY <1>3 DEF PutBack, WholeIn, StoredTyped, FileStates
<1>7. /\ disk' \in [BackupPaths -> FileStates] /\ disk'[NextPath] = PutBack(s, NextPath)
      /\ \A p \in BackupPaths \ {NextPath} : disk'[p] = disk[p]
    BY <1>3, <1>5, <1>6 DEF BackupInv, Numbers
<1>8. /\ DOMAIN holder' = DOMAIN holder /\ holder'.records = holder.records
      /\ holder'.does = holder.does /\ holder'.into = holder.into
      /\ holder'.from = holder.from /\ holder'.hash = holder.hash
      /\ holder'.size = holder.size
      /\ \/ holder'.at = "check" /\ holder'.todo = holder.todo
         \/ holder'.at = "restore" /\ holder'.todo = holder.todo \ {NextPath}
    <2>1. DOMAIN holder = {"does", "at", "into", "from", "todo", "size", "hash", "records"}
        BY DEF BackupInv, HolderFits
    <2>2. \/ holder' = [holder EXCEPT !.at = "check"]
          \/ holder' = [holder EXCEPT !.todo = @ \ {NextPath}]
        BY DEF RestoreFile
    <2> QED
        BY <1>1, <2>1, <2>2
<1>9. \A p \in BackupPaths : Waits(p)' <=> Waits(p) /\ p # NextPath
    <2>1. CASE holder'.at = "check" /\ holder'.todo = holder.todo
        <3>1. NextPath' = NextPath
            BY <2>1 DEF NextPath
        <3> QED
            BY <1>1, <2>1, <3>1 DEF Waits
    <2>2. CASE holder'.at = "restore" /\ holder'.todo = holder.todo \ {NextPath}
        BY <1>1, <2>2 DEF Waits
    <2> QED
        BY <1>8, <2>1, <2>2
<1>10. ~latest.edited => DoneSoFar(store[latest.from])'
    <2>1. SUFFICES ASSUME ~latest.edited PROVE DoneSoFar(store[latest.from])'
        OBVIOUS
    <2>2. PICK a, P : a = store[latest.from] /\ P = PathsIn(a.manifest)
        OBVIOUS
    <2>3. P \subseteq BackupPaths /\ NextPath \in P
        <3>1. CASE holder.does = "rollback"
            BY <1>1, <1>2, <1>3, <2>2, <3>1, PuttingIs
        <3>2. CASE holder.does = "recover"
            BY <1>1, <1>2, <1>3, <2>1, <2>2, <3>2, PuttingIs DEF SavesBefore
        <3> QED
            BY <1>3, <3>1, <3>2
    <2>4. /\ \A p \in BackupPaths \ P : disk[p] = latest.before[p]
          /\ \A p \in P :
                /\ holder.does = "rollback" =>
                      disk[p] = IF Waits(p) THEN latest.before[p] ELSE PutBack(a, p)
                /\ holder.does = "recover" =>
                      /\ disk[p] \in {latest.before[p], PutBack(a, p)}
                      /\ ~Waits(p) => disk[p] = latest.before[p]
        BY <1>1, <2>1, <2>2, PuttingIs DEF DoneSoFar
    <2>5. holder.does = "rollback" => s = a
        BY <1>1, <1>2, <2>2, PuttingIs
    <2>6. holder.does = "recover" => PutBack(s, NextPath) = latest.before[NextPath]
        BY <1>1, <1>2, <1>3, <2>1, PuttingIs DEF SavesBefore
    <2>7. \A p \in BackupPaths \ P : disk'[p] = latest.before[p]
        BY <1>7, <2>3, <2>4
    <2>8. ASSUME NEW p \in P
          PROVE  /\ holder.does = "rollback" =>
                      disk'[p] = IF Waits(p)' THEN latest.before[p] ELSE PutBack(a, p)
                 /\ holder.does = "recover" =>
                      /\ disk'[p] \in {latest.before[p], PutBack(a, p)}
                      /\ ~Waits(p)' => disk'[p] = latest.before[p]
        <3>1. CASE p = NextPath
            BY <1>7, <1>9, <2>3, <2>5, <2>6, <3>1
        <3>2. CASE p # NextPath
            <4>1. disk'[p] = disk[p] /\ (Waits(p)' <=> Waits(p))
                BY <1>7, <1>9, <2>3, <3>2
            <4> QED
                BY <2>4, <4>1
        <3> QED
            BY <3>1, <3>2
    <2>9. DoneSoFar(a)'
        BY <1>1, <1>8, <2>2, <2>7, <2>8 DEF DoneSoFar
    <2> QED
        BY <1>1, <2>2, <2>9
<1>11. PutsBack'
    BY <1>8 DEF PutsBack
<1>12. /\ holder'.todo \subseteq PathsIn(store[holder'.from].manifest)
       /\ holder'.todo \subseteq BackupPaths /\ (holder'.at = "check" => holder'.todo # {})
       /\ WholeIn(store[holder'.from])
       /\ holder'.from = IF holder'.does = "rollback" THEN latest.from ELSE holder.into
    BY <1>1, <1>8, PuttingIs
<1> QED
    BY <1>1, <1>3, <1>7, <1>8, <1>10, <1>11, <1>12, PuttingKeeps

LEMMA RestoreFailsKeeps ==
    ASSUME BackupInv, PutsBack, RestoreFails
    PROVE  BackupInv'
<1>1. disk' = disk /\ store' = store /\ NothingElse
    BY DEF RestoreFails
<1>2. Numbers'
    BY <1>1 DEF NothingElse, BackupInv, Numbers
<1>3. CASE holder.does = "rollback" /\ IntactBackup(holder.into)
    <2>1. /\ WholeIn(store[holder.into])
          /\ AffectedBy(holder.into) = PathsIn(store[holder.into].manifest)
        BY <1>3, Views
    <2>2. /\ holder' = [holder EXCEPT !.does = "recover", !.at = "restore",
                                      !.from = holder.into, !.todo = AffectedBy(holder.into)]
          /\ latest' = latest
        BY <1>3 DEF RestoreFails
    <2>3. /\ DOMAIN holder' = DOMAIN holder /\ holder'.records = holder.records
          /\ holder'.does = "recover" /\ holder'.into = holder.into /\ holder'.at = "restore"
          /\ holder'.from = holder.into /\ holder'.hash = holder.hash
          /\ holder'.size = holder.size
          /\ holder'.todo = PathsIn(store[holder.into].manifest)
        <3>1. DOMAIN holder = {"does", "at", "into", "from", "todo", "size", "hash", "records"}
            BY DEF BackupInv, HolderFits
        <3> QED
            BY <2>1, <2>2, <3>1
    <2>4. holder'.todo \subseteq BackupPaths
        <3>1. PICK m : m = store[holder.into].manifest
            OBVIOUS
        <3>2. m \in Seq(RecordType)
            BY <3>1, PuttingIs DEF BackupInv, StoreFits, StoredTyped
        <3>3. \A n \in DOMAIN m : m[n] \in RecordType
            BY <3>2, ElementOfSeq, LenProperties
        <3>4. \A n \in DOMAIN m : m[n].path \in BackupPaths
            BY <3>3 DEF RecordType
        <3> QED
            BY <2>3, <3>1, <3>4 DEF PathsIn
    <2>5. ~latest.edited => DoneSoFar(store[latest.from])'
        <3>1. SUFFICES ASSUME ~latest.edited PROVE DoneSoFar(store[latest.from])'
            OBVIOUS
        <3>2. PICK a, P : a = store[latest.from] /\ P = PathsIn(a.manifest)
            OBVIOUS
        <3>3. P = PathsIn(store[holder.into].manifest)
            BY <3>1, <3>2, PuttingIs DEF SavesBefore
        <3>4. \A p \in P : Waits(p)'
            BY <2>3, <3>3 DEF Waits
        <3>5. /\ \A p \in BackupPaths \ P : disk[p] = latest.before[p]
              /\ \A p \in P : disk[p] \in {latest.before[p], PutBack(a, p)}
            BY <1>3, <3>1, <3>2, PuttingIs DEF DoneSoFar
        <3>6. DoneSoFar(a)'
            BY <1>1, <2>2, <2>3, <3>2, <3>4, <3>5 DEF DoneSoFar
        <3> QED
            BY <1>1, <2>2, <3>2, <3>6
    <2>6. PutsBack' /\ disk' \in [BackupPaths -> FileStates]
        BY <1>1, <2>3 DEF PutsBack, BackupInv, Numbers
    <2> QED
        BY <1>1, <2>1, <2>2, <2>3, <2>4, <2>5, <2>6, PuttingKeeps
<1>4. CASE ~(holder.does = "rollback" /\ IntactBackup(holder.into))
    <2>1. holder' = Unlocked /\ latest' = [latest EXCEPT !.result = "broken"]
        BY <1>4 DEF RestoreFails, RollbackEnds
    <2> QED
        BY <1>1, <1>2, <2>1, RollbackEndsKeeps
<1> QED
    BY <1>3, <1>4

LEMMA CheckKeeps ==
    ASSUME BackupInv, CheckFile
    PROVE  BackupInv'
<1>1. PutsBack /\ holder.at = "check" /\ holder.todo # {}
    BY DEF CheckFile, PutsBack, BackupInv, HolderFits
<1>2. CASE disk[NextPath] # RecordOf(holder.from, NextPath).hash
    BY <1>1, <1>2, RestoreFailsKeeps DEF CheckFile
<1>3. CASE disk[NextPath] = RecordOf(holder.from, NextPath).hash
    <2>1. /\ holder' = [holder EXCEPT !.at = "restore", !.todo = @ \ {NextPath}]
          /\ disk' = disk /\ store' = store /\ latest' = latest /\ NothingElse
        BY <1>3 DEF CheckFile
    <2>2. /\ DOMAIN holder' = DOMAIN holder /\ holder'.records = holder.records
          /\ holder'.does = holder.does /\ holder'.into = holder.into /\ holder'.at = "restore"
          /\ holder'.from = holder.from /\ holder'.hash = holder.hash
          /\ holder'.size = holder.size /\ holder'.todo = holder.todo \ {NextPath}
        <3>1. DOMAIN holder = {"does", "at", "into", "from", "todo", "size", "hash", "records"}
            BY DEF BackupInv, HolderFits
        <3> QED
            BY <2>1, <3>1
    <2>3. \A p : Waits(p)' <=> Waits(p)
        BY <1>1, <2>2 DEF Waits
    <2>4. ~latest.edited => DoneSoFar(store[latest.from])'
        <3>1. PICK a : a = store[latest.from]
            OBVIOUS
        <3>2. DoneSoFar(a) => DoneSoFar(a)'
            BY <2>1, <2>2, <2>3 DEF DoneSoFar
        <3> QED
            BY <1>1, <2>1, <3>1, <3>2, PuttingIs
    <2>5. PutsBack' /\ disk' \in [BackupPaths -> FileStates]
        BY <2>1, <2>2 DEF PutsBack, BackupInv, Numbers
    <2>6. /\ holder'.todo \subseteq PathsIn(store[holder'.from].manifest)
          /\ holder'.todo \subseteq BackupPaths /\ WholeIn(store[holder'.from])
          /\ holder'.from = IF holder'.does = "rollback" THEN latest.from ELSE holder.into
        BY <1>1, <2>2, PuttingIs
    <2> QED
        BY <1>1, <2>1, <2>2, <2>4, <2>5, <2>6, PuttingIs, PuttingKeeps
<1> QED
    BY <1>2, <1>3

LEMMA SaveKeeps ==
    ASSUME BackupInv, SaveCounted
    PROVE  BackupInv'
<1>1. /\ PutsBack /\ holder.at = "restore" /\ holder.todo = {}
      /\ disk' = disk /\ store' = store /\ NothingElse
    BY DEF SaveCounted, PutsBack
<1>2. PICK result : result = IF holder.does = "rollback" THEN "restored" ELSE "recovered"
    OBVIOUS
<1>3. holder' = Unlocked /\ latest' = [latest EXCEPT !.result = result]
    BY <1>2 DEF SaveCounted, RollbackEnds
<1>4. Numbers'
    BY <1>1 DEF NothingElse, BackupInv, Numbers
<1>5. /\ result \in {"restored", "recovered", "broken", "died"}
      /\ result = "restored" => holder.does = "rollback"
      /\ result = "recovered" => holder.does = "recover"
    BY <1>1, <1>2, PuttingIs
<1> QED
    BY <1>1, <1>3, <1>4, <1>5, RollbackEndsKeeps

(* ----------------------- deletions, edits, deaths ---------------------- *)

LEMMA BeginDeleteKeeps ==
    ASSUME BackupInv, BeginDelete
    PROVE  BackupInv'
<1>1. PICK b \in 1 .. given :
         /\ holder' = [Unlocked EXCEPT !.does = "delete", !.at = "delete", !.from = b]
         /\ store' = [store EXCEPT ![b].deleted = TRUE]
    BY DEF BeginDelete
<1>2. /\ latest' = NoRollback /\ disk' = disk
      /\ given' = given /\ fileEdits' = fileEdits /\ deaths' = deaths
    BY DEF BeginDelete, NothingElse
<1>3. b \in Ids /\ b \in Nat /\ b # 0 /\ b <= given
    BY BackupStoreAssumption DEF BackupInv, Numbers, Ids
<1>4. PICK s, e : s = store[b] /\ e = [s EXCEPT !.deleted = TRUE]
    OBVIOUS
<1>5. /\ DOMAIN store' = Ids /\ store'[b] = e
      /\ \A c \in Ids \ {b} : store'[c] = store[c]
    BY <1>1, <1>3, <1>4 DEF BackupInv, StoreFits
<1>6. StoredTyped(s)
    BY <1>3, <1>4 DEF BackupInv, StoreFits
<1>7. DOMAIN e = DOMAIN s /\ e.manifest = s.manifest /\ e.files = s.files /\ e.deleted
    BY <1>4, <1>6 DEF StoredTyped
<1>8. StoreFits'
    BY <1>5, <1>6, <1>7 DEF BackupInv, StoreFits, StoredTyped, StoredFits
<1>9. /\ DOMAIN holder' = {"does", "at", "into", "from", "todo", "size", "hash", "records"}
      /\ holder'.does = "delete" /\ holder'.at = "delete" /\ holder'.into = 0
      /\ holder'.from = b /\ holder'.todo = {} /\ holder'.size = 0
      /\ holder'.hash = NoFile /\ holder'.records = <<>>
    BY <1>1, UnlockedIs
<1>10. Numbers'
    BY <1>2 DEF BackupInv, Numbers
<1>11. HolderFits'
    <2>1. <<>> \in Seq(RecordType) /\ NoFile \in FileStates
        BY DEF FileStates
    <2>2. 0 \in Nat /\ 0 <= given
        BY DEF BackupInv, Numbers
    <2>3. holder'.from # 0 /\ store'[holder'.from].deleted
        BY <1>3, <1>5, <1>7, <1>9
    <2>4. /\ holder'.into \in Nat /\ holder'.into <= given' /\ holder'.from \in Nat
          /\ holder'.from <= given' /\ holder'.size \in Nat
        BY <1>2, <1>3, <1>9, <2>2
    <2> QED
        BY <1>9, <2>1, <2>3, <2>4 DEF HolderFits
<1>12. CreatingFits' /\ RollbackFits' /\ PutBackSoFar'
    BY <1>9 DEF CreatingFits, RollbackFits, PutBackSoFar, Creating, PutsBack
<1>13. SafetyFits' /\ LatestFits'
    BY <1>2, <1>9, NoRollbackIs DEF SafetyFits, LatestFits
<1> QED
    BY <1>8, <1>10, <1>11, <1>12, <1>13 DEF BackupInv

LEMMA DeleteKeeps ==
    ASSUME BackupInv, DeleteFile
    PROVE  BackupInv'
<1>1. /\ holder.at = "delete" /\ holder.does = "delete" /\ disk' = disk
      /\ holder' = holder /\ latest' = latest
      /\ given' = given /\ fileEdits' = fileEdits /\ deaths' = deaths
    BY DEF DeleteFile, NothingElse, BackupInv, HolderFits
<1>2. PICK b \in Ids : b = holder.from /\ store[b].deleted
    BY <1>1, BackupStoreAssumption DEF BackupInv, HolderFits, Numbers, Ids
<1>3. PICK s : s = store[b]
    OBVIOUS
<1>4. StoredTyped(s) /\ latest = NoRollback
    BY <1>1, <1>3 DEF BackupInv, StoreFits, LatestFits
<1>5. PICK e : store' = [store EXCEPT ![b] = e] /\ StoredTyped(e) /\ e.deleted
    <2>1. CASE store' = [store EXCEPT ![holder.from].manifest = <<>>]
        <3>1. PICK e : e = [s EXCEPT !.manifest = <<>>]
            OBVIOUS
        <3>2. store' = [store EXCEPT ![b] = e]
            BY <1>2, <1>3, <2>1, <3>1
        <3>3. DOMAIN e = DOMAIN s /\ e.manifest = <<>> /\ e.files = s.files /\ e.deleted
            BY <1>2, <1>3, <1>4, <3>1 DEF StoredTyped
        <3>4. <<>> \in Seq(RecordType)
            OBVIOUS
        <3>5. StoredTyped(e)
            BY <1>4, <3>3, <3>4 DEF StoredTyped
        <3> QED
            BY <3>2, <3>3, <3>5
    <2>2. ASSUME NEW p \in DOMAIN s.files,
                 store' = [store EXCEPT ![holder.from].files =
                              [q \in DOMAIN s.files \ {p} |-> s.files[q]]]
          PROVE  \E e : store' = [store EXCEPT ![b] = e] /\ StoredTyped(e) /\ e.deleted
        <3>1. PICK f : f = [q \in DOMAIN s.files \ {p} |-> s.files[q]]
            OBVIOUS
        <3>2. PICK e : e = [s EXCEPT !.files = f]
            OBVIOUS
        <3>3. store' = [store EXCEPT ![b] = e]
            BY <1>2, <1>3, <2>2, <3>1, <3>2
        <3>4. DOMAIN e = DOMAIN s /\ e.manifest = s.manifest /\ e.files = f /\ e.deleted
            BY <1>2, <1>3, <1>4, <3>2 DEF StoredTyped
        <3>5. StoredTyped(e)
            BY <1>4, <3>1, <3>4 DEF StoredTyped
        <3> QED
            BY <3>3, <3>4, <3>5
    <2> QED
        BY <1>2, <1>3, <2>1, <2>2 DEF DeleteFile
<1>6. StoreFits'
    BY <1>5 DEF BackupInv, StoreFits, StoredFits
<1>7. Numbers'
    BY <1>1 DEF BackupInv, Numbers
<1>8. HolderFits'
    <2>1. store'[b].deleted
        BY <1>5 DEF BackupInv, StoreFits
    <2> QED
        BY <1>1, <1>2, <2>1 DEF BackupInv, HolderFits
<1>9. CreatingFits' /\ RollbackFits' /\ PutBackSoFar'
    BY <1>1 DEF CreatingFits, RollbackFits, PutBackSoFar, Creating, PutsBack
<1>10. SafetyFits' /\ LatestFits'
    BY <1>1, <1>4, NoRollbackIs DEF SafetyFits, LatestFits
<1> QED
    BY <1>6, <1>7, <1>8, <1>9, <1>10 DEF BackupInv

LEMMA EndDeleteKeeps ==
    ASSUME BackupInv, EndDelete
    PROVE  BackupInv'
<1>1. /\ holder.does = "delete" /\ holder' = Unlocked /\ store' = store /\ latest' = latest
      /\ disk' = disk /\ given' = given /\ fileEdits' = fileEdits /\ deaths' = deaths
    BY DEF EndDelete, NothingElse, BackupInv, HolderFits
<1>2. latest = NoRollback
    BY <1>1 DEF BackupInv, LatestFits
<1>3. Numbers' /\ StoreFits'
    BY <1>1 DEF BackupInv, Numbers, StoreFits
<1>4. HolderFits' /\ CreatingFits' /\ RollbackFits' /\ PutBackSoFar'
    BY <1>1, Rests DEF BackupInv, Numbers
<1>5. SafetyFits' /\ LatestFits'
    BY <1>1, <1>2, NoRollbackIs DEF SafetyFits, LatestFits
<1> QED
    BY <1>3, <1>4, <1>5 DEF BackupInv

LEMMA EditKeeps ==
    ASSUME BackupInv, EditRepositoryFile
    PROVE  BackupInv'
<1>1. PICK p \in BackupPaths, c \in FileStates : disk' = [disk EXCEPT ![p] = c]
    BY DEF EditRepositoryFile
<1>2. /\ fileEdits < MaxBackupEdits /\ fileEdits' = fileEdits + 1
      /\ store' = IF Creating THEN [store EXCEPT ![holder.into].disturbed = TRUE] ELSE store
      /\ latest' = IF holder.does \in {"rollback", "recover"} THEN [latest EXCEPT !.edited = TRUE]
                   ELSE NoRollback
      /\ given' = given /\ holder' = holder /\ deaths' = deaths
    BY DEF EditRepositoryFile
<1>3. Numbers'
    BY <1>1, <1>2, BackupStoreAssumption DEF BackupInv, Numbers
<1>4. \A b \in Ids : /\ DOMAIN store'[b] = DOMAIN store[b]
                     /\ store'[b].manifest = store[b].manifest
                     /\ store'[b].files = store[b].files /\ store'[b].was = store[b].was
                     /\ store'[b].deleted = store[b].deleted
                     /\ ~store'[b].disturbed =>
                           ~store[b].disturbed /\ ~(Creating /\ b = holder.into)
    BY <1>2, CreatingIs DEF BackupInv, StoreFits, StoredTyped
<1>5. \A b \in Ids : store'[b] = store[b] \/ (Creating /\ b = holder.into)
    BY <1>2, CreatingIs DEF BackupInv, StoreFits
<1>6. \A b \in Ids : \A r : RecordIs(store[b], r) => RecordIs(store'[b], r)
    BY <1>4 DEF RecordIs
<1>7. StoreFits'
    <2>1. DOMAIN store' = Ids
        BY <1>2 DEF BackupInv, StoreFits
    <2>2. \A b \in Ids : StoredTyped(store'[b])
        BY <1>4 DEF BackupInv, StoreFits, StoredTyped
    <2>3. \A b \in Ids : StoredFits(store'[b])
        BY <1>4, <1>6 DEF BackupInv, StoreFits, StoredFits
    <2> QED
        BY <2>1, <2>2, <2>3 DEF StoreFits
<1>8. HolderFits'
    <2>1. holder.does = "delete" => holder.from \in Ids
        BY BackupStoreAssumption DEF BackupInv, HolderFits, Numbers, Ids
    <2> QED
        BY <1>2, <1>4, <2>1 DEF BackupInv, HolderFits
<1>9. CreatingFits'
    <2>1. ASSUME Creating PROVE MadeSoFar(store[holder.into])'
        <3>1. PICK b \in Ids : b = holder.into /\ MadeSoFar(store[b])
            BY <2>1, CreatingIs
        <3>2. store'[b].disturbed
            BY <1>4, <2>1, <3>1
        <3>3. PICK s, t : s = store[b] /\ t = store'[b]
            OBVIOUS
        <3>4. t.manifest = s.manifest /\ t.was = s.was /\ t.deleted = s.deleted /\ t.disturbed
            BY <1>4, <3>2, <3>3
        <3>5. \A r : RecordIs(s, r) => RecordIs(t, r)
            BY <1>6, <3>3
        <3>6. MadeSoFar(s)
            BY <3>1, <3>3
        <3>7. /\ t.manifest = <<>> /\ ~t.deleted
              /\ \A r \in RecordsIn(holder.records) : RecordIs(t, r)
              /\ DOMAIN t.was = PathsIn(holder.records) \cup holder.todo
              /\ PathsIn(holder.records) \cap holder.todo = {} /\ DOMAIN t.was # {}
              /\ holder.at = "copy" => holder.hash # NoFile
            BY <3>4, <3>5, <3>6 DEF MadeSoFar
        <3>8. MadeSoFar(t)'
            BY <1>2, <3>4, <3>7 DEF MadeSoFar
        <3> QED
            BY <1>2, <3>1, <3>3, <3>8
    <2> QED
        BY <1>2, <2>1 DEF BackupInv, CreatingFits, Creating
<1>10. CASE holder.does \notin {"rollback", "recover"}
    <2>1. latest' = NoRollback /\ ~PutsBack'
        BY <1>2, <1>10, PuttingIs DEF PutsBack
    <2>2. RollbackFits' /\ PutBackSoFar' /\ SafetyFits' /\ LatestFits'
        BY <1>2, <1>10, <2>1, NoRollbackIs
           DEF RollbackFits, PutBackSoFar, SafetyFits, LatestFits
    <2> QED
        BY <1>3, <1>7, <1>8, <1>9, <2>2 DEF BackupInv
<1>11. CASE holder.does \in {"rollback", "recover"}
    <2>1. /\ DOMAIN latest' = DOMAIN latest /\ latest'.result = latest.result
          /\ latest'.from = latest.from /\ latest'.safety = latest.safety
          /\ latest'.edited /\ latest'.before = latest.before
        <3>1. DOMAIN latest = {"result", "from", "safety", "edited", "before"}
            BY DEF BackupInv, LatestFits
        <3> QED
            BY <1>2, <1>11, <3>1
    <2>2. PICK a \in Ids, b \in Ids : a = latest.from /\ b = holder.from
        BY <1>11, BackupStoreAssumption
           DEF BackupInv, RollbackFits, HolderFits, Numbers, Ids
    <2>3. WholeIn(store'[a]) /\ PathsIn(store'[a].manifest) = PathsIn(store[a].manifest)
        <3>1. a # holder.into /\ WholeIn(store[a])
            BY <1>11, <2>2 DEF BackupInv, RollbackFits
        <3> QED
            BY <1>5, <3>1
    <2>4. PutsBack => /\ WholeIn(store'[b])
                      /\ holder.todo \subseteq PathsIn(store'[b].manifest)
        <3>1. PutsBack => store'[b] = store[b]
            BY <1>5, PuttingIs
        <3> QED
            BY <1>11, <2>2, <3>1 DEF BackupInv, RollbackFits
    <2>5. Creating => DOMAIN store'[holder.into].was = PathsIn(store'[a].manifest)
        BY <1>4, <1>11, <2>2, <2>3, CreatingIs DEF BackupInv, RollbackFits
    <2>6. /\ latest.result = "none" /\ latest.safety = holder.into /\ holder.into # 0
          /\ latest.from # 0 /\ latest.from \in Nat /\ latest.from <= given
          /\ latest.from # holder.into
          /\ holder.from = IF holder.does = "rollback" THEN latest.from ELSE holder.into
        BY <1>11 DEF BackupInv, RollbackFits
    <2>7. (PutsBack' <=> PutsBack) /\ (Creating' <=> Creating)
        BY <1>2 DEF PutsBack, Creating
    <2>8. RollbackFits'
        BY <1>2, <2>1, <2>2, <2>3, <2>4, <2>5, <2>6, <2>7 DEF RollbackFits
    <2>9. PutBackSoFar' /\ SafetyFits'
        BY <2>1 DEF PutBackSoFar, SafetyFits
    <2>10. LatestFits'
        <3>1. latest # NoRollback
            BY <2>6, NoRollbackIs
        <3> QED
            BY <1>2, <1>11, <2>1, <2>6, <3>1 DEF BackupInv, LatestFits
    <2> QED
        BY <1>3, <1>7, <1>8, <1>9, <2>8, <2>9, <2>10 DEF BackupInv
<1> QED
    BY <1>10, <1>11

LEMMA DeathKeeps ==
    ASSUME BackupInv, ProcessDies
    PROVE  BackupInv'
<1>1. /\ holder' = Unlocked /\ disk' = disk /\ store' = store /\ given' = given
      /\ fileEdits' = fileEdits /\ deaths' = deaths + 1 /\ deaths < MaxDeaths
      /\ latest' = IF PutsBack THEN [latest EXCEPT !.result = "died"] ELSE NoRollback
    BY DEF ProcessDies
<1>2. Numbers'
    BY <1>1, BackupStoreAssumption DEF BackupInv, Numbers
<1>3. CASE PutsBack
    BY <1>1, <1>2, <1>3, RollbackEndsKeeps
<1>4. CASE ~PutsBack
    <2>1. StoreFits'
        BY <1>1 DEF BackupInv, StoreFits
    <2>2. HolderFits' /\ CreatingFits' /\ RollbackFits' /\ PutBackSoFar'
        BY <1>1, Rests DEF BackupInv, Numbers
    <2>3. SafetyFits' /\ LatestFits'
        BY <1>1, <1>4, NoRollbackIs DEF SafetyFits, LatestFits
    <2> QED
        BY <1>2, <2>1, <2>2, <2>3 DEF BackupInv
<1> QED
    BY <1>3, <1>4

LEMMA BackupKeeps == BackupInv /\ [BackupNext]_backupVars => BackupInv'
<1> SUFFICES ASSUME BackupInv, [BackupNext]_backupVars PROVE BackupInv'
    OBVIOUS
<1>1. CASE CreateBackup \/ StatFile \/ HashFile \/ CopyFile \/ WriteManifest \/ StartRollback
    BY <1>1, BackupMadeKeeps, StatKeeps, HashKeeps, CopyKeeps, ManifestKeeps, StartRollbackKeeps
<1>2. CASE RestoreFile \/ CheckFile \/ SaveCounted \/ AccessFails
    BY <1>2, RestoreKeeps, CheckKeeps, SaveKeeps, CreateFailsKeeps, RestoreFailsKeeps
       DEF AccessFails
<1>3. CASE BeginDelete \/ DeleteFile \/ EndDelete \/ EditRepositoryFile \/ ProcessDies
    BY <1>3, BeginDeleteKeeps, DeleteKeeps, EndDeleteKeeps, EditKeeps, DeathKeeps
<1>4. CASE UNCHANGED backupVars
    <2>1. /\ disk' = disk /\ store' = store /\ given' = given /\ holder' = holder
          /\ latest' = latest /\ fileEdits' = fileEdits /\ deaths' = deaths
        BY <1>4 DEF backupVars
    <2>2. Numbers' /\ StoreFits' /\ HolderFits' /\ CreatingFits'
        BY <2>1 DEF BackupInv, Numbers, StoreFits, HolderFits, CreatingFits, Creating,
                    MadeSoFar, NextPath
    <2>3. RollbackFits' /\ PutBackSoFar' /\ SafetyFits' /\ LatestFits'
        BY <2>1 DEF BackupInv, RollbackFits, PutBackSoFar, SafetyFits, LatestFits, Creating,
                    PutsBack, DoneSoFar, Waits, NextPath, SavesBefore, EndedWell
    <2> QED
        BY <2>2, <2>3 DEF BackupInv
<1> QED
    BY <1>1, <1>2, <1>3, <1>4 DEF BackupNext

LEMMA BackupsAreKept ==
    ASSUME BackupInv
    PROVE  BackupsAreWhole
<1>1. /\ \A b : /\ AffectedBy(b) = PathsIn(store[b].manifest)
                /\ IntactBackup(b) <=> WholeIn(store[b])
                /\ \A p : RecordOf(b, p) = RecordIn(store[b], p)
    BY Views
<1>2. BackupTypeOK
    <2>1. \A b \in Ids : DOMAIN store[b].files \subseteq BackupPaths
        BY DEF BackupInv, StoreFits, StoredTyped
    <2>2. Creating => holder.into # 0 /\ store[holder.into].manifest = <<>>
        BY CreatingIs DEF MadeSoFar
    <2>3. PutsBack => Readable(holder.from)
        BY PuttingIs DEF WholeIn, Readable
    <2>4. /\ {holder.into, holder.from} \subseteq 0 .. given /\ given \in 0 .. MaxBackups
          /\ holder.todo \subseteq BackupPaths
          /\ holder.at \in {"hash", "copy", "check"} => holder.todo # {}
        BY BackupStoreAssumption DEF BackupInv, HolderFits, Numbers
    <2> QED
        BY <2>1, <2>2, <2>3, <2>4 DEF BackupTypeOK, BackupInv, Numbers
<1>3. ASSUME NEW b \in Ids, Readable(b), ~store[b].deleted
      PROVE  /\ PathsIn(store[b].manifest) = DOMAIN store[b].was
             /\ \A p \in AffectedBy(b) :
                   RecordIs(store[b], RecordOf(b, p)) /\ RecordOf(b, p).path = p
             /\ ~store[b].disturbed =>
                   WholeIn(store[b]) /\ \A p \in AffectedBy(b) :
                       PutBack(store[b], p) = store[b].was[p]
    <2>1. StoredTyped(store[b]) /\ StoredFits(store[b]) /\ store[b].manifest # <<>>
        BY <1>3 DEF BackupInv, StoreFits, Readable
    <2>2. \A p \in AffectedBy(b) :
             RecordOf(b, p) \in RecordsIn(store[b].manifest) /\ RecordOf(b, p).path = p
        BY <1>1, RecordThere
    <2>3. ~store[b].disturbed => WholeIn(store[b]) /\ \A p \in AffectedBy(b) :
              PutBack(store[b], p) = store[b].was[p]
        BY <1>1, <1>3, <2>1, FinishedIsWhole
    <2> QED
        BY <1>3, <2>1, <2>2, <2>3 DEF StoredFits
<1>4. StoredIsHashed
    BY <1>3 DEF StoredIsHashed, RecordIs
<1>5. UndisturbedIsWhole
    BY <1>1, <1>3 DEF UndisturbedIsWhole, PutBack
<1>6. RollbackIsWhole
    <2>1. SUFFICES ASSUME ~latest.edited, latest.result # "none" PROVE RollbackIsWhole
        <3>1. CASE latest.edited
            BY <3>1 DEF RollbackIsWhole
        <3>2. CASE latest.result = "none"
            BY <3>2 DEF RollbackIsWhole
        <3> QED
            BY <3>1, <3>2
    <2>2. PICK s, P : s = store[latest.from] /\ P = AffectedBy(latest.from)
        OBVIOUS
    <2>3. EndedWell(s) /\ P = PathsIn(s.manifest)
        BY <1>1, <2>1, <2>2 DEF BackupInv, LatestFits
    <2>4. PICK f : f = [p \in P |-> IF RecordOf(latest.from, p).existed
                                    THEN store[latest.from].files[p] ELSE NoFile]
        OBVIOUS
    <2>5. \A p \in P : f[p] = PutBack(s, p)
        BY <1>1, <2>2, <2>4 DEF PutBack
    <2>6. /\ latest.result = "restored" =>
                \A p \in BackupPaths : disk[p] = IF p \in P THEN f[p] ELSE latest.before[p]
          /\ latest.result \in {"refused", "recovered"} => disk = latest.before
          /\ latest.result \in {"broken", "died"} =>
                \A p \in BackupPaths :
                    disk[p] \in {latest.before[p]} \cup (IF p \in P THEN {f[p]} ELSE {})
        BY <2>3, <2>5 DEF EndedWell
    <2>7. latest.result \in {"restored", "refused", "recovered", "broken", "died"}
        BY <2>1 DEF BackupInv, LatestFits
    <2>8. CASE latest.result = "restored"
        BY <2>2, <2>4, <2>6, <2>8 DEF RollbackIsWhole
    <2>9. CASE latest.result \in {"refused", "recovered"}
        BY <2>6, <2>9 DEF RollbackIsWhole
    <2>10. CASE latest.result \in {"broken", "died"}
        BY <2>2, <2>4, <2>6, <2>10 DEF RollbackIsWhole
    <2> QED
        BY <2>7, <2>8, <2>9, <2>10
<1>7. BeforeIsSaved
    <2>1. SUFFICES ASSUME latest.safety # 0, ~latest.edited,
                          PutsBack \/ latest.result \in {"restored", "broken", "died"}
                   PROVE  /\ IntactBackup(latest.safety)
                          /\ \A p \in BackupPaths :
                                disk[p] # latest.before[p] =>
                                    /\ p \in AffectedBy(latest.safety)
                                    /\ store[latest.safety].was[p] = latest.before[p]
                                    /\ latest.before[p] # NoFile =>
                                          store[latest.safety].files[p] = latest.before[p]
        BY DEF BeforeIsSaved
    <2>2. PICK e : e = store[latest.safety]
        OBVIOUS
    <2>3. SavesBefore(e) /\ AffectedBy(latest.safety) = PathsIn(e.manifest)
        BY <1>1, <2>1, <2>2 DEF BackupInv, SafetyFits
    <2>4. PICK a, P : a = store[latest.from] /\ P = PathsIn(a.manifest)
        OBVIOUS
    <2>5. \A p \in BackupPaths : disk[p] # latest.before[p] => p \in P
        <3>1. CASE PutsBack
            BY <2>1, <2>4, <3>1, PuttingIs DEF DoneSoFar
        <3>2. CASE ~PutsBack
            <4>1. EndedWell(a)
                BY <2>1, <2>4, <3>2 DEF BackupInv, LatestFits
            <4> QED
                BY <2>1, <2>4, <3>2, <4>1 DEF EndedWell
        <3> QED
            BY <3>1, <3>2
    <2>6. WholeIn(e) /\ PathsIn(e.manifest) = P
        BY <2>3, <2>4 DEF SavesBefore
    <2>7. \A p \in P : /\ e.was[p] = latest.before[p] /\ PutBack(e, p) = latest.before[p]
        BY <2>3, <2>6 DEF SavesBefore
    <2>8. \A p \in P : latest.before[p] # NoFile => e.files[p] = latest.before[p]
        BY <2>7 DEF PutBack
    <2> QED
        BY <1>1, <2>2, <2>3, <2>5, <2>6, <2>7, <2>8
<1> QED
    BY <1>2, <1>4, <1>5, <1>6, <1>7 DEF BackupsAreWhole

\* Whatever paths, contents and sizes there are, and whoever edits or dies when: a
\* backup that can be rolled back has what it says, and a rollback puts back all of
\* it, or what was there before, or leaves that in a backup that is whole.
THEOREM BackupsAreWholeAlways == BackupSpec => []BackupsAreWhole
<1>1. BackupInit => BackupInv
    BY BackupStarts
<1>2. BackupInv /\ [BackupNext]_backupVars => BackupInv'
    BY BackupKeeps
<1>3. BackupInv => BackupsAreWhole
    BY BackupsAreKept
<1> QED
    BY <1>1, <1>2, <1>3, PTL DEF BackupSpec

(* ---------------------------- the directory tree ----------------------- *)

TreePaths == Seq(STRING) \ {Root}
TreeContents == Transactions \cup {Original, None}

\* Files h and directories D are a tree.
IsTree(h, D) ==
    /\ h \in [FilePaths -> TreeContents] /\ D \subseteq TreePaths
    /\ \A p \in FilePaths : h[p] # None => p \notin D /\ Above(p) \subseteq D
    /\ \A d \in D : Above(d) \subseteq D

Committed == {"verify", "parent", "mkdir", "commit", "replace"}
TreeSteps == {"idle", "save", "restore", "sweep", "applied", "rolled_back", "broken"} \cup Committed

\* What a transaction x is by itself.
TransactionTyped(x) ==
    /\ DOMAIN x = {"at", "ops", "n", "saved", "made", "todo", "left", "was"}
    /\ x.at \in TreeSteps /\ x.ops \in Seq(TreeOperation) /\ x.n \in Nat /\ x.n # 0
    /\ NoConflict(x.ops)
    /\ x.at = "idle" => x.ops = <<>>
    /\ x.at \in {"idle", "save"} => x.n = 1 /\ x.made = {} /\ ~x.left
    /\ x.at \in {"parent", "mkdir", "commit", "replace"} => x.n <= Len(x.ops)
    /\ x.at = "replace" => x.ops[x.n].kind = "put"
    /\ x.at = "applied" => x.n > Len(x.ops)
    /\ DOMAIN x.saved = IF x.at \in {"idle", "save"} THEN {} ELSE Touches(x.ops)
    /\ \A p \in DOMAIN x.saved : x.saved[p] \in TreeContents \cup {"dir"}
    /\ x.made \subseteq TreePaths
    /\ x.at = "restore" => x.todo \subseteq Touches(x.ops)
    /\ x.at = "sweep" => x.todo \subseteq x.made
    /\ x.left \in BOOLEAN
    /\ DOMAIN x.was = {"held", "dirs"} /\ IsTree(x.was.held, x.was.dirs)
    /\ \A p \in Touches(x.ops) : p \notin x.was.dirs

TransactionsFit == DOMAIN tx = Transactions /\ \A t \in Transactions : TransactionTyped(tx[t])
TempsFit ==
    /\ temps \subseteq Seq(STRING) \X Transactions
    /\ \A f \in temps : /\ IsDir(f[1]) /\ tx[f[2]].at = "replace"
                        /\ f[1] = Front(Op(f[2]).path)

\* Nobody else has a snapshot of a path on or below those of t, or above them.
ApartFrom(t) ==
    \A u \in Transactions \ {t} :
        \A p \in Touches(tx[t].ops), q \in DOMAIN tx[u].saved :
            p # q /\ ~Below(p, q) /\ ~Below(q, p)

IsDone(t, o) ==
    CASE o.kind = "put" -> held[o.path] = t
      [] o.kind = "delete" -> held[o.path] = None
      [] o.kind = "move" -> held[o.path] = None /\ held[o.to] # None

\* What is true of the paths of t, whose operations are x, if nobody else has them.
Kept(t, x) ==
    /\ x.at = "save" => \A p \in Touches(x.ops) : held[p] = x.was.held[p] /\ p \notin dirs
    /\ x.at \notin {"idle", "save"} => \A p \in Touches(x.ops) : x.saved[p] = x.was.held[p]
    /\ \A p \in Touches(x.ops) :
          x.was.held[p] # None => \A d \in Above(p) \cap FilePaths : held[d] = None
    /\ x.at \in Committed \cup {"applied"} =>
          \A i \in DOMAIN x.ops : i < x.n => IsDone(t, x.ops[i])
    /\ x.at = "restore" => \A p \in Touches(x.ops) \ x.todo : held[p] = x.saved[p]
    /\ x.at \in {"sweep", "rolled_back", "broken"} =>
          \A p \in Touches(x.ops) : held[p] = x.saved[p]

\* What is true of the whole tree if a transaction x is the only one.
Alone(x) ==
    /\ ~x.left
    /\ x.at = "save" => held = x.was.held /\ dirs = x.was.dirs
    /\ x.at \in Committed \cup {"restore"} =>
          /\ \A p \in Touches(x.ops) : x.saved[p] = x.was.held[p]
          /\ \A p \in FilePaths \ Touches(x.ops) : held[p] = x.was.held[p]
          /\ x.was.dirs \subseteq dirs /\ dirs \subseteq x.was.dirs \cup x.made
          /\ x.made \cap x.was.dirs = {}
    /\ x.at = "restore" => \A p \in Touches(x.ops) \ x.todo : held[p] = x.was.held[p]
    /\ x.at = "sweep" =>
          /\ held = x.was.held
          /\ x.was.dirs \subseteq dirs /\ dirs \subseteq x.was.dirs \cup x.todo
          /\ x.todo \cap x.was.dirs = {}
\* The parents of the file to come are there, or will be known for its own.
ParentsKnown(t) ==
    /\ tx[t].at = "mkdir" => Missing(Target(t)) \subseteq tx[t].made
    /\ tx[t].at = "commit" /\ Op(t).kind = "put" => Above(Op(t).path) \subseteq dirs

KeptFits == \A t \in Transactions : ApartFrom(t) => Kept(t, tx[t])
Crossing ==
    /\ \A t, u \in Transactions : t # u /\ Active(t) /\ Active(u) => t \in crossed
    /\ \A t \in Transactions : tx[t].at = "broken" => t \in crossed
AloneFits ==
    \A t \in Transactions : Active(t) /\ t \notin crossed => Alone(tx[t]) /\ ParentsKnown(t)

TreeInv ==
    /\ IsTree(held, dirs) /\ TransactionsFit /\ TempsFit
    /\ KeptFits /\ Crossing /\ AloneFits

LEMMA CutIs ==
    ASSUME NEW p \in Seq(STRING), NEW n \in 0 .. Len(p)
    PROVE  /\ SubSeq(p, 1, n) \in Seq(STRING) /\ Len(SubSeq(p, 1, n)) = n
           /\ \A m \in 0 .. n : SubSeq(SubSeq(p, 1, n), 1, m) = SubSeq(p, 1, m)
<1>1. Len(p) \in Nat /\ \A i \in 1 .. Len(p) : p[i] \in STRING
    BY ElementOfSeq, LenProperties
<1>2. n \in Nat /\ n <= Len(p)
    BY <1>1
<1>3. \A i \in 1 .. n : p[i] \in STRING
    BY <1>1, <1>2
<1>4. SubSeq(p, 1, n) \in Seq(STRING) /\ Len(SubSeq(p, 1, n)) = n
    <2>1. /\ SubSeq(p, 1, n) \in Seq(STRING)
          /\ Len(SubSeq(p, 1, n)) = IF 1 <= n THEN n - 1 + 1 ELSE 0
        BY <1>2, <1>3, SubSeqProperties
    <2> QED
        BY <1>2, <2>1
<1>5. ASSUME NEW m \in 0 .. n PROVE SubSeq(SubSeq(p, 1, n), 1, m) = SubSeq(p, 1, m)
    <2>1. CASE m = 0
        <3>1. SubSeq(SubSeq(p, 1, n), 1, 0) = <<>> /\ SubSeq(p, 1, 0) = <<>>
            BY SubSeqEmpty
        <3> QED
            BY <2>1, <3>1
    <2>2. CASE m # 0
        <3>1. m \in Nat /\ 1 <= m /\ m <= n /\ 1 <= n
            BY <1>2, <1>5, <2>2
        <3>2. 1 \in 1 .. Len(p) /\ n \in 1 .. Len(p) /\ 1 \in 1 .. n - 1 + 1
              /\ m \in 1 .. n - 1 + 1
            BY <1>1, <1>2, <3>1
        <3>3. SubSeq(SubSeq(p, 1, n), 1, m) = SubSeq(p, 1 + 1 - 1, 1 + m - 1)
            BY <3>2, SubSeqOfSubSeq
        <3>4. 1 + 1 - 1 = 1 /\ 1 + m - 1 = m
            BY <3>1
        <3> QED
            BY <3>3, <3>4
    <2> QED
        BY <2>1, <2>2
<1> QED
    BY <1>4, <1>5

LEMMA AboveIs ==
    ASSUME NEW p \in Seq(STRING), NEW d \in Above(p)
    PROVE  /\ d \in TreePaths /\ Len(d) < Len(p) /\ d # p
           /\ Above(d) \subseteq Above(p)
           /\ \E e \in Above(p) \cup {p} : e # Root /\ Front(e) = d /\ Len(e) = Len(d) + 1
<1>1. Len(p) \in Nat
    BY LenProperties
<1>2. PICK n \in 1 .. Len(p) - 1 : d = SubSeq(p, 1, n)
    BY DEF Above
<1>3. n \in Nat /\ 1 <= n /\ n < Len(p) /\ n \in 0 .. Len(p)
    BY <1>1, <1>2
<1>4. /\ d \in Seq(STRING) /\ Len(d) = n
      /\ \A m \in 0 .. n : SubSeq(d, 1, m) = SubSeq(p, 1, m)
    BY <1>2, <1>3, CutIs
<1>5. d # Root
    BY <1>3, <1>4, EmptySeq DEF Root
<1>6. Above(d) \subseteq Above(p)
    <2>1. ASSUME NEW m \in 1 .. Len(d) - 1
          PROVE  SubSeq(d, 1, m) \in Above(p)
        <3>1. m \in 0 .. n /\ m \in 1 .. Len(p) - 1
            BY <1>1, <1>3, <1>4, <2>1
        <3> QED
            BY <1>4, <3>1 DEF Above
    <2> QED
        BY <2>1 DEF Above
<1>7. \E e \in Above(p) \cup {p} : e # Root /\ Front(e) = d /\ Len(e) = Len(d) + 1
    <2>1. PICK e : e = SubSeq(p, 1, n + 1)
        OBVIOUS
    <2>2. n + 1 \in 0 .. Len(p) /\ n \in 0 .. n + 1
        BY <1>1, <1>3
    <2>3. /\ e \in Seq(STRING) /\ Len(e) = n + 1
          /\ SubSeq(e, 1, n) = SubSeq(p, 1, n)
        BY <2>1, <2>2, CutIs
    <2>4. Front(e) = d
        <3>1. Len(e) - 1 = n
            BY <1>3, <2>3
        <3> QED
            BY <1>2, <2>3, <3>1 DEF Front
    <2>5. e \in Above(p) \cup {p}
        <3>1. CASE n + 1 = Len(p)
            BY <2>1, <3>1, SubSeqFull
        <3>2. CASE n + 1 # Len(p)
            <4>1. n + 1 \in 1 .. Len(p) - 1
                BY <1>1, <1>3, <3>2
            <4> QED
                BY <2>1, <4>1 DEF Above
        <3> QED
            BY <3>1, <3>2
    <2>6. e # Root
        <3>1. Len(e) # 0
            BY <1>3, <2>3
        <3> QED
            BY <2>3, <3>1, EmptySeq DEF Root
    <2> QED
        BY <1>4, <2>3, <2>4, <2>5, <2>6
<1>8. d # p
    BY <1>3, <1>4
<1> QED
    BY <1>3, <1>4, <1>5, <1>6, <1>7, <1>8 DEF TreePaths

LEMMA FrontIs ==
    ASSUME NEW p \in TreePaths
    PROVE  /\ Front(p) \in Seq(STRING) /\ Len(Front(p)) < Len(p)
           /\ Above(p) = (Above(Front(p)) \cup {Front(p)}) \ {Root}
<1>1. p \in Seq(STRING) /\ Len(p) \in Nat /\ Len(p) # 0
    BY LenProperties, EmptySeq DEF TreePaths, Root
<1>2. PICK k : k = Len(p) - 1
    OBVIOUS
<1>3. k \in Nat /\ k \in 0 .. Len(p)
    BY <1>1, <1>2
<1>4. PICK f : f = SubSeq(p, 1, k)
    OBVIOUS
<1>5. /\ f \in Seq(STRING) /\ Len(f) = k
      /\ \A m \in 0 .. k : SubSeq(f, 1, m) = SubSeq(p, 1, m)
    BY <1>1, <1>3, <1>4, CutIs
<1>6. f = Front(p)
    BY <1>2, <1>4 DEF Front
<1>7. Above(p) \subseteq (Above(f) \cup {f}) \ {Root}
    <2>1. ASSUME NEW n \in 1 .. k PROVE SubSeq(p, 1, n) \in (Above(f) \cup {f}) \ {Root}
        <3>1. n \in Nat /\ 1 <= n /\ n <= k /\ n \in 0 .. k /\ n \in 0 .. Len(p)
            BY <1>2, <1>3, <1>1, <2>1
        <3>2. SubSeq(p, 1, n) \in Seq(STRING) /\ Len(SubSeq(p, 1, n)) = n
            BY <1>1, <3>1, CutIs
        <3>3. SubSeq(p, 1, n) # Root
            BY <3>1, <3>2, EmptySeq DEF Root
        <3>4. CASE n = k
            BY <1>4, <3>3, <3>4
        <3>5. CASE n # k
            <4>1. n \in 1 .. Len(f) - 1
                BY <1>3, <1>5, <3>1, <3>5
            <4>2. SubSeq(p, 1, n) = SubSeq(f, 1, n)
                BY <1>5, <3>1
            <4> QED
                BY <3>3, <4>1, <4>2 DEF Above
        <3> QED
            BY <3>4, <3>5
    <2> QED
        BY <1>2, <2>1 DEF Above
<1>8. (Above(f) \cup {f}) \ {Root} \subseteq Above(p)
    <2>1. ASSUME NEW n \in 1 .. Len(f) - 1 PROVE SubSeq(f, 1, n) \in Above(p)
        <3>1. n \in 0 .. k /\ n \in 1 .. Len(p) - 1
            BY <1>2, <1>3, <1>5, <2>1
        <3> QED
            BY <1>5, <3>1 DEF Above
    <2>2. ASSUME f # Root PROVE f \in Above(p)
        <3>1. k # 0
            BY <1>5, <2>2, EmptySeq DEF Root
        <3>2. k \in 1 .. Len(p) - 1
            BY <1>2, <1>3, <3>1
        <3> QED
            BY <1>4, <3>2 DEF Above
    <2> QED
        BY <2>1, <2>2 DEF Above
<1> QED
    BY <1>1, <1>2, <1>5, <1>6, <1>7, <1>8

LEMMA FilePathsAre == FilePaths \subseteq TreePaths /\ \A p \in FilePaths : p \in Seq(STRING)
BY PatchDirectoriesAssumption DEF TreePaths

(* What can be done to a tree and leaves one.                                    *)
LEMMA TreeGrows ==
    ASSUME NEW h, NEW D, IsTree(h, D), NEW p \in FilePaths,
           \A d \in Above(p) \cap FilePaths : h[d] = None
    PROVE  IsTree(h, D \cup Above(p))
<1>1. \A d \in Above(p) : d \in TreePaths /\ Above(d) \subseteq Above(p)
    BY AboveIs, FilePathsAre
<1> QED
    BY <1>1 DEF IsTree

LEMMA TreeFilled ==
    ASSUME NEW h, NEW D, IsTree(h, D), NEW p \in FilePaths, NEW c \in TreeContents,
           p \notin D, Above(p) \subseteq D
    PROVE  IsTree([h EXCEPT ![p] = c], D)
BY DEF IsTree

LEMMA TreeCleared ==
    ASSUME NEW h, NEW D, IsTree(h, D), NEW g \in [FilePaths -> TreeContents],
           \A p \in FilePaths : g[p] \in {None, h[p]}
    PROVE  IsTree(g, D)
BY DEF IsTree

LEMMA TreeCut ==
    ASSUME NEW h, NEW D, IsTree(h, D), NEW p \in FilePaths, NEW g,
           g = [q \in FilePaths |-> IF q = p \/ Below(p, q) THEN None ELSE h[q]]
    PROVE  IsTree(g, {e \in D : e # p /\ ~Below(p, e)})
<1> DEFINE E == {e \in D : e # p /\ ~Below(p, e)}
<1>1. g \in [FilePaths -> TreeContents]
    BY DEF IsTree, TreeContents
<1>2. E \subseteq TreePaths
    BY DEF IsTree
<1>3. ASSUME NEW q \in Seq(STRING), Above(q) \subseteq D, ~Below(p, q), NEW e \in Above(q)
      PROVE  e \in E
    <2>1. e \in D /\ Above(e) \subseteq Above(q)
        BY <1>3, AboveIs
    <2>2. e # p /\ p \notin Above(e)
        BY <1>3, <2>1 DEF Below
    <2> QED
        BY <2>1, <2>2 DEF Below
<1>4. ASSUME NEW q \in FilePaths, g[q] # None PROVE q \notin E /\ Above(q) \subseteq E
    <2>1. ~Below(p, q) /\ h[q] # None
        BY <1>4
    <2>2. q \notin D /\ Above(q) \subseteq D /\ q \in Seq(STRING)
        BY <2>1, FilePathsAre DEF IsTree
    <2> QED
        BY <1>3, <2>1, <2>2
<1>5. ASSUME NEW e \in E PROVE Above(e) \subseteq E
    <2>1. e \in Seq(STRING) /\ Above(e) \subseteq D /\ ~Below(p, e)
        BY <1>5 DEF IsTree, TreePaths
    <2> QED
        BY <1>3, <2>1
<1> QED
    BY <1>1, <1>2, <1>4, <1>5 DEF IsTree

LEMMA TreePut ==
    ASSUME NEW h, NEW D, IsTree(h, D), NEW p \in FilePaths, NEW c \in TreeContents, NEW g,
           \A d \in Above(p) \cap FilePaths : h[d] = None,
           g = [q \in FilePaths |-> IF q = p THEN c ELSE IF Below(p, q) THEN None ELSE h[q]]
    PROVE  IsTree(g, {e \in D : e # p /\ ~Below(p, e)} \cup Above(p))
<1> DEFINE E == {e \in D : e # p /\ ~Below(p, e)}
<1>1. PICK k : k = [q \in FilePaths |-> IF q = p \/ Below(p, q) THEN None ELSE h[q]]
    OBVIOUS
<1>2. IsTree(k, E)
    BY <1>1, TreeCut
<1>3. \A d \in Above(p) \cap FilePaths : k[d] = None
    BY <1>1
<1>4. IsTree(k, E \cup Above(p))
    <2> HIDE DEF E
    <2> QED
        BY <1>2, <1>3, TreeGrows
<1>5. p \notin E \cup Above(p)
    BY AboveIs, FilePathsAre
<1>6. IsTree([k EXCEPT ![p] = c], E \cup Above(p))
    <2> HIDE DEF E
    <2> QED
        BY <1>4, <1>5, TreeFilled
<1>7. g = [k EXCEPT ![p] = c]
    BY <1>1
<1> QED
    BY <1>6, <1>7

LEMMA TreeWithDirectory ==
    ASSUME NEW h, NEW D, IsTree(h, D), NEW p \in FilePaths, h[p] = None,
           \A d \in Above(p) \cap FilePaths : h[d] = None
    PROVE  IsTree(h, D \cup Above(p) \cup {p})
<1>1. IsTree(h, D \cup Above(p))
    BY TreeGrows
<1>2. p \in TreePaths
    BY FilePathsAre
<1> QED
    BY <1>1, <1>2 DEF IsTree

LEMMA TreeSwept ==
    ASSUME NEW h, NEW D, IsTree(h, D), NEW d,
           \A p \in FilePaths : h[p] # None => Front(p) # d,
           \A e \in D : Front(e) # d
    PROVE  IsTree(h, D \ {d})
<1>1. ASSUME NEW p \in Seq(STRING), Above(p) \subseteq D, Front(p) # d
      PROVE  Above(p) \subseteq D \ {d}
    <2>1. SUFFICES ASSUME d \in Above(p) PROVE FALSE
        BY <1>1
    <2>2. PICK e \in Above(p) \cup {p} : Front(e) = d
        BY <2>1, AboveIs
    <2> QED
        BY <1>1, <2>2
<1>2. ASSUME NEW p \in FilePaths, h[p] # None PROVE p \notin D \ {d} /\ Above(p) \subseteq D \ {d}
    <2>1. p \notin D /\ Above(p) \subseteq D /\ p \in Seq(STRING) /\ Front(p) # d
        BY <1>2, FilePathsAre DEF IsTree
    <2> QED
        BY <1>1, <2>1
<1>3. ASSUME NEW e \in D \ {d} PROVE Above(e) \subseteq D \ {d}
    <2>1. Above(e) \subseteq D /\ e \in Seq(STRING) /\ Front(e) # d
        BY DEF IsTree, TreePaths
    <2> QED
        BY <1>1, <2>1
<1> QED
    BY <1>2, <1>3 DEF IsTree

LEMMA TouchesAre ==
    ASSUME NEW ops \in Seq(TreeOperation)
    PROVE  /\ Touches(ops) \subseteq FilePaths
           /\ \A i \in DOMAIN ops :
                 /\ ops[i] \in TreeOperation /\ ops[i].path \in Touches(ops)
                 /\ ops[i].kind = "move" => ops[i].to \in Touches(ops)
<1>1. \A i \in DOMAIN ops : ops[i] \in TreeOperation
    BY ElementOfSeq, LenProperties
<1>2. \A i \in DOMAIN ops : /\ ops[i].path \in FilePaths /\ ops[i].to \in FilePaths
                            /\ Claims(ops[i]) \subseteq FilePaths
                            /\ ops[i].path \in Claims(ops[i])
                            /\ ops[i].kind = "move" => ops[i].to \in Claims(ops[i])
    BY <1>1 DEF TreeOperation, Claims
<1> QED
    BY <1>1, <1>2 DEF Touches

LEMMA TreeStarts == TreeInit => TreeInv
<1> SUFFICES ASSUME TreeInit PROVE TreeInv
    OBVIOUS
<1>1. /\ held = [p \in FilePaths |-> IF p \in OriginalFiles THEN Original ELSE None]
      /\ dirs = UNION {Above(p) : p \in OriginalFiles} /\ temps = {} /\ crossed = {}
      /\ tx = [t \in Transactions |->
                [at |-> "idle", ops |-> <<>>, n |-> 1, saved |-> [p \in {} |-> None],
                 made |-> {}, todo |-> {}, left |-> FALSE,
                 was |-> [held |-> held, dirs |-> dirs]]]
    BY DEF TreeInit
<1>2. IsTree(held, dirs)
    <2>1. held \in [FilePaths -> TreeContents]
        BY <1>1 DEF TreeContents
    <2>2. \A p \in OriginalFiles : p \in FilePaths /\ p \in Seq(STRING)
        BY FilePathsAre, PatchDirectoriesAssumption
    <2>3. dirs \subseteq TreePaths /\ \A d \in dirs : Above(d) \subseteq dirs
        BY <1>1, <2>2, AboveIs
    <2>4. ASSUME NEW p \in FilePaths, held[p] # None PROVE p \notin dirs /\ Above(p) \subseteq dirs
        <3>1. p \in OriginalFiles
            BY <1>1, <2>4
        <3>2. \A q \in OriginalFiles : p \notin Above(q)
            BY <3>1, PatchDirectoriesAssumption
        <3> QED
            BY <1>1, <3>1, <3>2
    <2> QED
        BY <2>1, <2>3, <2>4 DEF IsTree
<1>3. ASSUME NEW t \in Transactions
      PROVE  /\ TransactionTyped(tx[t]) /\ tx[t].at = "idle" /\ Kept(t, tx[t])
    <2>1. PICK x : x = tx[t]
        OBVIOUS
    <2>2. /\ DOMAIN x = {"at", "ops", "n", "saved", "made", "todo", "left", "was"}
          /\ x.at = "idle" /\ x.ops = <<>> /\ x.n = 1 /\ DOMAIN x.saved = {} /\ x.made = {}
          /\ x.todo = {} /\ x.left = FALSE /\ DOMAIN x.was = {"held", "dirs"}
          /\ x.was.held = held /\ x.was.dirs = dirs
        BY <1>1, <2>1
    <2>3. x.ops \in Seq(TreeOperation) /\ DOMAIN x.ops = {} /\ Len(x.ops) = 0
        BY <2>2, EmptySeq
    <2>4. Touches(x.ops) = {} /\ NoConflict(x.ops)
        BY <2>3 DEF Touches, NoConflict
    <2>5. TransactionTyped(x)
        <3>1. IsTree(x.was.held, x.was.dirs)
            BY <1>2, <2>2
        <3>2. x.left \in BOOLEAN
            BY <2>2
        <3>3. x.at \in TreeSteps /\ x.n \in Nat /\ x.n # 0
            BY <2>2 DEF TreeSteps
        <3> QED
            BY <2>2, <2>3, <2>4, <3>1, <3>2, <3>3 DEF TransactionTyped
    <2>6. Kept(t, x)
        BY <2>2, <2>4 DEF Kept, Committed
    <2> QED
        BY <2>1, <2>2, <2>5, <2>6
<1>4. TransactionsFit
    BY <1>1, <1>3 DEF TransactionsFit
<1>5. TempsFit /\ KeptFits
    BY <1>1, <1>3 DEF TempsFit, KeptFits
<1>6. Crossing /\ AloneFits
    BY <1>3 DEF Crossing, AloneFits, Active
<1> QED
    BY <1>2, <1>4, <1>5, <1>6 DEF TreeInv

(* A step of u moves u alone, and touches only what u has snapshots of, what is   *)
(* below it, and directories above it.                                           *)
OnlyMoves(u) ==
    DOMAIN tx' = Transactions /\ \A t \in Transactions \ {u} : tx'[t] = tx[t]
Spares(u) ==
    /\ \A p \in FilePaths :
          held'[p] # held[p] => \E q \in DOMAIN tx[u].saved : p = q \/ Below(q, p)
    /\ \A p \in FilePaths :
          held'[p] # None /\ held[p] = None => p \in DOMAIN tx[u].saved
    /\ \A d \in dirs' : d \in dirs \/ \E q \in DOMAIN tx[u].saved : d = q \/ Below(d, q)
    /\ DOMAIN tx[u].saved \subseteq DOMAIN tx'[u].saved

LEMMA OthersKeptInTree ==
    ASSUME TreeInv, NEW u \in Transactions, OnlyMoves(u), Spares(u),
           NEW t \in Transactions \ {u}, ApartFrom(t)'
    PROVE  Kept(t, tx[t])'
<1>1. PICK x : x = tx[t]
    OBVIOUS
<1>2. tx'[t] = x /\ x = tx[t] /\ TransactionTyped(x)
    BY <1>1 DEF TreeInv, TransactionsFit, OnlyMoves
<1>3. \A v \in Transactions \ {t} : DOMAIN tx[v].saved \subseteq DOMAIN tx'[v].saved
    BY DEF OnlyMoves, Spares
<1>4. ApartFrom(t)
    BY <1>2, <1>3 DEF ApartFrom, Below
<1>5. Kept(t, x)
    BY <1>2, <1>4 DEF TreeInv, KeptFits
<1>6. \A p \in Touches(x.ops), q \in DOMAIN tx[u].saved :
          p # q /\ ~Below(p, q) /\ ~Below(q, p)
    BY <1>2, <1>4 DEF ApartFrom
<1>7. Touches(x.ops) \subseteq FilePaths /\ x.ops \in Seq(TreeOperation)
    BY <1>2, TouchesAre DEF TransactionTyped
<1>8. \A p \in Touches(x.ops) : held'[p] = held[p]
    BY <1>6, <1>7 DEF Spares
<1>9. \A p \in Touches(x.ops) : p \notin dirs => p \notin dirs'
    BY <1>6, <1>7 DEF Spares
<1>10. \A p \in Touches(x.ops) : \A d \in Above(p) \cap FilePaths :
           held[d] = None => held'[d] = None
    BY <1>6 DEF Spares, Below
<1>11. \A i \in DOMAIN x.ops : IsDone(t, x.ops[i]) => IsDone(t, x.ops[i])'
    <2>1. ASSUME NEW i \in DOMAIN x.ops, IsDone(t, x.ops[i]) PROVE IsDone(t, x.ops[i])'
        <3>1. PICK o : o = x.ops[i]
            OBVIOUS
        <3>2. /\ o \in TreeOperation /\ o.path \in Touches(x.ops)
              /\ o.kind = "move" => o.to \in Touches(x.ops)
            BY <1>7, <3>1, TouchesAre
        <3>3. o.kind \in {"put", "delete", "move"}
            BY <3>2 DEF TreeOperation
        <3>4. IsDone(t, o) => IsDone(t, o)'
            BY <1>8, <3>2, <3>3 DEF IsDone
        <3> QED
            BY <2>1, <3>1, <3>4
    <2> QED
        BY <2>1
<1>12. Kept(t, x)'
    BY <1>5, <1>8, <1>9, <1>10, <1>11 DEF Kept
<1> QED
    BY <1>2, <1>12

LEMMA StepKeeps ==
    ASSUME TreeInv, NEW u \in Transactions, OnlyMoves(u), Spares(u), Active(u),
           crossed' = crossed, IsTree(held, dirs)', TransactionTyped(tx'[u]), TempsFit',
           ApartFrom(u)' => Kept(u, tx[u])',
           Active(u)' /\ u \notin crossed => Alone(tx[u])' /\ ParentsKnown(u)',
           tx'[u].at = "broken" => u \in crossed
    PROVE  TreeInv'
<1>1. \A t \in Transactions \ {u} : tx'[t] = tx[t] /\ (Active(t)' <=> Active(t))
    BY DEF OnlyMoves, Active
<1>2. TransactionsFit'
    BY <1>1 DEF TransactionsFit, TreeInv, OnlyMoves
<1>3. KeptFits'
    BY OthersKeptInTree DEF KeptFits
<1>4. Crossing'
    BY <1>1 DEF Crossing, TreeInv
<1>5. AloneFits'
    BY <1>1 DEF AloneFits, Crossing, TreeInv
<1> QED
    BY <1>2, <1>3, <1>4, <1>5 DEF TreeInv

LEMMA TempsLeft ==
    ASSUME TreeInv, NEW u \in Transactions, OnlyMoves(u), temps' \subseteq temps,
           \A f \in temps' : f[2] # u /\ (f[1] \in dirs => f[1] \in dirs')
    PROVE  TempsFit'
<1>1. TempsFit
    BY DEF TreeInv
<1>2. temps' \subseteq Seq(STRING) \X Transactions
    BY <1>1 DEF TempsFit
<1>3. ASSUME NEW f \in temps'
      PROVE  /\ IsDir(f[1])' /\ tx'[f[2]].at = "replace" /\ f[1] = Front(Op(f[2]).path)'
    <2>1. /\ f \in temps /\ f[2] \in Transactions \ {u}
          /\ IsDir(f[1]) /\ tx[f[2]].at = "replace" /\ f[1] = Front(Op(f[2]).path)
        BY <1>1, <1>3 DEF TempsFit
    <2>2. tx'[f[2]] = tx[f[2]] /\ Op(f[2])' = Op(f[2])
        BY <2>1 DEF OnlyMoves, Op
    <2> QED
        BY <1>3, <2>1, <2>2 DEF IsDir
<1> QED
    BY <1>2, <1>3 DEF TempsFit

LEMMA NoTempOf ==
    ASSUME TreeInv, NEW u \in Transactions, tx[u].at # "replace"
    PROVE  \A f \in temps : f[2] # u
BY DEF TreeInv, TempsFit

LEMMA OpIs ==
    ASSUME TreeInv, NEW u \in Transactions, tx[u].n <= Len(tx[u].ops)
    PROVE  /\ tx[u].n \in DOMAIN tx[u].ops
           /\ Op(u) \in TreeOperation /\ Op(u).path \in FilePaths /\ Target(u) \in FilePaths
           /\ Op(u).path \in Touches(tx[u].ops) /\ Target(u) \in Touches(tx[u].ops)
           /\ Op(u).kind = "move" => Op(u).to \in Touches(tx[u].ops) /\ Op(u).to # Op(u).path
           /\ \A i \in DOMAIN tx[u].ops \ {tx[u].n} :
                 Claims(tx[u].ops[i]) \cap Claims(Op(u)) = {}
<1>1. PICK x : x = tx[u]
    OBVIOUS
<1>2. TransactionTyped(x)
    BY <1>1 DEF TreeInv, TransactionsFit
<1>3. x.ops \in Seq(TreeOperation) /\ x.n \in DOMAIN x.ops
    <2>1. x.ops \in Seq(TreeOperation) /\ x.n \in Nat /\ x.n # 0
        BY <1>2 DEF TransactionTyped
    <2> QED
        BY <1>1, <2>1, LenProperties
<1>4. PICK o : o = x.ops[x.n]
    OBVIOUS
<1>5. /\ o \in TreeOperation /\ o.path \in Touches(x.ops)
      /\ o.kind = "move" => o.to \in Touches(x.ops)
      /\ Touches(x.ops) \subseteq FilePaths
    BY <1>3, <1>4, TouchesAre
<1>6. /\ o.kind = "move" => o.to # o.path
      /\ \A i \in DOMAIN x.ops \ {x.n} : Claims(x.ops[i]) \cap Claims(o) = {}
    BY <1>2, <1>3, <1>4 DEF TransactionTyped, NoConflict
<1>7. Op(u) = o /\ Target(u) = IF o.kind = "move" THEN o.to ELSE o.path
    BY <1>1, <1>4 DEF Op, Target
<1> QED
    BY <1>1, <1>3, <1>5, <1>6, <1>7

LEMMA TransactionBegins ==
    ASSUME TreeInv, NEW u \in Transactions, BeginTransaction(u)
    PROVE  TreeInv'
<1>1. PICK ops \in RequestsOf[u] :
         /\ NoConflict(ops) /\ \A i \in DOMAIN ops : Preparable(ops[i])
         /\ tx' = [tx EXCEPT ![u].at = "save", ![u].ops = ops,
                             ![u].was = [held |-> held, dirs |-> dirs]]
    BY DEF BeginTransaction
<1>2. /\ tx[u].at = "idle" /\ held' = held /\ dirs' = dirs /\ temps' = temps
      /\ crossed' = IF \E v \in Transactions : Active(v)
                    THEN crossed \cup {u} \cup {v \in Transactions : Active(v)}
                    ELSE crossed
    BY DEF BeginTransaction
<1>3. PICK x, y : x = tx[u] /\ y = tx'[u]
    OBVIOUS
<1>4. /\ TransactionTyped(x) /\ DOMAIN tx = Transactions
      /\ DOMAIN x = {"at", "ops", "n", "saved", "made", "todo", "left", "was"}
    BY <1>3 DEF TreeInv, TransactionsFit, TransactionTyped
<1>5. /\ DOMAIN y = DOMAIN x /\ y.at = "save" /\ y.ops = ops /\ y.n = x.n
      /\ y.saved = x.saved /\ y.made = x.made /\ y.left = x.left /\ y.todo = x.todo
      /\ y.was = [held |-> held, dirs |-> dirs]
    BY <1>1, <1>3, <1>4
<1>6. DOMAIN y.was = {"held", "dirs"} /\ y.was.held = held /\ y.was.dirs = dirs
    BY <1>5
<1>7. OnlyMoves(u)
    BY <1>1, <1>4 DEF OnlyMoves
<1>8. Spares(u)
    BY <1>2, <1>3, <1>5 DEF Spares
<1>9. ops \in Seq(TreeOperation)
    BY <1>1, PatchDirectoriesAssumption
<1>10. \A p \in Touches(ops) : p \in FilePaths /\ p \notin dirs
    <2>1. \A i \in DOMAIN ops : \A p \in Claims(ops[i]) : p \notin dirs
        BY <1>1 DEF Preparable, Claims
    <2> QED
        BY <1>9, <2>1, TouchesAre DEF Touches
<1>11. TransactionTyped(y)
    <2>1. IsTree(y.was.held, y.was.dirs)
        BY <1>6 DEF TreeInv
    <2>2. x.at = "idle"
        BY <1>2, <1>3
    <2>3. x.n = 1 /\ x.made = {} /\ DOMAIN x.saved = {} /\ x.left \in BOOLEAN
        BY <1>4, <2>2 DEF TransactionTyped
    <2>4. y.at \in TreeSteps
        BY <1>5 DEF TreeSteps
    <2>5. y.left \in BOOLEAN /\ ~y.left
        <3>1. ~x.left
            BY <1>4, <2>2 DEF TransactionTyped
        <3> QED
            BY <1>5, <2>3, <3>1
    <2>6. NoConflict(y.ops)
        BY <1>1, <1>5
    <2>7. /\ y.ops \in Seq(TreeOperation) /\ y.n = 1 /\ y.made = {} /\ DOMAIN y.saved = {}
          /\ \A p \in Touches(y.ops) : p \notin y.was.dirs
        BY <1>5, <1>6, <1>9, <1>10, <2>3
    <2> QED
        BY <1>4, <1>5, <1>6, <2>1, <2>4, <2>5, <2>6, <2>7 DEF TransactionTyped
<1>12. Kept(u, y)'
    <2>1. \A p \in Touches(ops) : held[p] # None =>
              \A d \in Above(p) \cap FilePaths : held[d] = None
        BY <1>10 DEF TreeInv, IsTree
    <2> QED
        BY <1>2, <1>5, <1>6, <1>10, <2>1 DEF Kept, Committed
<1>13. \A t \in Transactions \ {u} : tx'[t] = tx[t] /\ (Active(t)' <=> Active(t))
    BY <1>7 DEF OnlyMoves, Active
<1>14. TransactionsFit'
    BY <1>3, <1>7, <1>11, <1>13 DEF TransactionsFit, TreeInv, OnlyMoves
<1>15. TempsFit'
    BY <1>2, <1>7, NoTempOf, TempsLeft
<1>16. KeptFits'
    BY <1>3, <1>7, <1>8, <1>12, OthersKeptInTree DEF KeptFits
<1>17. Crossing'
    <2>1. crossed \subseteq crossed'
        BY <1>2
    <2>2. ASSUME NEW t \in Transactions, NEW v \in Transactions, t # v, Active(t)', Active(v)'
          PROVE  t \in crossed'
        <3>1. CASE t = u
            BY <1>2, <1>13, <2>2, <3>1
        <3>2. CASE v = u
            BY <1>2, <1>13, <2>2, <3>2
        <3>3. CASE t # u /\ v # u
            BY <1>13, <2>1, <2>2, <3>3 DEF TreeInv, Crossing
        <3> QED
            BY <3>1, <3>2, <3>3
    <2>3. tx'[u].at # "broken"
        BY <1>3, <1>5
    <2> QED
        BY <1>13, <2>1, <2>2, <2>3 DEF TreeInv, Crossing
<1>18. AloneFits'
    <2>1. ASSUME NEW t \in Transactions \ {u}, Active(t)' PROVE t \in crossed'
        BY <1>2, <1>13, <2>1
    <2>2. ASSUME u \notin crossed' PROVE Alone(y)' /\ ParentsKnown(u)'
        <3>1. ~x.left
            <4>1. x.at = "idle"
                BY <1>2, <1>3
            <4> QED
                BY <1>4, <4>1 DEF TransactionTyped
        <3>2. Alone(y)'
            BY <1>2, <1>5, <1>6, <3>1 DEF Alone, Committed
        <3> QED
            BY <1>3, <1>5, <3>2 DEF ParentsKnown
    <2> QED
        BY <1>3, <2>1, <2>2 DEF AloneFits
<1>19. IsTree(held, dirs)'
    BY <1>2 DEF TreeInv
<1> QED
    BY <1>14, <1>15, <1>16, <1>17, <1>18, <1>19 DEF TreeInv

LEMMA TreeSaved ==
    ASSUME TreeInv, NEW u \in Transactions, Save(u)
    PROVE  TreeInv'
<1>1. /\ tx[u].at = "save" /\ held' = held /\ dirs' = dirs /\ temps' = temps
      /\ crossed' = crossed
      /\ tx' = [tx EXCEPT ![u].at = "verify",
                          ![u].saved = [p \in Touches(tx[u].ops) |->
                                          IF p \in dirs THEN "dir" ELSE held[p]]]
    BY DEF Save
<1>2. PICK x, y : x = tx[u] /\ y = tx'[u]
    OBVIOUS
<1>3. /\ TransactionTyped(x) /\ DOMAIN tx = Transactions
      /\ DOMAIN x = {"at", "ops", "n", "saved", "made", "todo", "left", "was"}
    BY <1>2 DEF TreeInv, TransactionsFit, TransactionTyped
<1>4. /\ DOMAIN y = DOMAIN x /\ y.at = "verify" /\ y.ops = x.ops /\ y.n = x.n
      /\ y.saved = [p \in Touches(x.ops) |-> IF p \in dirs THEN "dir" ELSE held[p]]
      /\ y.made = x.made /\ y.left = x.left /\ y.todo = x.todo /\ y.was = x.was
    BY <1>1, <1>2, <1>3
<1>5. OnlyMoves(u)
    BY <1>1, <1>3 DEF OnlyMoves
<1>6. x.n = 1 /\ x.made = {} /\ x.ops \in Seq(TreeOperation) /\ DOMAIN x.saved = {}
    BY <1>1, <1>2, <1>3 DEF TransactionTyped
<1>7. Spares(u)
    BY <1>1, <1>2, <1>6 DEF Spares
<1>8. TransactionTyped(y)
    <2>1. \A p \in Touches(x.ops) : held[p] \in TreeContents
        BY <1>6, TouchesAre DEF TreeInv, IsTree
    <2>2. \A p \in DOMAIN y.saved : y.saved[p] \in TreeContents \cup {"dir"}
        BY <1>4, <2>1
    <2>3. y.left \in BOOLEAN
        BY <1>3, <1>4 DEF TransactionTyped
    <2>4. y.at \in TreeSteps
        BY <1>4 DEF TreeSteps, Committed
    <2> QED
        BY <1>3, <1>4, <2>2, <2>3, <2>4 DEF TransactionTyped
<1>9. TempsFit'
    <2>1. \A f \in temps : f[2] # u
        BY <1>1, NoTempOf
    <2> QED
        BY <1>1, <1>5, <2>1, TempsLeft
<1>10. ASSUME ApartFrom(u)' PROVE Kept(u, y)'
    <2>1. ApartFrom(u)
        BY <1>2, <1>4, <1>5, <1>10 DEF ApartFrom, OnlyMoves, Below
    <2>2. Kept(u, x)
        BY <1>2, <2>1 DEF TreeInv, KeptFits
    <2>3. \A p \in Touches(x.ops) : y.saved[p] = x.was.held[p]
        BY <1>1, <1>2, <1>4, <2>2 DEF Kept
    <2>4. \A i \in DOMAIN x.ops : ~(i < 1)
        BY <1>6, LenProperties
    <2> QED
        BY <1>1, <1>4, <1>6, <2>2, <2>3, <2>4 DEF Kept, Committed
<1>11. ASSUME u \notin crossed PROVE Alone(y)' /\ ParentsKnown(u)'
    <2>1. Alone(x)
        BY <1>1, <1>2, <1>11 DEF TreeInv, AloneFits, Active
    <2>2. ~y.left
        <3>1. ~x.left
            BY <2>1 DEF Alone
        <3> QED
            BY <1>4, <3>1
    <2>3. held = x.was.held /\ dirs = x.was.dirs
        BY <1>1, <1>2, <2>1 DEF Alone
    <2>4. \A p \in Touches(x.ops) : p \notin dirs
        BY <1>3, <2>3 DEF TransactionTyped
    <2>5. Alone(y)'
        BY <1>1, <1>4, <1>6, <2>2, <2>3, <2>4 DEF Alone, Committed
    <2> QED
        BY <1>2, <1>4, <2>5 DEF ParentsKnown
<1>12. IsTree(held, dirs)'
    BY <1>1 DEF TreeInv
<1>13. Active(u)
    BY <1>1 DEF Active
<1> QED
    BY <1>1, <1>2, <1>4, <1>5, <1>7, <1>8, <1>9, <1>10, <1>11, <1>12, <1>13, StepKeeps

LEMMA FailKeeps ==
    ASSUME TreeInv, NEW u \in Transactions, tx[u].at \in Committed, Fail(u)
    PROVE  TreeInv'
<1>1. /\ held' = held /\ dirs' = dirs /\ crossed' = crossed
      /\ temps' = {f \in temps : f[2] # u}
      /\ tx' = [tx EXCEPT ![u].at = "restore", ![u].todo = DOMAIN tx[u].saved]
    BY DEF Fail
<1>2. PICK x, y : x = tx[u] /\ y = tx'[u]
    OBVIOUS
<1>3. /\ TransactionTyped(x) /\ DOMAIN tx = Transactions
      /\ DOMAIN x = {"at", "ops", "n", "saved", "made", "todo", "left", "was"}
    BY <1>2 DEF TreeInv, TransactionsFit, TransactionTyped
<1>4. /\ DOMAIN y = DOMAIN x /\ y.at = "restore" /\ y.ops = x.ops /\ y.n = x.n
      /\ y.saved = x.saved /\ y.todo = DOMAIN x.saved
      /\ y.made = x.made /\ y.left = x.left /\ y.was = x.was
    BY <1>1, <1>2, <1>3
<1>5. OnlyMoves(u)
    BY <1>1, <1>3 DEF OnlyMoves
<1>6. x.at \in Committed /\ x.at \notin {"idle", "save"} /\ DOMAIN x.saved = Touches(x.ops)
    BY <1>2, <1>3 DEF TransactionTyped, Committed
<1>7. Spares(u)
    BY <1>1, <1>2, <1>4 DEF Spares
<1>8. TransactionTyped(y)
    <2>1. y.left \in BOOLEAN
        BY <1>3, <1>4 DEF TransactionTyped
    <2>2. y.at \in TreeSteps
        BY <1>4 DEF TreeSteps
    <2> QED
        BY <1>3, <1>4, <1>6, <2>1, <2>2 DEF TransactionTyped
<1>9. TempsFit'
    BY <1>1, <1>5, TempsLeft
<1>10. ASSUME ApartFrom(u)' PROVE Kept(u, y)'
    <2>1. ApartFrom(u)
        BY <1>2, <1>4, <1>5, <1>10 DEF ApartFrom, OnlyMoves, Below
    <2>2. Kept(u, x)
        BY <1>2, <2>1 DEF TreeInv, KeptFits
    <2> QED
        BY <1>1, <1>4, <1>6, <2>2 DEF Kept, Committed
<1>11. ASSUME u \notin crossed PROVE Alone(y)' /\ ParentsKnown(u)'
    <2>1. Alone(x)
        BY <1>2, <1>6, <1>11 DEF TreeInv, AloneFits, Active, Committed
    <2>2. ~y.left
        <3>1. ~x.left
            BY <2>1 DEF Alone
        <3> QED
            BY <1>4, <3>1
    <2>3. Alone(y)'
        BY <1>1, <1>4, <1>6, <2>1, <2>2 DEF Alone, Committed
    <2> QED
        BY <1>2, <1>4, <2>3 DEF ParentsKnown
<1>12. IsTree(held, dirs)'
    BY <1>1 DEF TreeInv
<1>13. Active(u)
    BY <1>2, <1>6 DEF Active, Committed
<1> QED
    BY <1>1, <1>2, <1>4, <1>5, <1>7, <1>8, <1>9, <1>10, <1>11, <1>12, <1>13, StepKeeps

(* A step of the commit that writes no file.                                     *)
LEMMA GoesOn ==
    ASSUME TreeInv, NEW u \in Transactions, NEW x, NEW y, x = tx[u], y = tx'[u],
           x.at \in Committed, OnlyMoves(u), held' = held, crossed' = crossed,
           DOMAIN y = DOMAIN x, y.at \in Committed \cup {"applied"}, y.ops = x.ops,
           y.n = x.n, y.saved = x.saved, y.todo = x.todo, y.left = x.left, y.was = x.was,
           x.made \subseteq y.made, y.made \subseteq TreePaths,
           y.at \notin {"verify", "applied"} => x.n <= Len(x.ops),
           y.at = "applied" => x.n > Len(x.ops),
           y.at = "replace" => x.ops[x.n].kind = "put",
           y.made \cap dirs \subseteq x.made,
           dirs \subseteq dirs', \A d \in dirs' : d \in dirs \/ d \in Above(Target(u)),
           x.n <= Len(x.ops) \/ dirs' = dirs, IsTree(held', dirs'), TempsFit',
           u \notin crossed => dirs' \subseteq dirs \cup y.made /\ ParentsKnown(u)'
    PROVE  TreeInv'
<1>1. /\ TransactionTyped(x)
      /\ DOMAIN x = {"at", "ops", "n", "saved", "made", "todo", "left", "was"}
    BY DEF TreeInv, TransactionsFit, TransactionTyped
<1>2. x.at \notin {"idle", "save"} /\ DOMAIN x.saved = Touches(x.ops)
    BY <1>1 DEF TransactionTyped, Committed
<1>3. Spares(u)
    <2>1. x.n <= Len(x.ops) => Target(u) \in DOMAIN x.saved
        BY <1>2, OpIs
    <2> QED
        BY <2>1 DEF Spares, Below
<1>4. TransactionTyped(y)
    <2>1. y.left \in BOOLEAN
        BY <1>1 DEF TransactionTyped
    <2>2. y.at \in TreeSteps /\ y.at \notin {"idle", "save", "restore", "sweep"}
        BY DEF TreeSteps, Committed
    <2>3. /\ x.ops \in Seq(TreeOperation) /\ x.n \in Nat /\ x.n # 0 /\ NoConflict(x.ops)
          /\ \A p \in DOMAIN x.saved : x.saved[p] \in TreeContents \cup {"dir"}
          /\ DOMAIN x.was = {"held", "dirs"} /\ IsTree(x.was.held, x.was.dirs)
          /\ \A p \in Touches(x.ops) : p \notin x.was.dirs
        BY <1>1 DEF TransactionTyped
    <2> QED
        BY <1>1, <1>2, <2>1, <2>2, <2>3 DEF TransactionTyped
<1>5. ASSUME ApartFrom(u)' PROVE Kept(u, y)'
    <2>1. ApartFrom(u)
        BY <1>5 DEF ApartFrom, OnlyMoves, Below
    <2>2. Kept(u, x)
        BY <2>1 DEF TreeInv, KeptFits
    <2>3. /\ \A p \in Touches(x.ops) : x.saved[p] = x.was.held[p]
          /\ \A p \in Touches(x.ops) :
                x.was.held[p] # None => \A d \in Above(p) \cap FilePaths : held[d] = None
          /\ \A i \in DOMAIN x.ops : i < x.n => IsDone(u, x.ops[i])
        BY <1>2, <2>2 DEF Kept
    <2>4. \A i \in DOMAIN x.ops : IsDone(u, x.ops[i]) => IsDone(u, x.ops[i])'
        BY DEF IsDone
    <2>5. y.at \notin {"save", "restore", "sweep", "rolled_back", "broken"}
        BY DEF Committed
    <2> QED
        BY <2>3, <2>4, <2>5 DEF Kept
<1>6. ASSUME Active(u)', u \notin crossed PROVE Alone(y)' /\ ParentsKnown(u)'
    <2>1. Alone(x)
        BY <1>6 DEF TreeInv, AloneFits, Active, Committed
    <2>2. ~y.left
        <3>1. ~x.left
            BY <2>1 DEF Alone
        <3> QED
            BY <3>1
    <2>3. y.at \in Committed
        BY <1>6 DEF Active
    <2>4. Alone(y)'
        BY <1>6, <2>1, <2>2, <2>3 DEF Alone, Committed
    <2> QED
        BY <1>6, <2>4
<1>7. Active(u)
    BY DEF Active, Committed
<1>8. y.at # "broken"
    BY DEF Committed
<1> QED
    BY <1>3, <1>4, <1>5, <1>6, <1>7, <1>8, StepKeeps

LEMMA FieldsOf ==
    ASSUME TreeInv, NEW u \in Transactions
    PROVE  /\ TransactionTyped(tx[u]) /\ DOMAIN tx = Transactions
           /\ DOMAIN tx[u] = {"at", "ops", "n", "saved", "made", "todo", "left", "was"}
           /\ tx[u].made \subseteq TreePaths
BY DEF TreeInv, TransactionsFit, TransactionTyped

LEMMA StandsStill ==
    ASSUME TreeInv, NEW u \in Transactions, tx[u].at \in Committed \ {"replace"},
           NEW at \in (Committed \ {"replace"}) \cup {"applied"}, GoTo(u, at),
           at \notin {"verify", "applied"} => tx[u].n <= Len(tx[u].ops),
           at = "applied" => tx[u].n > Len(tx[u].ops),
           UNCHANGED <<held, dirs, temps, crossed>>, ParentsKnown(u)'
    PROVE  TreeInv'
<1>1. PICK x, y : x = tx[u] /\ y = tx'[u]
    OBVIOUS
<1>2. tx' = [tx EXCEPT ![u].at = at]
    BY DEF GoTo
<1>3. /\ DOMAIN tx = Transactions /\ x.made \subseteq TreePaths
      /\ DOMAIN x = {"at", "ops", "n", "saved", "made", "todo", "left", "was"}
    BY <1>1, FieldsOf
<1>4. /\ DOMAIN y = DOMAIN x /\ y.at = at /\ y.ops = x.ops /\ y.n = x.n
      /\ y.saved = x.saved /\ y.todo = x.todo /\ y.made = x.made /\ y.left = x.left
      /\ y.was = x.was
    BY <1>1, <1>2, <1>3
<1>5. OnlyMoves(u)
    BY <1>2, <1>3 DEF OnlyMoves
<1>6. TempsFit'
    <2>1. \A f \in temps : f[2] # u
        BY NoTempOf
    <2> QED
        BY <1>5, <2>1, TempsLeft
<1>7. IsTree(held', dirs')
    BY DEF TreeInv
<1> QED
    BY <1>1, <1>3, <1>4, <1>5, <1>6, <1>7, GoesOn

LEMMA VerifyKeeps ==
    ASSUME TreeInv, NEW u \in Transactions, Verify(u)
    PROVE  TreeInv'
<1>1. tx[u].at = "verify" /\ tx[u].at \in Committed \ {"replace"}
    BY DEF Verify, Committed
<1>2. tx[u].n \in Nat /\ Len(tx[u].ops) \in Nat
    <2>1. tx[u].n \in Nat /\ tx[u].ops \in Seq(TreeOperation)
        BY FieldsOf DEF TransactionTyped
    <2> QED
        BY <2>1, LenProperties
<1>3. CASE tx[u].n > Len(tx[u].ops) /\ GoTo(u, "applied")
           /\ UNCHANGED <<held, dirs, temps, crossed>>
    <2>1. tx'[u].at = "applied"
        BY <1>3, FieldsOf DEF GoTo
    <2>2. ParentsKnown(u)'
        BY <2>1 DEF ParentsKnown
    <2> QED
        BY <1>1, <1>3, <2>2, StandsStill
<1>4. CASE ~(tx[u].n > Len(tx[u].ops))
           /\ GoTo(u, IF Op(u).kind = "delete" THEN "commit" ELSE "parent")
           /\ UNCHANGED <<held, dirs, temps, crossed>>
    <2>1. PICK at : at = IF Op(u).kind = "delete" THEN "commit" ELSE "parent"
        OBVIOUS
    <2>2. at \in Committed \ {"replace"} /\ at \notin {"verify", "applied"} /\ GoTo(u, at)
        BY <1>4, <2>1 DEF Committed
    <2>3. tx'[u].at = at /\ Op(u)' = Op(u)
        BY <2>2, FieldsOf DEF GoTo, Op
    <2>4. ParentsKnown(u)'
        BY <2>1, <2>3 DEF ParentsKnown
    <2>5. tx[u].n <= Len(tx[u].ops)
        BY <1>2, <1>4
    <2> QED
        BY <1>1, <1>4, <2>2, <2>4, <2>5, StandsStill
<1>5. CASE Fail(u)
    BY <1>1, <1>5, FailKeeps
<1> QED
    BY <1>3, <1>4, <1>5 DEF Verify

LEMMA WithinOps ==
    ASSUME TreeInv, NEW u \in Transactions, tx[u].at \in {"parent", "mkdir", "commit", "replace"}
    PROVE  tx[u].n <= Len(tx[u].ops) /\ Op(u).path \in FilePaths /\ Target(u) \in FilePaths
<1>1. tx[u].n <= Len(tx[u].ops)
    BY FieldsOf DEF TransactionTyped
<1> QED
    BY <1>1, OpIs

LEMMA EnsureParentKeeps ==
    ASSUME TreeInv, NEW u \in Transactions, EnsureParent(u)
    PROVE  TreeInv'
<1>1. tx[u].at = "parent" /\ tx[u].at \in Committed \ {"replace"}
    BY DEF EnsureParent, Committed
<1>2. CASE Fail(u)
    BY <1>1, <1>2, FailKeeps
<1>3. CASE /\ tx' = [tx EXCEPT ![u].made = @ \cup Recorded(Target(u)),
                               ![u].at = IF Missing(Target(u)) = {} THEN "commit" ELSE "mkdir"]
           /\ UNCHANGED <<held, dirs, temps, crossed>>
    <2>1. PICK x, y : x = tx[u] /\ y = tx'[u]
        OBVIOUS
    <2>2. /\ DOMAIN tx = Transactions /\ x.made \subseteq TreePaths
          /\ DOMAIN x = {"at", "ops", "n", "saved", "made", "todo", "left", "was"}
        BY <2>1, FieldsOf
    <2>3. /\ DOMAIN y = DOMAIN x /\ y.ops = x.ops /\ y.n = x.n
          /\ y.at = IF Missing(Target(u)) = {} THEN "commit" ELSE "mkdir"
          /\ y.saved = x.saved /\ y.todo = x.todo /\ y.left = x.left
          /\ y.was = x.was /\ y.made = x.made \cup Missing(Target(u))
        BY <1>3, <2>1, <2>2 DEF Recorded
    <2>4. OnlyMoves(u)
        BY <1>3, <2>2 DEF OnlyMoves
    <2>5. TempsFit'
        <3>1. \A f \in temps : f[2] # u
            BY <1>1, NoTempOf
        <3> QED
            BY <1>3, <2>4, <3>1, TempsLeft
    <2>6. IsTree(held', dirs')
        BY <1>3 DEF TreeInv
    <2>7. Op(u)' = Op(u) /\ Target(u)' = Target(u)
        BY <2>1, <2>3 DEF Op, Target
    <2>8. ParentsKnown(u)'
        <3>1. y.at = "mkdir" => Missing(Target(u))' \subseteq y.made
            BY <1>3, <2>3, <2>7 DEF Missing
        <3>2. y.at = "commit" /\ Op(u).kind = "put" => Above(Op(u).path) \subseteq dirs'
            BY <1>3, <2>3 DEF Missing, Target
        <3> QED
            BY <2>1, <2>7, <3>1, <3>2 DEF ParentsKnown
    <2>9. Missing(Target(u)) \subseteq TreePaths /\ Missing(Target(u)) \cap dirs = {}
        BY <1>1, WithinOps, FilePathsAre, AboveIs DEF Missing
    <2>10. x.n <= Len(x.ops)
        BY <1>1, <2>1, WithinOps
    <2>11. y.at \in Committed /\ y.at \notin {"verify", "applied"}
        BY <2>3 DEF Committed
    <2> QED
        BY <1>1, <1>3, <2>1, <2>2, <2>3, <2>4, <2>5, <2>6, <2>8, <2>9, <2>10, <2>11, GoesOn
<1> QED
    BY <1>2, <1>3 DEF EnsureParent

LEMMA MakeParentsKeeps ==
    ASSUME TreeInv, NEW u \in Transactions, MakeParents(u)
    PROVE  TreeInv'
<1>1. tx[u].at = "mkdir" /\ tx[u].at \in Committed \ {"replace"}
    BY DEF MakeParents, Committed
<1>2. CASE Fail(u)
    BY <1>1, <1>2, FailKeeps
<1>3. CASE /\ ~BlockedByFile(Target(u))
           /\ dirs' = dirs \cup Above(Target(u)) /\ GoTo(u, "commit")
           /\ UNCHANGED <<held, temps, crossed>>
    <2>1. PICK x, y : x = tx[u] /\ y = tx'[u]
        OBVIOUS
    <2>2. /\ DOMAIN tx = Transactions /\ x.made \subseteq TreePaths
          /\ DOMAIN x = {"at", "ops", "n", "saved", "made", "todo", "left", "was"}
        BY <2>1, FieldsOf
    <2>3. /\ DOMAIN y = DOMAIN x /\ y.ops = x.ops /\ y.n = x.n /\ y.at = "commit"
          /\ y.saved = x.saved /\ y.todo = x.todo /\ y.left = x.left
          /\ y.was = x.was /\ y.made = x.made
        BY <1>3, <2>1, <2>2 DEF GoTo
    <2>4. OnlyMoves(u)
        BY <1>3, <2>2 DEF OnlyMoves, GoTo
    <2>5. TempsFit'
        <3>1. \A f \in temps : f[2] # u
            BY <1>1, NoTempOf
        <3> QED
            BY <1>3, <2>4, <3>1, TempsLeft
    <2>6. IsTree(held', dirs')
        BY <1>1, <1>3, WithinOps, TreeGrows DEF TreeInv, BlockedByFile
    <2>7. Op(u)' = Op(u) /\ Target(u)' = Target(u)
        BY <2>1, <2>3 DEF Op, Target
    <2>8. ParentsKnown(u)'
        <3>1. y.at = "commit" /\ Op(u).kind = "put" => Above(Op(u).path) \subseteq dirs'
            BY <1>3, <2>3 DEF Target
        <3> QED
            BY <2>1, <2>3, <2>7, <3>1 DEF ParentsKnown
    <2>9. u \notin crossed => dirs' \subseteq dirs \cup y.made
        <3>1. u \notin crossed => Missing(Target(u)) \subseteq x.made
            BY <1>1, <2>1 DEF TreeInv, AloneFits, ParentsKnown, Active
        <3> QED
            BY <1>3, <2>3, <3>1 DEF Missing
    <2>10. x.n <= Len(x.ops)
        BY <1>1, <2>1, WithinOps
    <2>11. y.at \in Committed /\ y.at \notin {"verify", "applied"}
        BY <2>3 DEF Committed
    <2> QED
        BY <1>1, <1>3, <2>1, <2>2, <2>3, <2>4, <2>5, <2>6, <2>8, <2>9, <2>10, <2>11, GoesOn
<1> QED
    BY <1>2, <1>3 DEF MakeParents

LEMMA WriteTempKeeps ==
    ASSUME TreeInv, NEW u \in Transactions, WriteTemp(u)
    PROVE  TreeInv'
<1>1. /\ tx[u].at = "commit" /\ tx[u].at \in Committed \ {"replace"}
      /\ Op(u).kind = "put" /\ Target(u) = Op(u).path
    BY DEF WriteTemp, Committed, Target
<1>2. CASE Fail(u)
    BY <1>1, <1>2, FailKeeps
<1>3. CASE /\ ~BlockedByFile(Op(u).path)
           /\ dirs' = dirs \cup Above(Op(u).path)
           /\ temps' = temps \cup {<<Front(Op(u).path), u>>}
           /\ GoTo(u, "replace") /\ UNCHANGED <<held, crossed>>
    <2>1. PICK x, y : x = tx[u] /\ y = tx'[u]
        OBVIOUS
    <2>2. /\ DOMAIN tx = Transactions /\ x.made \subseteq TreePaths
          /\ DOMAIN x = {"at", "ops", "n", "saved", "made", "todo", "left", "was"}
        BY <2>1, FieldsOf
    <2>3. /\ DOMAIN y = DOMAIN x /\ y.ops = x.ops /\ y.n = x.n /\ y.at = "replace"
          /\ y.saved = x.saved /\ y.todo = x.todo /\ y.left = x.left
          /\ y.was = x.was /\ y.made = x.made
        BY <1>3, <2>1, <2>2 DEF GoTo
    <2>4. OnlyMoves(u)
        BY <1>3, <2>2 DEF OnlyMoves, GoTo
    <2>5. Op(u)' = Op(u) /\ Op(u).path \in FilePaths
        BY <1>1, <2>1, <2>3, WithinOps DEF Op
    <2>6. TempsFit'
        <3>1. TempsFit
            BY DEF TreeInv
        <3>2. PICK d : d = Front(Op(u).path)
            OBVIOUS
        <3>3. d \in Seq(STRING) /\ (d = Root \/ d \in Above(Op(u).path))
            BY <2>5, <3>2, FrontIs, FilePathsAre
        <3>4. temps' = temps \cup {<<d, u>>} /\ temps' \subseteq Seq(STRING) \X Transactions
            BY <1>3, <3>1, <3>2, <3>3 DEF TempsFit
        <3>5. ASSUME NEW f \in temps
              PROVE  /\ IsDir(f[1])' /\ tx'[f[2]].at = "replace" /\ f[1] = Front(Op(f[2]).path)'
            <4>1. /\ f[2] \in Transactions /\ IsDir(f[1]) /\ tx[f[2]].at = "replace"
                  /\ f[1] = Front(Op(f[2]).path)
                BY <3>1 DEF TempsFit
            <4>2. f[2] # u
                BY <1>1, <4>1
            <4>3. tx'[f[2]] = tx[f[2]] /\ Op(f[2])' = Op(f[2])
                BY <2>4, <4>1, <4>2 DEF OnlyMoves, Op
            <4> QED
                BY <1>3, <4>1, <4>3 DEF IsDir
        <3>6. IsDir(d)' /\ tx'[u].at = "replace" /\ d = Front(Op(u).path)'
            BY <1>3, <2>1, <2>3, <2>5, <3>2, <3>3 DEF IsDir
        <3>7. ASSUME NEW f \in temps'
              PROVE  /\ IsDir(f[1])' /\ tx'[f[2]].at = "replace" /\ f[1] = Front(Op(f[2]).path)'
            <4>1. CASE f \in temps
                BY <3>5, <4>1
            <4>2. CASE f = <<d, u>>
                <5>1. f[1] = d /\ f[2] = u
                    BY <4>2
                <5> QED
                    BY <3>6, <5>1
            <4> QED
                BY <3>4, <4>1, <4>2
        <3> QED
            BY <3>4, <3>7 DEF TempsFit
    <2>7. IsTree(held', dirs')
        BY <1>3, <2>5, TreeGrows DEF TreeInv, BlockedByFile
    <2>8. ParentsKnown(u)'
        BY <2>1, <2>3 DEF ParentsKnown
    <2>9. u \notin crossed => dirs' \subseteq dirs \cup y.made
        <3>1. u \notin crossed => Above(Op(u).path) \subseteq dirs
            BY <1>1 DEF TreeInv, AloneFits, ParentsKnown, Active
        <3> QED
            BY <1>3, <3>1
    <2>10. x.n <= Len(x.ops)
        BY <1>1, <2>1, WithinOps
    <2>11. y.at \in Committed /\ y.at \notin {"verify", "applied"}
        BY <2>3 DEF Committed
    <2>12. x.ops[x.n].kind = "put"
        BY <1>1, <2>1 DEF Op
    <2> QED
        BY <2>12, <1>1, <1>3, <2>1, <2>2, <2>3, <2>4, <2>6, <2>7, <2>8, <2>9, <2>10, <2>11, GoesOn
<1> QED
    BY <1>1, <1>2, <1>3 DEF WriteTemp

(* An operation has been carried out.                                            *)
LEMMA OpWritten ==
    ASSUME TreeInv, NEW u \in Transactions, tx[u].at \in {"commit", "replace"},
           NextOp(u), dirs' = dirs, crossed' = crossed, IsTree(held', dirs'), TempsFit',
           NEW o, o = Op(u), IsDone(u, o)',
           \A p \in FilePaths : held'[p] # held[p] => p \in Claims(o),
           \A p \in FilePaths : held'[p] # None /\ held[p] = None => p = Target(u)
    PROVE  TreeInv'
<1>1. PICK x, y : x = tx[u] /\ y = tx'[u]
    OBVIOUS
<1>2. /\ TransactionTyped(x) /\ DOMAIN tx = Transactions
      /\ DOMAIN x = {"at", "ops", "n", "saved", "made", "todo", "left", "was"}
    BY <1>1, FieldsOf
<1>3. /\ DOMAIN y = DOMAIN x /\ y.at = "verify" /\ y.ops = x.ops /\ y.n = x.n + 1
      /\ y.saved = x.saved /\ y.todo = x.todo /\ y.left = x.left
      /\ y.was = x.was /\ y.made = x.made
    BY <1>1, <1>2 DEF NextOp
<1>4. OnlyMoves(u)
    BY <1>2 DEF OnlyMoves, NextOp
<1>5. /\ x.ops \in Seq(TreeOperation) /\ x.n \in Nat /\ x.n # 0 /\ NoConflict(x.ops)
      /\ \A p \in DOMAIN x.saved : x.saved[p] \in TreeContents \cup {"dir"}
      /\ DOMAIN x.was = {"held", "dirs"} /\ IsTree(x.was.held, x.was.dirs)
      /\ \A p \in Touches(x.ops) : p \notin x.was.dirs
      /\ x.n <= Len(x.ops) /\ DOMAIN x.saved = Touches(x.ops) /\ x.made \subseteq TreePaths
    BY <1>1, <1>2 DEF TransactionTyped
<1>6. x.at \in Committed /\ x.at \notin {"idle", "save"}
    BY <1>1 DEF Committed
<1>7. /\ o = x.ops[x.n] /\ x.n \in DOMAIN x.ops /\ o.path \in Touches(x.ops)
      /\ Target(u) \in Touches(x.ops) /\ Claims(o) \subseteq Touches(x.ops)
      /\ \A i \in DOMAIN x.ops \ {x.n} : Claims(x.ops[i]) \cap Claims(o) = {}
    <2>1. /\ x.n \in DOMAIN x.ops /\ o.path \in Touches(x.ops)
          /\ Target(u) \in Touches(x.ops)
          /\ o.kind = "move" => o.to \in Touches(x.ops)
          /\ \A i \in DOMAIN x.ops \ {x.n} : Claims(x.ops[i]) \cap Claims(o) = {}
        BY <1>1, <1>5, OpIs
    <2>2. o = x.ops[x.n]
        BY <1>1 DEF Op
    <2> QED
        BY <2>1, <2>2 DEF Claims
<1>8. Touches(x.ops) \subseteq FilePaths
    BY <1>5, TouchesAre
<1>9. Spares(u)
    BY <1>1, <1>3, <1>5, <1>7 DEF Spares
<1>10. TransactionTyped(y)
    <2>1. y.left \in BOOLEAN
        BY <1>2, <1>3 DEF TransactionTyped
    <2>2. y.at \in TreeSteps /\ y.n \in Nat /\ y.n # 0
        BY <1>3, <1>5 DEF TreeSteps, Committed
    <2> QED
        BY <1>2, <1>3, <1>5, <2>1, <2>2 DEF TransactionTyped
<1>11. ASSUME ApartFrom(u)' PROVE Kept(u, y)'
    <2>1. ApartFrom(u)
        BY <1>1, <1>3, <1>4, <1>11 DEF ApartFrom, OnlyMoves, Below
    <2>2. Kept(u, x)
        BY <1>1, <2>1 DEF TreeInv, KeptFits
    <2>3. /\ \A p \in Touches(x.ops) : x.saved[p] = x.was.held[p]
          /\ \A p \in Touches(x.ops) :
                x.was.held[p] # None => \A d \in Above(p) \cap FilePaths : held[d] = None
          /\ \A i \in DOMAIN x.ops : i < x.n => IsDone(u, x.ops[i])
        BY <1>6, <2>2 DEF Kept
    <2>4. ASSUME NEW p \in Touches(x.ops), x.was.held[p] # None,
                 NEW d \in Above(p) \cap FilePaths
          PROVE  held'[d] = None
        <3>1. d \in x.was.dirs
            BY <1>5, <1>8, <2>4 DEF IsTree
        <3>2. d \notin Touches(x.ops)
            BY <1>5, <3>1
        <3> QED
            BY <1>7, <2>3, <2>4, <3>2
    <2>5. ASSUME NEW i \in DOMAIN x.ops, i < x.n + 1 PROVE IsDone(u, x.ops[i])'
        <3>1. CASE i = x.n
            BY <1>7, <3>1
        <3>2. CASE i # x.n
            <4>1. i < x.n
                <5>1. i \in Nat
                    BY <1>5, LenProperties
                <5> QED
                    BY <1>5, <2>5, <3>2, <5>1
            <4>2. PICK r : r = x.ops[i]
                OBVIOUS
            <4>3. IsDone(u, r) /\ Claims(r) \cap Claims(o) = {}
                BY <1>7, <2>3, <3>2, <4>1, <4>2
            <4>4. /\ r \in TreeOperation /\ r.path \in FilePaths /\ r.path \in Claims(r)
                  /\ r.kind = "move" => r.to \in FilePaths /\ r.to \in Claims(r)
                BY <1>5, <1>8, <4>2, TouchesAre DEF Claims
            <4>5. r.kind \in {"put", "delete", "move"}
                BY <4>4 DEF TreeOperation
            <4>6. held'[r.path] = held[r.path] /\ (r.kind = "move" => held'[r.to] = held[r.to])
                BY <4>3, <4>4
            <4>7. IsDone(u, r)'
                BY <4>3, <4>5, <4>6 DEF IsDone
            <4> QED
                BY <4>2, <4>7
        <3> QED
            BY <3>1, <3>2
    <2> QED
        BY <1>3, <2>3, <2>4, <2>5 DEF Kept
<1>12. ASSUME u \notin crossed PROVE Alone(y)' /\ ParentsKnown(u)'
    <2>1. Alone(x)
        BY <1>1, <1>6, <1>12 DEF TreeInv, AloneFits, Active, Committed
    <2>2. ~y.left
        <3>1. ~x.left
            BY <2>1 DEF Alone
        <3> QED
            BY <1>3, <3>1
    <2>3. \A p \in FilePaths \ Touches(x.ops) : held'[p] = x.was.held[p]
        BY <1>6, <1>7, <2>1 DEF Alone
    <2>4. Alone(y)'
        BY <1>3, <1>6, <2>1, <2>2, <2>3 DEF Alone
    <2> QED
        BY <1>1, <1>3, <2>4 DEF ParentsKnown
<1>13. Active(u)
    BY <1>1 DEF Active
<1> QED
    BY <1>1, <1>3, <1>4, <1>9, <1>10, <1>11, <1>12, <1>13, StepKeeps

LEMMA ReplaceKeeps ==
    ASSUME TreeInv, NEW u \in Transactions, Replace(u)
    PROVE  TreeInv'
<1>1. tx[u].at = "replace" /\ tx[u].at \in Committed
    BY DEF Replace, Committed
<1>2. CASE Fail(u)
    BY <1>1, <1>2, FailKeeps
<1>3. CASE /\ Op(u).path \notin dirs /\ <<Front(Op(u).path), u>> \in temps
           /\ held' = [held EXCEPT ![Op(u).path] = u]
           /\ temps' = temps \ {<<Front(Op(u).path), u>>}
           /\ NextOp(u) /\ UNCHANGED <<dirs, crossed>>
    <2>1. PICK p : p = Op(u).path
        OBVIOUS
    <2>2. p \in FilePaths /\ p \in TreePaths
        BY <1>1, <2>1, WithinOps, FilePathsAre
    <2>3. OnlyMoves(u)
        BY <1>3, FieldsOf DEF OnlyMoves, NextOp
    <2>4. IsTree(held, dirs) /\ TempsFit
        BY DEF TreeInv
    <2>5. IsTree(held', dirs')
        <3>1. PICK f : f = <<Front(p), u>>
            OBVIOUS
        <3>2. IsDir(Front(p))
            BY <1>3, <2>1, <2>4, <3>1 DEF TempsFit
        <3>3. Above(p) \subseteq dirs
            <4>1. Above(Root) = {}
                BY EmptySeq DEF Above, Root
            <4>2. Above(Front(p)) \subseteq dirs /\ (Front(p) = Root \/ Front(p) \in dirs)
                BY <2>4, <3>2, <4>1 DEF IsDir, IsTree
            <4> QED
                BY <2>2, <4>2, FrontIs
        <3>4. u \in TreeContents
            BY DEF TreeContents
        <3> QED
            BY <1>3, <2>1, <2>2, <2>4, <3>3, <3>4, TreeFilled
    <2>6. TempsFit'
        <3>1. ASSUME NEW f \in temps' PROVE f[2] # u
            <4>1. f \in temps /\ f # <<Front(p), u>> /\ f = <<f[1], f[2]>>
                  /\ f[1] = Front(Op(f[2]).path)
                BY <1>3, <2>1, <2>4, <3>1 DEF TempsFit
            <4> QED
                BY <2>1, <4>1
        <3> QED
            BY <1>3, <2>3, <3>1, TempsLeft
    <2>7. Op(u).kind = "put" /\ Target(u) = p
        BY <1>1, <2>1, FieldsOf DEF TransactionTyped, Op, Target
    <2>8. PICK o : o = Op(u)
        OBVIOUS
    <2>9. o.kind = "put" /\ o.path = p /\ p \in Claims(o)
        BY <2>1, <2>7, <2>8 DEF Claims
    <2>10. DOMAIN held = FilePaths
        BY <2>4 DEF IsTree
    <2>11. IsDone(u, o)'
        BY <1>3, <2>1, <2>2, <2>9, <2>10 DEF IsDone
    <2>12. /\ \A q \in FilePaths : held'[q] # held[q] => q \in Claims(o)
           /\ \A q \in FilePaths : held'[q] # None /\ held[q] = None => q = Target(u)
        BY <1>3, <2>1, <2>7, <2>9, <2>10
    <2> QED
        BY <1>1, <1>3, <2>5, <2>6, <2>8, <2>11, <2>12, OpWritten
<1> QED
    BY <1>1, <1>2, <1>3 DEF Replace

LEMMA CommitOtherKeeps ==
    ASSUME TreeInv, NEW u \in Transactions, CommitOther(u)
    PROVE  TreeInv'
<1>1. /\ tx[u].at = "commit" /\ tx[u].at \in Committed
      /\ Op(u).kind \in {"delete", "move"}
    BY DEF CommitOther, Committed
<1>2. PICK o : o = Op(u)
    OBVIOUS
<1>3. CASE Fail(u)
    BY <1>1, <1>3, FailKeeps
<1>4. CASE /\ held[o.path] # None
           /\ o.kind = "move" => o.to \notin dirs /\ IsDir(Front(o.to))
           /\ held' = [p \in FilePaths |-> IF p = o.path THEN None
                                           ELSE IF o.kind = "move" /\ p = o.to
                                           THEN held[o.path] ELSE held[p]]
           /\ NextOp(u) /\ UNCHANGED <<dirs, temps, crossed>>
    <2>1. /\ o.path \in FilePaths /\ Target(u) \in FilePaths
          /\ Target(u) = IF o.kind = "move" THEN o.to ELSE o.path
          /\ o.kind \in {"delete", "move"}
        BY <1>1, <1>2, WithinOps DEF Target
    <2>2. o.kind = "move" => o.to # o.path
        BY <1>1, <1>2, WithinOps, OpIs
    <2>3. OnlyMoves(u)
        BY <1>4, FieldsOf DEF OnlyMoves, NextOp
    <2>4. IsTree(held, dirs)
        BY DEF TreeInv
    <2>5. PICK g : g = [held EXCEPT ![o.path] = None]
        OBVIOUS
    <2>6. IsTree(g, dirs) /\ g \in [FilePaths -> TreeContents]
        <3>1. /\ g \in [FilePaths -> TreeContents]
              /\ \A p \in FilePaths : g[p] \in {None, held[p]}
            BY <2>1, <2>4, <2>5 DEF IsTree, TreeContents
        <3> QED
            BY <2>4, <3>1, TreeCleared
    <2>7. IsTree(held', dirs')
        <3>1. CASE o.kind = "delete"
            <4>1. held' = g
                BY <1>4, <2>4, <2>5, <3>1 DEF IsTree
            <4> QED
                BY <1>4, <2>6, <4>1
        <3>2. CASE o.kind = "move"
            <4>1. held' = [g EXCEPT ![o.to] = held[o.path]]
                BY <1>4, <2>2, <2>4, <2>5, <3>2 DEF IsTree
            <4>2. o.to \in FilePaths /\ held[o.path] \in TreeContents
                BY <2>1, <2>4, <3>2 DEF IsTree
            <4>3. Above(o.to) \subseteq dirs
                <5>1. Above(Root) = {}
                    BY EmptySeq DEF Above, Root
                <5>2. Above(Front(o.to)) \subseteq dirs /\ (Front(o.to) = Root \/ Front(o.to) \in dirs)
                    BY <1>4, <2>4, <3>2, <5>1 DEF IsDir, IsTree
                <5> QED
                    BY <4>2, <5>2, FrontIs, FilePathsAre
            <4> QED
                BY <1>4, <2>6, <3>2, <4>1, <4>2, <4>3, TreeFilled
        <3> QED
            BY <2>1, <3>1, <3>2
    <2>8. TempsFit'
        <3>1. \A f \in temps : f[2] # u
            BY <1>1, NoTempOf
        <3> QED
            BY <1>4, <2>3, <3>1, TempsLeft
    <2>9. IsDone(u, o)'
        BY <1>4, <2>1, <2>2 DEF IsDone
    <2>10. /\ \A q \in FilePaths : held'[q] # held[q] => q \in Claims(o)
           /\ \A q \in FilePaths : held'[q] # None /\ held[q] = None => q = Target(u)
        BY <1>4, <2>1 DEF Claims
    <2> QED
        BY <1>1, <1>2, <1>4, <2>7, <2>8, <2>9, <2>10, OpWritten
<1> QED
    BY <1>2, <1>3, <1>4 DEF CommitOther

(* A path has been restored, by whatever the snapshot asks for.                  *)
LEMMA PathRestored ==
    ASSUME TreeInv, NEW u \in Transactions, tx[u].at = "restore",
           NEW p \in tx[u].todo, NEW s, s = tx[u].saved[p],
           NEW left \in BOOLEAN, Restored(u, p, left), left => s # None /\ BlockedByFile(p),
           crossed' = crossed, IsTree(held', dirs'), temps' \subseteq temps,
           \A f \in temps' : f[1] \in dirs => f[1] \in dirs',
           \A q \in FilePaths :
               held'[q] = held[q] \/ q = p \/ (Below(p, q) /\ held'[q] = None),
           \A e \in dirs : e \in dirs' \/ e = p \/ Below(p, e),
           \A e \in dirs' : e \in dirs \/ e = p \/ e \in Above(p),
           s # "dir" => \A e \in dirs' : e \in dirs \/ (s # None /\ e \in Above(p)),
           s # "dir" /\ (s = None \/ ~BlockedByFile(p)) => held'[p] = s
    PROVE  TreeInv'
<1>1. PICK x, y : x = tx[u] /\ y = tx'[u]
    OBVIOUS
<1>2. /\ TransactionTyped(x) /\ DOMAIN tx = Transactions
      /\ DOMAIN x = {"at", "ops", "n", "saved", "made", "todo", "left", "was"}
    BY <1>1, FieldsOf
<1>3. /\ DOMAIN y = DOMAIN x /\ y.at = "restore" /\ y.ops = x.ops /\ y.n = x.n
      /\ y.saved = x.saved /\ y.todo = x.todo \ {p} /\ y.was = x.was /\ y.made = x.made
    BY <1>1, <1>2 DEF Restored
<1>4. OnlyMoves(u)
    BY <1>2 DEF OnlyMoves, Restored
<1>5. /\ x.ops \in Seq(TreeOperation) /\ x.n \in Nat /\ x.n # 0 /\ NoConflict(x.ops)
      /\ \A q \in DOMAIN x.saved : x.saved[q] \in TreeContents \cup {"dir"}
      /\ DOMAIN x.was = {"held", "dirs"} /\ IsTree(x.was.held, x.was.dirs)
      /\ \A q \in Touches(x.ops) : q \notin x.was.dirs
      /\ DOMAIN x.saved = Touches(x.ops) /\ x.made \subseteq TreePaths
      /\ x.todo \subseteq Touches(x.ops)
    BY <1>1, <1>2 DEF TransactionTyped
<1>6. Touches(x.ops) \subseteq FilePaths /\ p \in Touches(x.ops)
    BY <1>1, <1>5, TouchesAre
<1>7. Spares(u)
    BY <1>1, <1>3, <1>5, <1>6 DEF Spares, Below
<1>8. x.left \in BOOLEAN /\ (y.left <=> x.left \/ left) /\ y.left \in BOOLEAN
    <2>1. x.left \in BOOLEAN
        BY <1>2 DEF TransactionTyped
    <2>2. tx' = [tx EXCEPT ![u] = [x EXCEPT !.todo = x.todo \ {p}, !.left = x.left \/ left]]
        BY <1>1 DEF Restored
    <2>3. y = [x EXCEPT !.todo = x.todo \ {p}, !.left = x.left \/ left]
        BY <1>1, <1>2, <2>2
    <2>4. y.left = (x.left \/ left)
        BY <1>2, <2>3
    <2> QED
        BY <2>1, <2>4
<1>9. TransactionTyped(y)
    <2>1. y.at \in TreeSteps
        BY <1>3 DEF TreeSteps
    <2>2. y.todo \subseteq Touches(y.ops)
        BY <1>3, <1>5
    <2> QED
        BY <1>2, <1>3, <1>5, <1>8, <2>1, <2>2 DEF TransactionTyped
<1>10. ASSUME NEW q \in FilePaths, x.was.held[q] # None PROVE p \notin Above(q) /\ Above(q) \subseteq x.was.dirs
    BY <1>5, <1>6, <1>10 DEF IsTree
<1>11. x.was.held[p] \in TreeContents /\ x.was.held[p] # "dir"
    BY <1>5, <1>6, PatchDirectoriesAssumption DEF IsTree, TreeContents, None
<1>12. ASSUME ApartFrom(u)' PROVE Kept(u, y)'
    <2>1. ApartFrom(u)
        BY <1>1, <1>3, <1>4, <1>12 DEF ApartFrom, OnlyMoves, Below
    <2>2. Kept(u, x)
        BY <1>1, <2>1 DEF TreeInv, KeptFits
    <2>3. /\ \A q \in Touches(x.ops) : x.saved[q] = x.was.held[q]
          /\ \A q \in Touches(x.ops) :
                x.was.held[q] # None => \A d \in Above(q) \cap FilePaths : held[d] = None
          /\ \A q \in Touches(x.ops) \ x.todo : held[q] = x.saved[q]
        BY <1>1, <2>2 DEF Kept
    <2>4. held'[p] = s
        BY <1>1, <1>6, <1>11, <2>3 DEF BlockedByFile
    <2>5. ASSUME NEW q \in Touches(x.ops) \ (x.todo \ {p}) PROVE held'[q] = x.saved[q]
        <3>1. CASE q = p
            BY <1>1, <2>4, <3>1
        <3>2. CASE q # p
            BY <1>6, <1>10, <2>3, <2>5, <3>2 DEF Below
        <3> QED
            BY <3>1, <3>2
    <2>6. ASSUME NEW q \in Touches(x.ops), x.was.held[q] # None,
                 NEW d \in Above(q) \cap FilePaths
          PROVE  held'[d] = None
        BY <1>6, <1>10, <2>3, <2>6
    <2> QED
        BY <1>3, <2>3, <2>5, <2>6 DEF Kept, Committed
<1>13. ASSUME u \notin crossed PROVE Alone(y)' /\ ParentsKnown(u)'
    <2>1. Alone(x)
        BY <1>1, <1>13 DEF TreeInv, AloneFits, Active
    <2>2. /\ \A q \in Touches(x.ops) : x.saved[q] = x.was.held[q]
          /\ \A q \in FilePaths \ Touches(x.ops) : held[q] = x.was.held[q]
          /\ x.was.dirs \subseteq dirs /\ dirs \subseteq x.was.dirs \cup x.made
          /\ x.made \cap x.was.dirs = {}
          /\ \A q \in Touches(x.ops) \ x.todo : held[q] = x.was.held[q]
        BY <1>1, <2>1 DEF Alone
    <2>3. s = x.was.held[p] /\ s # "dir"
        BY <1>1, <1>6, <1>11, <2>2
    <2>4. s # None => Above(p) \subseteq dirs /\ Above(p) \subseteq x.was.dirs
        BY <1>6, <1>10, <2>2, <2>3
    <2>5. s = None \/ ~BlockedByFile(p)
        BY <2>4 DEF BlockedByFile, TreeInv, IsTree
    <2>6. held'[p] = x.was.held[p]
        BY <2>3, <2>5
    <2>7. ASSUME NEW q \in FilePaths, held[q] = x.was.held[q] PROVE held'[q] = x.was.held[q]
        BY <1>10, <2>6, <2>7 DEF Below
    <2>8. x.was.dirs \subseteq dirs'
        <3>1. ASSUME NEW e \in x.was.dirs PROVE e \in dirs'
            <4>1. e \in dirs /\ Above(e) \subseteq x.was.dirs /\ p \notin x.was.dirs
                BY <1>5, <1>6, <2>2 DEF IsTree
            <4> QED
                BY <4>1 DEF Below
        <3> QED
            BY <3>1
    <2>9. dirs' \subseteq x.was.dirs \cup x.made
        BY <2>2, <2>3, <2>4
    <2>10. ~y.left
        <3>1. ~x.left
            BY <2>1 DEF Alone
        <3>2. ~left
            BY <2>5
        <3> QED
            BY <1>8, <3>1, <3>2
    <2>11. \A q \in FilePaths \ Touches(x.ops) : held'[q] = x.was.held[q]
        BY <2>2, <2>7
    <2>12. \A q \in Touches(x.ops) \ (x.todo \ {p}) : held'[q] = x.was.held[q]
        BY <1>6, <2>2, <2>6, <2>7
    <2>13. Alone(y)'
        BY <1>3, <2>2, <2>8, <2>9, <2>10, <2>11, <2>12 DEF Alone, Committed
    <2> QED
        BY <1>1, <1>3, <2>13 DEF ParentsKnown
<1>14. Active(u)
    BY DEF Active
<1>15. TempsFit'
    <2>1. \A f \in temps : f[2] # u
        BY NoTempOf
    <2> QED
        BY <1>4, <2>1, TempsLeft
<1> QED
    BY <1>1, <1>3, <1>4, <1>7, <1>9, <1>12, <1>13, <1>14, <1>15, StepKeeps

LEMMA PathsRestored ==
    ASSUME TreeInv, NEW u \in Transactions, Restore(u)
    PROVE  TreeInv'
<1>1. tx[u].at = "restore" /\ crossed' = crossed
    BY DEF Restore
<1>2. PICK p \in Deepest(tx[u].todo) :
         LET saved == tx[u].saved[p]
         IN CASE saved = None ->
                   PutBackNothing(p) /\ Restored(u, p, FALSE)
              [] saved # None /\ BlockedByFile(p) ->
                   UNCHANGED <<held, dirs, temps>> /\ Restored(u, p, TRUE)
              [] saved = "dir" /\ ~BlockedByFile(p) ->
                   PutBackDirectory(p) /\ Restored(u, p, FALSE)
              [] saved \notin {None, "dir"} /\ ~BlockedByFile(p) ->
                   PutBackFile(p, saved) /\ Restored(u, p, FALSE)
    BY DEF Restore
<1>3. PICK s : s = tx[u].saved[p]
    OBVIOUS
<1>4. \/ s = None /\ PutBackNothing(p) /\ Restored(u, p, FALSE)
      \/ s # None /\ BlockedByFile(p) /\ UNCHANGED <<held, dirs, temps>> /\ Restored(u, p, TRUE)
      \/ s = "dir" /\ ~BlockedByFile(p) /\ PutBackDirectory(p) /\ Restored(u, p, FALSE)
      \/ /\ s \notin {None, "dir"} /\ ~BlockedByFile(p)
         /\ PutBackFile(p, s) /\ Restored(u, p, FALSE)
    BY <1>2, <1>3
<1>5. p \in tx[u].todo /\ p \in FilePaths /\ s \in TreeContents \cup {"dir"}
    <2>1. p \in tx[u].todo
        BY DEF Deepest
    <2>2. TransactionTyped(tx[u])
        BY FieldsOf
    <2>3. p \in Touches(tx[u].ops) /\ p \in DOMAIN tx[u].saved /\ tx[u].ops \in Seq(TreeOperation)
        BY <1>1, <2>1, <2>2 DEF TransactionTyped
    <2>4. s \in TreeContents \cup {"dir"}
        BY <1>3, <2>2, <2>3 DEF TransactionTyped
    <2> QED
        BY <2>1, <2>3, <2>4, TouchesAre
<1>6. /\ IsTree(held, dirs) /\ DOMAIN held = FilePaths /\ None \in TreeContents
      /\ p \in Seq(STRING) /\ p \notin Above(p) /\ None # "dir"
    <2>1. \A d \in Above(p) : d # p
        BY <1>5, AboveIs, FilePathsAre
    <2> QED
        BY <1>5, <2>1, FilePathsAre DEF TreeInv, IsTree, TreeContents, None
<1>7. CASE s = None /\ PutBackNothing(p) /\ Restored(u, p, FALSE)
    <2>1. CASE p \in dirs /\ RemoveTree(p)
        <3>1. /\ dirs' = {e \in dirs : e # p /\ ~Below(p, e)}
              /\ held' = [q \in FilePaths |-> IF q = p \/ Below(p, q) THEN None ELSE held[q]]
              /\ temps' = {f \in temps : f[1] # p /\ ~Below(p, f[1])}
            BY <2>1 DEF RemoveTree
        <3>2. IsTree(held', dirs')
            BY <1>5, <1>6, <3>1, TreeCut
        <3> QED
            BY <1>1, <1>3, <1>5, <1>7, <3>1, <3>2, PathRestored
    <2>2. CASE held' = [held EXCEPT ![p] = None] /\ UNCHANGED <<dirs, temps>>
        <3>1. /\ held' \in [FilePaths -> TreeContents]
              /\ \A q \in FilePaths : held'[q] \in {None, held[q]}
            BY <1>5, <1>6, <2>2 DEF IsTree
        <3>2. IsTree(held', dirs')
            BY <1>6, <2>2, <3>1, TreeCleared
        <3> QED
            BY <1>1, <1>3, <1>5, <1>6, <1>7, <2>2, <3>2, PathRestored
    <2> QED
        BY <1>7, <2>1, <2>2 DEF PutBackNothing
<1>8. CASE s # None /\ BlockedByFile(p) /\ UNCHANGED <<held, dirs, temps>> /\ Restored(u, p, TRUE)
    BY <1>1, <1>3, <1>5, <1>6, <1>8, PathRestored
<1>9. CASE s = "dir" /\ ~BlockedByFile(p) /\ PutBackDirectory(p) /\ Restored(u, p, FALSE)
    <2>1. /\ held' = [held EXCEPT ![p] = None]
          /\ dirs' = IF held[p] # None THEN dirs ELSE dirs \cup Above(p) \cup {p}
          /\ temps' = temps
        BY <1>9 DEF PutBackDirectory
    <2>2. IsTree(held', dirs')
        <3>1. CASE held[p] # None
            <4>1. /\ held' \in [FilePaths -> TreeContents]
                  /\ \A q \in FilePaths : held'[q] \in {None, held[q]}
                BY <1>5, <1>6, <2>1 DEF IsTree
            <4> QED
                BY <1>6, <2>1, <3>1, <4>1, TreeCleared
        <3>2. CASE held[p] = None
            <4>1. held' = held
                BY <1>5, <1>6, <2>1, <3>2 DEF IsTree
            <4> QED
                BY <1>5, <1>6, <1>9, <2>1, <3>2, <4>1, TreeWithDirectory DEF BlockedByFile
        <3> QED
            BY <3>1, <3>2
    <2>3. /\ \A q \in FilePaths : held'[q] = held[q] \/ q = p
          /\ dirs \subseteq dirs' /\ \A e \in dirs' : e \in dirs \/ e = p \/ e \in Above(p)
        BY <1>6, <2>1
    <2> QED
        BY <1>1, <1>3, <1>5, <1>6, <1>9, <2>1, <2>2, <2>3, PathRestored
<1>10. CASE s \notin {None, "dir"} /\ ~BlockedByFile(p) /\ PutBackFile(p, s) /\ Restored(u, p, FALSE)
    <2>1. /\ held' = [q \in FilePaths |-> IF q = p THEN s
                                          ELSE IF Below(p, q) THEN None ELSE held[q]]
          /\ dirs' = {e \in dirs : e # p /\ ~Below(p, e)} \cup Above(p)
          /\ temps' = {f \in temps : f[1] # p /\ ~Below(p, f[1])}
        BY <1>10 DEF PutBackFile
    <2>2. IsTree(held', dirs')
        BY <1>5, <1>6, <1>10, <2>1, TreePut DEF BlockedByFile
    <2>3. /\ held'[p] = s
          /\ \A q \in FilePaths :
                held'[q] = held[q] \/ q = p \/ (Below(p, q) /\ held'[q] = None)
          /\ \A e \in dirs : e \in dirs' \/ e = p \/ Below(p, e)
          /\ \A e \in dirs' : e \in dirs \/ e \in Above(p)
          /\ temps' \subseteq temps /\ \A f \in temps' : f[1] \in dirs => f[1] \in dirs'
        BY <1>5, <2>1
    <2> QED
        BY <1>1, <1>3, <1>5, <1>10, <2>2, <2>3, PathRestored
<1> QED
    BY <1>4, <1>7, <1>8, <1>9, <1>10

LEMMA BeginSweepKeeps ==
    ASSUME TreeInv, NEW u \in Transactions, BeginSweep(u)
    PROVE  TreeInv'
<1>1. /\ tx[u].at = "restore" /\ tx[u].todo = {}
      /\ held' = held /\ dirs' = dirs /\ temps' = temps /\ crossed' = crossed
      /\ tx' = [tx EXCEPT ![u].at = "sweep", ![u].todo = tx[u].made]
    BY DEF BeginSweep
<1>2. PICK x, y : x = tx[u] /\ y = tx'[u]
    OBVIOUS
<1>3. /\ TransactionTyped(x) /\ DOMAIN tx = Transactions
      /\ DOMAIN x = {"at", "ops", "n", "saved", "made", "todo", "left", "was"}
    BY <1>2, FieldsOf
<1>4. /\ DOMAIN y = DOMAIN x /\ y.at = "sweep" /\ y.ops = x.ops /\ y.n = x.n
      /\ y.saved = x.saved /\ y.todo = x.made
      /\ y.made = x.made /\ y.left = x.left /\ y.was = x.was
    BY <1>1, <1>2, <1>3
<1>5. OnlyMoves(u)
    BY <1>1, <1>3 DEF OnlyMoves
<1>6. Spares(u)
    BY <1>1, <1>2, <1>4 DEF Spares
<1>7. TransactionTyped(y)
    <2>1. y.left \in BOOLEAN
        BY <1>3, <1>4 DEF TransactionTyped
    <2>2. y.at \in TreeSteps
        BY <1>4 DEF TreeSteps
    <2>3. /\ x.ops \in Seq(TreeOperation) /\ x.n \in Nat /\ x.n # 0 /\ NoConflict(x.ops)
          /\ \A q \in DOMAIN x.saved : x.saved[q] \in TreeContents \cup {"dir"}
          /\ DOMAIN x.was = {"held", "dirs"} /\ IsTree(x.was.held, x.was.dirs)
          /\ \A q \in Touches(x.ops) : q \notin x.was.dirs
          /\ DOMAIN x.saved = Touches(x.ops) /\ x.made \subseteq TreePaths
        BY <1>1, <1>2, <1>3 DEF TransactionTyped
    <2> QED
        BY <1>3, <1>4, <2>1, <2>2, <2>3 DEF TransactionTyped
<1>8. TempsFit'
    <2>1. \A f \in temps : f[2] # u
        BY <1>1, NoTempOf
    <2> QED
        BY <1>1, <1>5, <2>1, TempsLeft
<1>9. ASSUME ApartFrom(u)' PROVE Kept(u, y)'
    <2>1. ApartFrom(u)
        BY <1>2, <1>4, <1>5, <1>9 DEF ApartFrom, OnlyMoves, Below
    <2>2. Kept(u, x)
        BY <1>2, <2>1 DEF TreeInv, KeptFits
    <2>3. /\ \A q \in Touches(x.ops) : x.saved[q] = x.was.held[q]
          /\ \A q \in Touches(x.ops) :
                x.was.held[q] # None => \A d \in Above(q) \cap FilePaths : held[d] = None
          /\ \A q \in Touches(x.ops) : held[q] = x.saved[q]
        BY <1>1, <1>2, <2>2 DEF Kept
    <2> QED
        BY <1>1, <1>4, <2>3 DEF Kept, Committed
<1>10. ASSUME u \notin crossed PROVE Alone(y)' /\ ParentsKnown(u)'
    <2>1. Alone(x)
        BY <1>1, <1>2, <1>10 DEF TreeInv, AloneFits, Active
    <2>2. /\ \A q \in FilePaths \ Touches(x.ops) : held[q] = x.was.held[q]
          /\ x.was.dirs \subseteq dirs /\ dirs \subseteq x.was.dirs \cup x.made
          /\ x.made \cap x.was.dirs = {}
          /\ \A q \in Touches(x.ops) : held[q] = x.was.held[q]
        BY <1>1, <1>2, <2>1 DEF Alone
    <2>3. held = x.was.held
        <3>1. held \in [FilePaths -> TreeContents] /\ x.was.held \in [FilePaths -> TreeContents]
            BY <1>3 DEF TreeInv, TransactionTyped, IsTree
        <3>2. \A q \in FilePaths : held[q] = x.was.held[q]
            BY <2>2
        <3> QED
            BY <3>1, <3>2
    <2>4. ~y.left
        <3>1. ~x.left
            BY <2>1 DEF Alone
        <3> QED
            BY <1>4, <3>1
    <2>5. Alone(y)'
        BY <1>1, <1>4, <2>2, <2>3, <2>4 DEF Alone, Committed
    <2> QED
        BY <1>2, <1>4, <2>5 DEF ParentsKnown
<1>11. IsTree(held, dirs)'
    BY <1>1 DEF TreeInv
<1>12. Active(u)
    BY <1>1 DEF Active
<1> QED
    BY <1>1, <1>2, <1>4, <1>5, <1>6, <1>7, <1>8, <1>9, <1>10, <1>11, <1>12, StepKeeps

LEMMA SweepKeeps ==
    ASSUME TreeInv, NEW u \in Transactions, Sweep(u)
    PROVE  TreeInv'
<1>1. tx[u].at = "sweep" /\ held' = held /\ temps' = temps /\ crossed' = crossed
    BY DEF Sweep
<1>2. PICK d \in Deepest(tx[u].todo) :
          /\ dirs' = IF Holds(d) THEN dirs ELSE dirs \ {d}
          /\ Restored(u, d, d \in dirs /\ Holds(d))
    BY DEF Sweep
<1>3. PICK x, y : x = tx[u] /\ y = tx'[u]
    OBVIOUS
<1>4. /\ TransactionTyped(x) /\ DOMAIN tx = Transactions
      /\ DOMAIN x = {"at", "ops", "n", "saved", "made", "todo", "left", "was"}
    BY <1>3, FieldsOf
<1>5. PICK stays \in BOOLEAN : stays = (d \in dirs /\ Holds(d))
    OBVIOUS
<1>6. tx' = [tx EXCEPT ![u].todo = x.todo \ {d}, ![u].left = x.left \/ stays]
    BY <1>2, <1>3, <1>5 DEF Restored
<1>7. /\ DOMAIN y = DOMAIN x /\ y.at = "sweep" /\ y.ops = x.ops /\ y.n = x.n
      /\ y.saved = x.saved /\ y.todo = x.todo \ {d}
      /\ y.made = x.made /\ y.was = x.was
    BY <1>1, <1>3, <1>4, <1>6
<1>8. x.left \in BOOLEAN /\ (y.left <=> x.left \/ stays) /\ y.left \in BOOLEAN
    <2>1. x.left \in BOOLEAN
        BY <1>4 DEF TransactionTyped
    <2>2. tx' = [tx EXCEPT ![u] = [x EXCEPT !.todo = x.todo \ {d}, !.left = x.left \/ stays]]
        BY <1>3, <1>6
    <2>3. y = [x EXCEPT !.todo = x.todo \ {d}, !.left = x.left \/ stays]
        BY <1>3, <1>4, <2>2
    <2>4. y.left = (x.left \/ stays)
        BY <1>4, <2>3
    <2> QED
        BY <2>1, <2>4
<1>9. OnlyMoves(u)
    BY <1>4, <1>6 DEF OnlyMoves
<1>10. Spares(u)
    BY <1>1, <1>2, <1>3, <1>7 DEF Spares
<1>11. /\ x.ops \in Seq(TreeOperation) /\ x.n \in Nat /\ x.n # 0 /\ NoConflict(x.ops)
       /\ \A q \in DOMAIN x.saved : x.saved[q] \in TreeContents \cup {"dir"}
       /\ DOMAIN x.was = {"held", "dirs"} /\ IsTree(x.was.held, x.was.dirs)
       /\ \A q \in Touches(x.ops) : q \notin x.was.dirs
       /\ DOMAIN x.saved = Touches(x.ops) /\ x.made \subseteq TreePaths
       /\ x.todo \subseteq x.made
    BY <1>1, <1>3, <1>4 DEF TransactionTyped
<1>12. TransactionTyped(y)
    <2>1. y.at \in TreeSteps
        BY <1>7 DEF TreeSteps
    <2>2. y.todo \subseteq y.made
        BY <1>7, <1>11
    <2> QED
        BY <1>4, <1>7, <1>8, <1>11, <2>1, <2>2 DEF TransactionTyped
<1>13. d \in x.todo /\ d \in TreePaths /\ \A e \in x.todo : Len(e) <= Len(d)
    BY <1>2, <1>3, <1>11 DEF Deepest
<1>14. TempsFit'
    <2>1. \A f \in temps : f[2] # u
        BY <1>1, NoTempOf
    <2>2. \A f \in temps : f[1] \in dirs => f[1] \in dirs'
        BY <1>2 DEF Holds
    <2> QED
        BY <1>1, <1>9, <2>1, <2>2, TempsLeft
<1>15. IsTree(held, dirs)'
    <2>1. CASE Holds(d)
        BY <1>1, <1>2, <2>1 DEF TreeInv
    <2>2. CASE ~Holds(d)
        <3>1. /\ \A p \in FilePaths : held[p] # None => Front(p) # d
              /\ \A e \in dirs : Front(e) # d
            BY <2>2 DEF Holds
        <3> QED
            BY <1>1, <1>2, <2>2, <3>1, TreeSwept DEF TreeInv
    <2> QED
        BY <2>1, <2>2
<1>16. ASSUME ApartFrom(u)' PROVE Kept(u, y)'
    <2>1. ApartFrom(u)
        BY <1>3, <1>7, <1>9, <1>16 DEF ApartFrom, OnlyMoves, Below
    <2>2. Kept(u, x)
        BY <1>3, <2>1 DEF TreeInv, KeptFits
    <2>3. /\ \A q \in Touches(x.ops) : x.saved[q] = x.was.held[q]
          /\ \A q \in Touches(x.ops) :
                x.was.held[q] # None => \A e \in Above(q) \cap FilePaths : held[e] = None
          /\ \A q \in Touches(x.ops) : held[q] = x.saved[q]
        BY <1>1, <1>3, <2>2 DEF Kept
    <2> QED
        BY <1>1, <1>7, <2>3 DEF Kept, Committed
<1>17. ASSUME u \notin crossed PROVE Alone(y)' /\ ParentsKnown(u)'
    <2>1. Alone(x)
        BY <1>1, <1>3, <1>17 DEF TreeInv, AloneFits, Active
    <2>2. /\ held = x.was.held
          /\ x.was.dirs \subseteq dirs /\ dirs \subseteq x.was.dirs \cup x.todo
          /\ x.todo \cap x.was.dirs = {}
        BY <1>1, <1>3, <2>1 DEF Alone
    <2>3. d \notin x.was.dirs
        BY <1>13, <2>2
    <2>4. ASSUME NEW p \in TreePaths, Above(p) \subseteq x.was.dirs PROVE Front(p) # d
        <3>1. d # Root
            BY <1>13 DEF TreePaths
        <3> QED
            BY <2>3, <2>4, <3>1, FrontIs
    <2>5. ~Holds(d)
        <3>1. \A p \in FilePaths : held[p] # None => Front(p) # d
            BY <1>11, <2>2, <2>4, FilePathsAre DEF IsTree
        <3>2. ASSUME NEW e \in dirs PROVE Front(e) # d
            <4>1. CASE e \in x.was.dirs
                BY <1>11, <2>4, <4>1 DEF IsTree
            <4>2. CASE e \in x.todo
                <5>1. e \in TreePaths /\ e \in Seq(STRING) /\ d \in Seq(STRING) /\ Len(e) <= Len(d)
                    BY <1>11, <1>13, <4>2 DEF TreePaths
                <5>2. Len(Front(e)) < Len(e) /\ Len(e) \in Nat /\ Len(d) \in Nat
                    BY <5>1, FrontIs, LenProperties
                <5> QED
                    BY <5>1, <5>2
            <4> QED
                BY <2>2, <4>1, <4>2
        <3>3. ASSUME NEW f \in temps PROVE f[1] # d
            <4>1. PICK v : v = f[2]
                OBVIOUS
            <4>2. v \in Transactions /\ tx[v].at = "replace"
                BY <4>1 DEF TreeInv, TempsFit
            <4>3. v # u /\ Active(v) /\ Active(u)
                BY <1>1, <4>2 DEF Active
            <4> QED
                BY <1>17, <4>2, <4>3 DEF TreeInv, Crossing
        <3> QED
            BY <3>1, <3>2, <3>3 DEF Holds
    <2>6. dirs' = dirs \ {d} /\ ~stays
        BY <1>2, <1>5, <2>5
    <2>7. ~y.left
        <3>1. ~x.left
            BY <2>1 DEF Alone
        <3> QED
            BY <1>8, <2>6, <3>1
    <2>8. Alone(y)'
        BY <1>1, <1>7, <2>2, <2>3, <2>6, <2>7 DEF Alone, Committed
    <2> QED
        BY <1>3, <1>7, <2>8 DEF ParentsKnown
<1>18. Active(u)
    BY <1>1 DEF Active
<1> QED
    BY <1>1, <1>3, <1>7, <1>9, <1>10, <1>12, <1>14, <1>15, <1>16, <1>17, <1>18, StepKeeps

LEMMA EndSweepKeeps ==
    ASSUME TreeInv, NEW u \in Transactions, EndSweep(u)
    PROVE  /\ TreeInv'
           /\ u \notin crossed => held' = tx[u].was.held /\ dirs' = tx[u].was.dirs
<1>1. /\ tx[u].at = "sweep" /\ tx[u].todo = {}
      /\ held' = held /\ dirs' = dirs /\ temps' = temps /\ crossed' = crossed
      /\ GoTo(u, IF tx[u].left THEN "broken" ELSE "rolled_back")
    BY DEF EndSweep
<1>2. PICK x, y : x = tx[u] /\ y = tx'[u]
    OBVIOUS
<1>3. /\ TransactionTyped(x) /\ DOMAIN tx = Transactions
      /\ DOMAIN x = {"at", "ops", "n", "saved", "made", "todo", "left", "was"}
    BY <1>2, FieldsOf
<1>4. /\ DOMAIN y = DOMAIN x /\ y.at = IF x.left THEN "broken" ELSE "rolled_back"
      /\ y.ops = x.ops /\ y.n = x.n /\ y.saved = x.saved /\ y.todo = x.todo
      /\ y.made = x.made /\ y.left = x.left /\ y.was = x.was
    BY <1>1, <1>2, <1>3 DEF GoTo
<1>5. OnlyMoves(u)
    BY <1>1, <1>3 DEF OnlyMoves, GoTo
<1>6. Spares(u)
    BY <1>1, <1>2, <1>4 DEF Spares
<1>7. TransactionTyped(y)
    <2>1. y.left \in BOOLEAN
        BY <1>3, <1>4 DEF TransactionTyped
    <2>2. y.at \in {"broken", "rolled_back"} /\ y.at \in TreeSteps
        BY <1>4 DEF TreeSteps
    <2>3. /\ x.ops \in Seq(TreeOperation) /\ x.n \in Nat /\ x.n # 0 /\ NoConflict(x.ops)
          /\ \A q \in DOMAIN x.saved : x.saved[q] \in TreeContents \cup {"dir"}
          /\ DOMAIN x.was = {"held", "dirs"} /\ IsTree(x.was.held, x.was.dirs)
          /\ \A q \in Touches(x.ops) : q \notin x.was.dirs
          /\ DOMAIN x.saved = Touches(x.ops) /\ x.made \subseteq TreePaths
        BY <1>1, <1>2, <1>3 DEF TransactionTyped
    <2> QED
        BY <1>3, <1>4, <2>1, <2>2, <2>3 DEF TransactionTyped
<1>8. TempsFit'
    <2>1. \A f \in temps : f[2] # u
        BY <1>1, NoTempOf
    <2> QED
        BY <1>1, <1>5, <2>1, TempsLeft
<1>9. ASSUME ApartFrom(u)' PROVE Kept(u, y)'
    <2>1. ApartFrom(u)
        BY <1>2, <1>4, <1>5, <1>9 DEF ApartFrom, OnlyMoves, Below
    <2>2. Kept(u, x)
        BY <1>2, <2>1 DEF TreeInv, KeptFits
    <2>3. /\ \A q \in Touches(x.ops) : x.saved[q] = x.was.held[q]
          /\ \A q \in Touches(x.ops) :
                x.was.held[q] # None => \A e \in Above(q) \cap FilePaths : held[e] = None
          /\ \A q \in Touches(x.ops) : held[q] = x.saved[q]
        BY <1>1, <1>2, <2>2 DEF Kept
    <2>4. y.at \in {"broken", "rolled_back"}
        BY <1>4
    <2> QED
        BY <1>1, <1>4, <2>3, <2>4 DEF Kept, Committed
<1>10. u \notin crossed => Alone(x)
    BY <1>1, <1>2 DEF TreeInv, AloneFits, Active
<1>11. y.at = "broken" => u \in crossed
    <2>1. y.at = "broken" => x.left
        BY <1>4
    <2>2. Alone(x) => ~x.left
        BY DEF Alone
    <2> QED
        BY <1>10, <2>1, <2>2
<1>12. ~Active(u)'
    BY <1>2, <1>4 DEF Active
<1>13. IsTree(held, dirs)'
    BY <1>1 DEF TreeInv
<1>14. Active(u)
    BY <1>1 DEF Active
<1>15. TreeInv'
    BY <1>1, <1>2, <1>4, <1>5, <1>6, <1>7, <1>8, <1>9, <1>11, <1>12, <1>13, <1>14, StepKeeps
<1>16. Alone(x) => held = x.was.held /\ dirs = x.was.dirs
    BY <1>1, <1>2 DEF Alone
<1> QED
    BY <1>1, <1>2, <1>10, <1>15, <1>16

LEMMA TreeStep ==
    ASSUME TreeInv, [TreeNext]_treeVars
    PROVE  TreeInv'
<1>1. CASE UNCHANGED treeVars
    <2>1. UNCHANGED <<held, dirs, temps, tx, crossed>>
        BY <1>1 DEF treeVars
    <2>2. IsTree(held, dirs)' /\ TransactionsFit' /\ TempsFit'
        BY <2>1 DEF TreeInv, TransactionsFit, TempsFit, IsDir, Op
    <2>3. /\ \A t \in Transactions : ApartFrom(t)' <=> ApartFrom(t)
          /\ \A t \in Transactions : Kept(t, tx[t])' <=> Kept(t, tx[t])
        BY <2>1 DEF ApartFrom, Kept, IsDone, Below
    <2>4. KeptFits'
        BY <2>3 DEF TreeInv, KeptFits
    <2>5. \A t \in Transactions : /\ Active(t)' <=> Active(t)
                                  /\ ParentsKnown(t)' <=> ParentsKnown(t)
                                  /\ Alone(tx[t])' <=> Alone(tx[t])
        BY <2>1 DEF Active, ParentsKnown, Alone, Missing, Target, Op
    <2>6. Crossing' /\ AloneFits'
        BY <2>1, <2>5 DEF TreeInv, Crossing, AloneFits
    <2> QED
        BY <2>2, <2>4, <2>6 DEF TreeInv
<1>2. CASE TreeNext
    <2>1. PICK t \in Transactions :
             \/ BeginTransaction(t) \/ Save(t) \/ Refused(t) \/ Verify(t) \/ EnsureParent(t)
             \/ MakeParents(t) \/ WriteTemp(t) \/ Replace(t) \/ CommitOther(t) \/ Restore(t)
             \/ BeginSweep(t) \/ Sweep(t) \/ EndSweep(t)
        BY <1>2 DEF TreeNext
    <2>2. CASE Refused(t)
        BY <2>2, FailKeeps DEF Refused, Committing, Committed
    <2> QED
        BY <2>1, <2>2, TransactionBegins, TreeSaved, VerifyKeeps, EnsureParentKeeps, MakeParentsKeeps,
           WriteTempKeeps, ReplaceKeeps, CommitOtherKeeps, PathsRestored, BeginSweepKeeps,
           SweepKeeps, EndSweepKeeps
<1> QED
    BY <1>1, <1>2

LEMMA TreeInvHolds == TreeSpec => []TreeInv
<1> QED
    BY TreeStarts, TreeStep, PTL DEF TreeSpec

LEMMA TreeInvShows ==
    ASSUME TreeInv
    PROVE  TreeTypeOK /\ AppliedStays /\ RolledBackIsSaved /\ BrokenByAnother
<1>1. TreeTypeOK
    <2>1. DOMAIN held = FilePaths
        BY DEF TreeInv, IsTree
    <2>2. /\ \A p \in FilePaths : held[p] # None => p \notin dirs /\ Above(p) \subseteq dirs
          /\ \A d \in dirs : Above(d) \subseteq dirs
        BY DEF TreeInv, IsTree
    <2>3. \A f \in temps : IsDir(f[1]) /\ tx[f[2]].at = "replace"
        BY DEF TreeInv, TempsFit
    <2> QED
        BY <2>1, <2>2, <2>3 DEF TreeTypeOK
<1>2. ASSUME NEW t \in Transactions, tx[t].at \in {"applied", "rolled_back", "broken"}, Apart(t)
      PROVE  /\ DOMAIN tx[t].saved = Touches(tx[t].ops) /\ Kept(t, tx[t])
             /\ tx[t].ops \in Seq(TreeOperation)
    <2>1. DOMAIN tx[t].saved = Touches(tx[t].ops) /\ tx[t].ops \in Seq(TreeOperation)
        BY <1>2, FieldsOf DEF TransactionTyped
    <2>2. ApartFrom(t)
        BY <1>2, <2>1 DEF Apart, ApartFrom
    <2> QED
        BY <2>1, <2>2 DEF TreeInv, KeptFits
<1>3. ASSUME NEW t \in Transactions, tx[t].at = "applied", Apart(t),
             NEW i \in DOMAIN tx[t].ops
      PROVE  IsDone(t, tx[t].ops[i])
    <2>1. tx[t].n > Len(tx[t].ops) /\ tx[t].n \in Nat /\ tx[t].ops \in Seq(TreeOperation)
        BY <1>3, FieldsOf DEF TransactionTyped
    <2>2. i < tx[t].n
        BY <1>3, <2>1, LenProperties
    <2> QED
        BY <1>2, <1>3, <2>2 DEF Kept
<1>4. AppliedStays
    BY <1>3 DEF AppliedStays, IsDone
<1>5. RolledBackIsSaved
    <2>1. ASSUME NEW t \in Transactions, tx[t].at \in {"rolled_back", "broken"}, Apart(t)
          PROVE  \A p \in DOMAIN tx[t].saved : held[p] = tx[t].saved[p]
        BY <1>2, <2>1 DEF Kept
    <2> QED
        BY <2>1 DEF RolledBackIsSaved
<1>6. BrokenByAnother
    BY DEF BrokenByAnother, TreeInv, Crossing
<1> QED
    BY <1>1, <1>4, <1>5, <1>6

(* Only the end of a rollback makes a transaction rolled back.                   *)
LEMMA RollbacksEnd ==
    ASSUME TreeInv, NEW u \in Transactions,
           \/ BeginTransaction(u) \/ Save(u) \/ Refused(u) \/ Verify(u) \/ EnsureParent(u)
           \/ MakeParents(u) \/ WriteTemp(u) \/ Replace(u) \/ CommitOther(u) \/ Restore(u)
           \/ BeginSweep(u) \/ Sweep(u),
           NEW t \in Transactions, tx'[t].at = "rolled_back"
    PROVE  tx[t].at = "rolled_back"
<1>1. \A v \in Transactions : v \in DOMAIN tx /\ "at" \in DOMAIN tx[v]
    BY FieldsOf
<1>2. CASE Fail(u)
    BY <1>1, <1>2 DEF Fail
<1>3. CASE BeginTransaction(u)
    BY <1>1, <1>3 DEF BeginTransaction
<1>4. CASE Save(u)
    BY <1>1, <1>4 DEF Save
<1>5. CASE Verify(u)
    BY <1>1, <1>2, <1>5 DEF Verify, GoTo
<1>6. CASE EnsureParent(u)
    BY <1>1, <1>2, <1>6 DEF EnsureParent
<1>7. CASE MakeParents(u)
    BY <1>1, <1>2, <1>7 DEF MakeParents, GoTo
<1>8. CASE WriteTemp(u)
    BY <1>1, <1>2, <1>8 DEF WriteTemp, GoTo
<1>9. CASE Replace(u)
    BY <1>1, <1>2, <1>9 DEF Replace, NextOp
<1>10. CASE CommitOther(u)
    BY <1>1, <1>2, <1>10 DEF CommitOther, NextOp
<1>11. CASE Restore(u)
    <2>1. PICK p, left : Restored(u, p, left)
        BY <1>11 DEF Restore
    <2> QED
        BY <1>1, <2>1 DEF Restored
<1>12. CASE BeginSweep(u)
    BY <1>1, <1>12 DEF BeginSweep
<1>13. CASE Sweep(u)
    <2>1. PICK p, left : Restored(u, p, left)
        BY <1>13 DEF Sweep
    <2> QED
        BY <1>1, <2>1 DEF Restored
<1> QED
    BY <1>2, <1>3, <1>4, <1>5, <1>6, <1>7, <1>8, <1>9, <1>10, <1>11, <1>12, <1>13 DEF Refused

LEMMA AloneStep ==
    ASSUME TreeInv, [TreeNext]_treeVars, NEW t \in Transactions,
           tx'[t].at = "rolled_back", tx[t].at # "rolled_back", t \notin crossed
    PROVE  held' = tx[t].was.held /\ dirs' = tx[t].was.dirs
<1>1. TreeNext
    BY DEF treeVars
<1>2. PICK u \in Transactions :
             \/ BeginTransaction(u) \/ Save(u) \/ Refused(u) \/ Verify(u) \/ EnsureParent(u)
             \/ MakeParents(u) \/ WriteTemp(u) \/ Replace(u) \/ CommitOther(u) \/ Restore(u)
             \/ BeginSweep(u) \/ Sweep(u) \/ EndSweep(u)
    BY <1>1 DEF TreeNext
<1>3. EndSweep(u)
    BY <1>2, RollbacksEnd
<1>4. u = t
    BY <1>3, FieldsOf DEF EndSweep, GoTo
<1> QED
    BY <1>3, <1>4, EndSweepKeeps

\* Transactions in a directory tree: what is applied stays, what is rolled back is
\* as it was, and so is the whole tree when nothing ran beside.
THEOREM TreeIsRestoredAlways == TreeSpec => TreeIsRestored
<1>1. TreeInv => TreeTypeOK /\ AppliedStays /\ RolledBackIsSaved /\ BrokenByAnother
    BY TreeInvShows
<1>2. TreeInv /\ [TreeNext]_treeVars =>
         [\A t \in Transactions :
            tx'[t].at = "rolled_back" /\ tx[t].at # "rolled_back" /\ t \notin crossed =>
                held' = tx[t].was.held /\ dirs' = tx[t].was.dirs]_treeVars
    BY AloneStep
<1> QED
    BY <1>1, <1>2, TreeInvHolds, PTL DEF TreeSpec, TreeIsRestored, AloneLeavesNothing

\* Patches and backups put files back: the two parts together, as a run checks them.
THEOREM FilesAreRestoredAlways == TreeSpec /\ BackupSpec => FilesAreRestored
BY TreeIsRestoredAlways, BackupsAreWholeAlways, PTL DEF FilesAreRestored
================================================================================
