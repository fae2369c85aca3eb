--------------------- MODULE CodeBuilderService_proofs ---------------------
(***************************************************************************)
(* Proofs about the task service, for every number of tasks, threads,      *)
(* progress calls and restarts.                                            *)
(***************************************************************************)
EXTENDS CodeBuilderService, TLAPS

\* A thread that handles a request handles a task that exists: ids leave
\* the dictionary only by a restart, which ends every request.
HandlesExisting ==
    \A w \in Workers : pc[w] # "idle" =>
        cur[w] \in Tasks /\ task[cur[w]] # NoTask

TypeInv == TypeOK /\ HandlesExisting

LEMMA BuildTaskIsNotNoTask == NoTask \notin BuildTask
  <1>1. SUFFICES ASSUME NoTask \in BuildTask PROVE FALSE
    OBVIOUS
  <1>2. NoTask.status \in Status
    BY <1>1 DEF BuildTask
  <1>3. NoTask.status = "absent"
    BY DEF NoTask
  <1> QED
    BY <1>2, <1>3 DEF Status

\* transition() on an existing task keeps the dictionary well typed and
\* leaves the same ids in it.
LEMMA TransitionTyped ==
    ASSUME NEW t \in Tasks, NEW s \in Status,
           task \in [Tasks -> BuildTask \cup {NoTask}],
           task[t] # NoTask,
           Transition(t, s)
    PROVE  /\ task' \in [Tasks -> BuildTask \cup {NoTask}]
           /\ \A u \in Tasks : task[u] # NoTask => task'[u] # NoTask
  <1>1. task[t] \in BuildTask
    OBVIOUS
  <1>2. task' = [task EXCEPT ![t] = [task[t] EXCEPT !.status = s]]
    BY DEF Transition
  <1>3. [task[t] EXCEPT !.status = s] \in BuildTask
    BY <1>1 DEF BuildTask
  <1> QED
    BY <1>2, <1>3, BuildTaskIsNotNoTask

LEMMA NoPayloadTyped == NoPayload \in [Tasks -> BuildTask \cup {NoTask}]
  BY DEF NoPayload

\* A backup is one or the other: of nothing, of some files, or not made.
LEMMA BackupsTyped ==
    /\ NoBackup \in Backup /\ None \notin Backup /\ NoBackup # None
    /\ Backup \subseteq Execution /\ None \in Execution
  <1>1. NoBackup \in Backup
    BY DEF NoBackup, Backup
  <1>2. None \notin Backup
    <2>1. PICK f \in Files : TRUE
      BY FilesAssumption
    <2>2. None[f] = "none"
      BY DEF None
    <2>3. "none" \notin Content \cup {"untouched"}
      BY FilesAssumption DEF Content
    <2> QED
      BY <2>1, <2>2, <2>3 DEF Backup
  <1> QED
    BY <1>1, <1>2 DEF Execution

\* The repository and its history are well typed.
RepoTyped ==
    /\ repo \in [Files -> Content]
    /\ wrote \in [Tasks -> SUBSET Files]
    /\ last \in [Files -> Tasks \cup {Nobody}]
    /\ torn \subseteq Tasks /\ faults \in 0 .. MaxFaults

LEMMA WriteTyped ==
    ASSUME RepoTyped, NEW t \in Tasks, NEW written \in SUBSET Files, NEW content,
           \A f \in written : content[f] \in Content, Write(t, written, content)
    PROVE  /\ repo' \in [Files -> Content]
           /\ last' \in [Files -> Tasks \cup {Nobody}]
  BY DEF RepoTyped, Write

LEMMA FaultTyped ==
    ASSUME RepoTyped, Fault
    PROVE  faults' \in 0 .. MaxFaults
  BY BoundsAssumption DEF RepoTyped, Fault

\* A restore, whole or not, puts back contents that there were.
LEMMA RestoreTyped ==
    ASSUME RepoTyped, NEW t \in Tasks, NEW b \in Backup,
           RestoreWhole(t, b) \/ RestoreTorn(t, b)
    PROVE  RepoTyped'
  <1>1. \A f \in Backed(b) : b[f] \in Content
    BY DEF Backed, Backup
  <1>2. \E written \in SUBSET Backed(b) : Write(t, written, b)
    BY DEF RestoreWhole, RestoreTorn
  <1>3. /\ repo' \in [Files -> Content]
        /\ last' \in [Files -> Tasks \cup {Nobody}]
    <2>1. Backed(b) \subseteq Files
      BY DEF Backed
    <2> QED
      BY <1>1, <1>2, <2>1, WriteTyped
  <1>4. faults' \in 0 .. MaxFaults
    BY FaultTyped DEF RestoreWhole, RestoreTorn, RepoTyped
  <1>5. wrote' = wrote /\ torn' \subseteq Tasks
    BY DEF RestoreWhole, RestoreTorn, RepoTyped
  <1> QED
    BY <1>3, <1>4, <1>5 DEF RepoTyped

\* What an execution writes is the task's.
LEMMA ChangesTyped ==
    ASSUME RepoTyped, NEW t \in Tasks, NEW written \in SUBSET Files,
           Write(t, written, ChangesOf(t)),
           wrote' = [wrote EXCEPT ![t] = @ \cup written]
    PROVE  /\ repo' \in [Files -> Content]
           /\ last' \in [Files -> Tasks \cup {Nobody}]
           /\ wrote' \in [Tasks -> SUBSET Files]
  <1>1. \A f \in written : ChangesOf(t)[f] \in Content
    BY DEF ChangesOf, Content
  <1>2. /\ repo' \in [Files -> Content]
        /\ last' \in [Files -> Tasks \cup {Nobody}]
    BY <1>1, WriteTyped
  <1> QED
    BY <1>2 DEF RepoTyped

LEMMA ChangeSetsTyped == \A paths \in ChangeSets : paths \in SUBSET Files /\ paths # {}
  BY FilesAssumption

\* The initial state is well typed.
LEMMA InitTyped == Init => TypeInv
  BY NobodyAssumption, BoundsAssumption, BackupsTyped
  DEF Init, TypeInv, TypeOK, HandlesExisting, PC, Then, NoPayload, Content

USE DEF TypeInv, HandlesExisting, Goto, PersistThen, Serve

\* Every step keeps the variables well typed and every handled task alive.
LEMMA NextTyped == TypeInv /\ [Next]_vars => TypeInv'
  <1> SUFFICES ASSUME TypeInv, [Next]_vars
               PROVE  TypeInv'
    OBVIOUS
  <1> USE DEF TypeOK
  <1>0. RepoTyped /\ (UNCHANGED repoVars => RepoTyped')
    BY DEF RepoTyped, repoVars
  <1>1. CASE Restart
    BY <1>1, BoundsAssumption, BackupsTyped
    DEF Restart, PC, Then, NoPayload, repoVars
  <1>2. ASSUME NEW w \in Workers, NEW t \in Tasks, NEW request \in Requests,
               CreateTask(w, t, request)
        PROVE  TypeInv'
    <2>1. task'[t] \in BuildTask
      BY <1>2, BackupsTyped DEF CreateTask, BuildTask, Status
    <2>2. task' \in [Tasks -> BuildTask \cup {NoTask}]
      BY <1>2, <2>1 DEF CreateTask
    <2>3. \A u \in Tasks : task[u] # NoTask => task'[u] # NoTask
      BY <1>2 DEF CreateTask
    <2>4. task'[t] # NoTask
      BY <2>1, BuildTaskIsNotNoTask
    <2>5. HandlesExisting'
      BY <1>2, <2>3, <2>4 DEF CreateTask
    <2> QED
      BY <1>2, <2>2, <2>5 DEF CreateTask, PC, Then, repoVars
  <1>3. ASSUME NEW w \in Workers, NEW t \in Tasks,
               \/ RequestExecute(w, t) \/ RequestCancel(w, t)
               \/ RequestRollback(w, t)
        PROVE  TypeInv'
    <2>1. /\ pc' \in [Workers -> PC] /\ cur' = [cur EXCEPT ![w] = t]
          /\ \A v \in Workers : v # w => pc'[v] = pc[v]
      BY <1>3 DEF RequestExecute, RequestCancel, RequestRollback, PC
    <2>2. /\ task[t] # NoTask
          /\ UNCHANGED <<task, disk, lock, then, snap, report, rounds, unsaved,
                         repoVars, known, restarts>>
      BY <1>3 DEF RequestExecute, RequestCancel, RequestRollback
    <2> QED
      BY <2>1, <2>2 DEF repoVars
  <1>4. ASSUME NEW w \in Workers, Snapshot(w) \/ Store(w) \/ SaveFails(w)
        PROVE  TypeInv'
    <2>1. CASE Snapshot(w)
      BY <2>1 DEF Snapshot, PC, repoVars
    <2>2. CASE Store(w)
      <3>1. then[w] \in PC \ {"idle"}
        BY DEF Then, PC
      <3> QED
        BY <2>2, <3>1, NoPayloadTyped DEF Store, repoVars
    <2>3. CASE SaveFails(w)
      <3>1. faults' \in 0 .. MaxFaults
        BY <1>0, <2>3, FaultTyped DEF SaveFails
      <3>2. unsaved' \subseteq Tasks
        BY <2>3 DEF SaveFails
      <3> QED
        BY <2>3, <3>1, <3>2, NoPayloadTyped, BackupsTyped, BoundsAssumption
        DEF SaveFails, Leave, PC, Then
    <2> QED
      BY <1>4, <2>1, <2>2, <2>3
  <1>5. ASSUME NEW w \in Workers,
               \/ BeginPlan(w) \/ BeginExecute(w) \/ BeginComplete(w)
               \/ ApplyTorn(w) \/ ValidationFails(w) \/ ExecutionFails(w)
               \/ Cancel(w) \/ RollBack(w)
        PROVE  TypeInv'
    <2>1. PICK s \in Status : Transition(cur[w], s)
      BY <1>5 DEF BeginPlan, BeginExecute, BeginComplete, ApplyTorn, ValidationFails,
                  ExecutionFails, Cancel, RollBack, Status
    <2>2. cur[w] \in Tasks /\ task[cur[w]] # NoTask
      BY <1>5 DEF BeginPlan, BeginExecute, BeginComplete, ApplyTorn, ValidationFails,
                  ExecutionFails, Cancel, RollBack
    <2>3. /\ task' \in [Tasks -> BuildTask \cup {NoTask}]
          /\ \A u \in Tasks : task[u] # NoTask => task'[u] # NoTask
      BY <2>1, <2>2, TransitionTyped
    <2>4. RepoTyped'
      <3>1. CASE ValidationFails(w)
        BY <1>0, <2>2, <3>1, RestoreTyped DEF ValidationFails
      <3>2. CASE ApplyTorn(w)
        <4>1. PICK kept \in SUBSET Files :
                  /\ Write(cur[w], kept, ChangesOf(cur[w]))
                  /\ wrote' = [wrote EXCEPT ![cur[w]] = @ \cup kept]
          BY <3>2, ChangeSetsTyped DEF ApplyTorn
        <4>2. faults' \in 0 .. MaxFaults /\ torn' \subseteq Tasks
          BY <1>0, <2>2, <3>2, FaultTyped DEF ApplyTorn
        <4> QED
          BY <1>0, <2>2, <4>1, <4>2, ChangesTyped DEF RepoTyped
      <3>3. CASE ~ValidationFails(w) /\ ~ApplyTorn(w)
        <4>1. UNCHANGED repoVars
          BY <1>5, <3>3 DEF BeginPlan, BeginExecute, BeginComplete, ExecutionFails,
                            Cancel, RollBack
        <4> QED
          BY <1>0, <4>1
      <3> QED
        BY <3>1, <3>2, <3>3
    <2>5. snap' \in [Workers -> [Tasks -> BuildTask \cup {NoTask}]]
      BY <1>5, NoPayloadTyped
      DEF BeginPlan, BeginExecute, BeginComplete, ApplyTorn, ValidationFails,
          ExecutionFails, Cancel, RollBack
    <2>6. rounds' \in [Workers -> 0 .. MaxProgress]
      <3>1. rounds' = rounds \/ rounds' = [rounds EXCEPT ![w] = 0]
        BY <1>5
        DEF BeginPlan, BeginExecute, BeginComplete, ApplyTorn, ValidationFails,
            ExecutionFails, Cancel, RollBack
      <3> QED
        BY <3>1, BoundsAssumption
    <2>7. pc' \in [Workers -> PC] /\ then' \in [Workers -> Then]
      BY <1>5
      DEF BeginPlan, BeginExecute, BeginComplete, ApplyTorn, ValidationFails,
          ExecutionFails, Cancel, RollBack, PC, Then
    <2>8. \A v \in Workers : pc'[v] # "idle" => pc[v] # "idle"
      BY <1>5
      DEF BeginPlan, BeginExecute, BeginComplete, ApplyTorn, ValidationFails,
          ExecutionFails, Cancel, RollBack
    <2>9. UNCHANGED <<disk, lock, cur, report, unsaved, known, restarts>>
      BY <1>5
      DEF BeginPlan, BeginExecute, BeginComplete, ApplyTorn, ValidationFails,
          ExecutionFails, Cancel, RollBack
    <2> QED
      BY <2>3, <2>4, <2>5, <2>6, <2>7, <2>8, <2>9 DEF RepoTyped
  <1>6. ASSUME NEW w \in Workers, NEW planned \in BOOLEAN, EndPlan(w, planned)
        PROVE  TypeInv'
    <2>1. cur[w] \in Tasks /\ task[cur[w]] \in BuildTask
      BY <1>6 DEF EndPlan
    <2>2. task'[cur[w]] \in BuildTask
      BY <1>6, <2>1 DEF EndPlan, BuildTask, Status
    <2>3. /\ task' \in [Tasks -> BuildTask \cup {NoTask}]
          /\ \A u \in Tasks : task[u] # NoTask => task'[u] # NoTask
      BY <1>6, <2>1, <2>2, BuildTaskIsNotNoTask DEF EndPlan
    <2> QED
      BY <1>6, <2>3 DEF EndPlan, PC, Then, repoVars
  <1>7. ASSUME NEW w \in Workers, Complete(w)
        PROVE  TypeInv'
    <2>1. cur[w] \in Tasks /\ task[cur[w]] \in BuildTask
      BY <1>7 DEF Complete
    <2>2. task'[cur[w]] \in BuildTask
      BY <1>7, <2>1, BackupsTyped DEF Complete, BuildTask, Status
    <2>3. /\ task' \in [Tasks -> BuildTask \cup {NoTask}]
          /\ \A u \in Tasks : task[u] # NoTask => task'[u] # NoTask
      BY <1>7, <2>1, <2>2, BuildTaskIsNotNoTask DEF Complete
    <2> QED
      BY <1>7, <2>3 DEF Complete, PC, Then, repoVars
  <1>8. ASSUME NEW w \in Workers,
               \/ AutoExecute(w) \/ BeginProgress(w) \/ DumpProgress(w)
               \/ StoreProgress(w)
        PROVE  TypeInv'
    <2>1. CASE AutoExecute(w) \/ DumpProgress(w)
      BY <2>1 DEF AutoExecute, DumpProgress, PC, repoVars
    <2>2. CASE BeginProgress(w)
      BY <2>2, BoundsAssumption DEF BeginProgress, PC, repoVars
    <2>3. CASE StoreProgress(w)
      BY <2>3, NoPayloadTyped DEF StoreProgress, PC, repoVars
    <2> QED
      BY <1>8, <2>1, <2>2, <2>3
  <1>9. ASSUME NEW w \in Workers,
               \/ Apply(w) \/ PublishNothing(w) \/ Restore(w)
               \/ RestoreFails(w)
        PROVE  TypeInv'
    <2>1. CASE Apply(w)
      <3>1. PICK paths \in SUBSET Files :
                /\ report' = [report EXCEPT ![w] =
                               [f \in Files |-> IF f \in paths THEN repo[f]
                                                               ELSE "untouched"]]
                /\ Write(cur[w], paths, ChangesOf(cur[w]))
                /\ wrote' = [wrote EXCEPT ![cur[w]] = @ \cup paths]
        BY <2>1, ChangeSetsTyped DEF Apply
      <3>2. cur[w] \in Tasks
        BY <2>1 DEF Apply
      <3>3. RepoTyped'
        <4>1. torn' = torn /\ faults' = faults
          BY <2>1 DEF Apply
        <4> QED
          BY <1>0, <3>1, <3>2, <4>1, ChangesTyped DEF RepoTyped
      <3>4. report' \in [Workers -> Backup]
        <4>1. [f \in Files |-> IF f \in paths THEN repo[f] ELSE "untouched"] \in Backup
          BY DEF Backup
        <4> QED
          BY <3>1, <4>1
      <3> QED
        BY <2>1, <3>3, <3>4 DEF Apply, RepoTyped, PC
    <2>2. CASE PublishNothing(w)
      BY <2>2, BackupsTyped DEF PublishNothing, PC, repoVars
    <2>3. CASE Restore(w) \/ RestoreFails(w)
      <3>1. cur[w] \in Tasks /\ task[cur[w]] \in BuildTask
        BY <2>3 DEF Restore, RestoreFails
      <3>2. task[cur[w]].execution \notin {NoBackup, None} =>
                task[cur[w]].execution \in Backup
        BY <3>1 DEF BuildTask, Execution
      <3>3. RepoTyped'
        BY <1>0, <2>3, <3>1, <3>2, RestoreTyped DEF Restore, RestoreFails
      <3> QED
        BY <2>3, <3>3 DEF Restore, RestoreFails, RepoTyped, PC
    <2> QED
      BY <1>9, <2>1, <2>2, <2>3
  <1>10. ASSUME NEW w \in Workers, Reply(w)
         PROVE  TypeInv'
    BY <1>10, BoundsAssumption, BackupsTyped DEF Reply, Leave, PC, Then, repoVars
  <1>11. CASE UNCHANGED vars
    BY <1>11 DEF vars, repoVars
  <1> QED
    BY <1>1, <1>2, <1>3, <1>4, <1>5, <1>6, <1>7, <1>8, <1>9, <1>10, <1>11
    DEF Next, Arrival, Handler

\* Type correctness of the task service.
THEOREM TypeCorrect == Spec => []TypeOK
  <1>1. TypeInv => TypeOK
    OBVIOUS
  <1> QED
    BY InitTyped, NextTyped, <1>1, PTL DEF Spec

HIDE DEF TypeInv, HandlesExisting

----------------------------------------------------------------------------
(* What two kinds of steps leave alone.                                    *)

\* The steps that change a task and then owe a save.
Mutation(w) ==
    \/ BeginPlan(w) \/ (\E planned \in BOOLEAN : EndPlan(w, planned))
    \/ BeginExecute(w) \/ BeginComplete(w) \/ Complete(w) \/ ApplyTorn(w)
    \/ ValidationFails(w) \/ ExecutionFails(w) \/ Cancel(w) \/ RollBack(w)

LEMMA MutationFrame ==
    ASSUME TypeOK, NEW w \in Workers, Mutation(w)
    PROVE  /\ pc[w] \notin {"idle", "save", "store"}
           /\ pc'[w] \in {"planning", "save", "validated"}
           /\ UNCHANGED <<disk, lock, cur, unsaved>>
           /\ \A v \in Workers : v # w => pc'[v] = pc[v] /\ snap'[v] = snap[v]
           /\ \A t \in Tasks : t # cur[w] => task'[t] = task[t]
  <1> USE DEF TypeOK, Transition
  <1>1. CASE BeginPlan(w)
    BY <1>1 DEF BeginPlan
  <1>2. ASSUME NEW planned \in BOOLEAN, EndPlan(w, planned)
        PROVE  /\ pc[w] = "planning" /\ pc'[w] = "save"
               /\ UNCHANGED <<disk, lock, cur, snap, unsaved>>
               /\ \A v \in Workers : v # w => pc'[v] = pc[v]
               /\ \A t \in Tasks : t # cur[w] => task'[t] = task[t]
    BY <1>2 DEF EndPlan
  <1>3. CASE BeginExecute(w)
    BY <1>3 DEF BeginExecute
  <1>4. CASE BeginComplete(w)
    BY <1>4 DEF BeginComplete
  <1>5. CASE Complete(w)
    BY <1>5 DEF Complete
  <1>6. CASE ValidationFails(w)
    BY <1>6 DEF ValidationFails
  <1>7. CASE ExecutionFails(w)
    BY <1>7 DEF ExecutionFails
  <1>8. CASE Cancel(w)
    BY <1>8 DEF Cancel
  <1>9. CASE RollBack(w)
    BY <1>9 DEF RollBack
  <1>10. CASE ApplyTorn(w)
    BY <1>10 DEF ApplyTorn
  <1> QED
    BY <1>1, <1>2, <1>3, <1>4, <1>5, <1>6, <1>7, <1>8, <1>9, <1>10 DEF Mutation

\* The steps that change neither a task nor a payload, and owe nothing.
Quiet(w) ==
    \/ \E t \in Tasks : \/ RequestExecute(w, t) \/ RequestCancel(w, t)
                        \/ RequestRollback(w, t)
    \/ AutoExecute(w) \/ Restore(w) \/ RestoreFails(w) \/ Reply(w)

LEMMA QuietFrame ==
    ASSUME TypeOK, NEW w \in Workers, Quiet(w)
    PROVE  /\ pc[w] \in {"idle", "auto", "restore", "reply"}
           /\ pc'[w] \in {"idle", "approved", "cancel", "restore",
                          "restored", "reply"}
           /\ UNCHANGED <<task, disk, lock, snap, unsaved>>
           /\ \A v \in Workers : v # w => pc'[v] = pc[v] /\ cur'[v] = cur[v]
  <1> USE DEF TypeOK
  <1>1. ASSUME NEW t \in Tasks,
               \/ RequestExecute(w, t) \/ RequestCancel(w, t)
               \/ RequestRollback(w, t)
        PROVE  /\ pc[w] = "idle"
               /\ pc'[w] \in {"approved", "cancel", "restore"}
               /\ UNCHANGED <<task, disk, lock, snap, unsaved>>
               /\ \A v \in Workers : v # w => pc'[v] = pc[v] /\ cur'[v] = cur[v]
    BY <1>1 DEF RequestExecute, RequestCancel, RequestRollback
  <1>2. CASE AutoExecute(w)
    BY <1>2 DEF AutoExecute
  <1>3. CASE Restore(w)
    BY <1>3 DEF Restore
  <1>4. CASE RestoreFails(w)
    BY <1>4 DEF RestoreFails
  <1>5. CASE Reply(w)
    BY <1>5 DEF Reply, Leave
  <1> QED
    BY <1>1, <1>2, <1>3, <1>4, <1>5 DEF Quiet

----------------------------------------------------------------------------
(* Quiescent durability.                                                   *)

(***************************************************************************)
(* A thread that owes a save: it has changed its task since its last       *)
(* payload, or it executes and may put an old payload in place, and in     *)
(* both cases it cannot end before it took a fresh one and stored it or    *)
(* raised.                                                                 *)
(***************************************************************************)
OwesSave(w) == pc[w] \in {"planning", "save", "run", "dumping", "progress",
                          "applied", "validated"}

Saved ==
    /\ disk = task \/ unsaved # {} \/ \E w \in Workers : pc[w] = "store"
    /\ \A w \in Workers : pc[w] = "store" => snap[w] = task

\* The thread at `store' holds the service's lock, so there is only one.
LockHeld == \A w \in Workers : pc[w] = "store" => lock = w

DurableInv ==
    /\ LockHeld
    /\ (\A w \in Workers : ~OwesSave(w)) => Saved

\* Every step keeps the file up to date or leaves a thread that owes a save.
LEMMA NextDurable == TypeInv /\ DurableInv /\ [Next]_vars => DurableInv'
  <1> SUFFICES ASSUME TypeInv, DurableInv, [Next]_vars
               PROVE  DurableInv'
    OBVIOUS
  <1>0. TypeOK
    BY DEF TypeInv
  <1> USE NobodyAssumption DEF DurableInv, LockHeld, OwesSave, Saved
  <1>1. CASE Restart
    BY <1>1 DEF Restart
  <1>2. ASSUME NEW w \in Workers, NEW t \in Tasks, NEW request \in Requests,
               CreateTask(w, t, request)
        PROVE  DurableInv'
    BY <1>0, <1>2 DEF CreateTask, TypeOK
  <1>3. ASSUME NEW w \in Workers, Quiet(w)
        PROVE  DurableInv'
    BY <1>0, <1>3, QuietFrame
  <1>4. ASSUME NEW w \in Workers, Snapshot(w)
        PROVE  DurableInv'
    BY <1>0, <1>4 DEF Snapshot, TypeOK
  <1>5. ASSUME NEW w \in Workers, Store(w)
        PROVE  DurableInv'
    BY <1>0, <1>5 DEF Store, Then, TypeOK
  <1>6. ASSUME NEW w \in Workers, Mutation(w)
        PROVE  DurableInv'
    BY <1>0, <1>6, MutationFrame
  <1>7. ASSUME NEW w \in Workers,
               \/ BeginProgress(w) \/ DumpProgress(w) \/ StoreProgress(w)
               \/ Apply(w) \/ PublishNothing(w)
        PROVE  DurableInv'
    <2>1. pc'[w] \in {"run", "dumping", "progress", "applied"}
      BY <1>0, <1>7 DEF BeginProgress, DumpProgress, StoreProgress, Apply,
                        PublishNothing, TypeOK
    <2>2. /\ lock' = lock
          /\ \A v \in Workers : v # w => pc'[v] = pc[v]
      BY <1>0, <1>7 DEF BeginProgress, DumpProgress, StoreProgress, Apply,
                        PublishNothing, TypeOK
    <2> QED
      BY <2>1, <2>2
  <1>8. ASSUME NEW w \in Workers, SaveFails(w)
        PROVE  DurableInv'
    BY <1>0, <1>8 DEF SaveFails, Leave, TypeOK
  <1>9. CASE UNCHANGED vars
    BY <1>9 DEF vars
  <1> QED
    BY <1>1, <1>2, <1>3, <1>4, <1>5, <1>6, <1>7, <1>8, <1>9
    DEF Next, Arrival, Handler, Mutation, Quiet

\* When no request is being handled and the last save did not raise, tasks.json
\* is what the service has in memory: for any number of tasks, threads, restarts and stale payloads.
THEOREM QuiescentDurability == Spec => []QuiescentDurable
  <1>1. Init => DurableInv
    BY DEF Init, DurableInv, LockHeld, OwesSave, Saved
  <1>2. DurableInv => QuiescentDurable
    BY DEF DurableInv, OwesSave, Saved, QuiescentDurable
  <1> QED
    BY InitTyped, NextTyped, <1>1, NextDurable, <1>2, PTL DEF Spec

----------------------------------------------------------------------------
(* Durability of answered requests, when no task is autonomous.            *)

\* Without progress_persist, only a thread that changed t owes t a save.
OwesSaveOf(w, t) == cur[w] = t /\ pc[w] \in {"planning", "save", "validated"}

SavedTask(t) ==
    /\ \/ disk[t] = task[t] \/ t \in unsaved
       \/ \E w \in Workers : pc[w] = "store" /\ cur[w] = t
    /\ \A w \in Workers : pc[w] = "store" => snap[w][t] = task[t]

AckedInv ==
    /\ LockHeld
    /\ \A w \in Workers : pc[w] \notin {"dumping", "progress"}
    /\ \A t \in Tasks :
          (\A w \in Workers : ~OwesSaveOf(w, t)) => SavedTask(t)

\* Every step keeps each task's entry up to date, or leaves a thread that
\* handles the task and owes it a save.
LEMMA NextAcked ==
    ASSUME \A r \in Requests : ~r.autonomous
    PROVE  TypeInv /\ AckedInv /\ [Next]_vars => AckedInv'
  <1> SUFFICES ASSUME TypeInv, AckedInv, [Next]_vars
               PROVE  AckedInv'
    OBVIOUS
  <1>0. \A w \in Workers : pc[w] # "idle" => ~Autonomous(w)
    BY DEF Autonomous, BuildTask, TypeInv, TypeOK, HandlesExisting
  <1>00. TypeOK
    BY DEF TypeInv
  <1> USE NobodyAssumption DEF AckedInv, LockHeld, OwesSaveOf, SavedTask
  <1>1. CASE Restart
    BY <1>1 DEF Restart
  <1>2. ASSUME NEW w \in Workers, NEW t \in Tasks, NEW request \in Requests,
               CreateTask(w, t, request)
        PROVE  AckedInv'
    <2>1. /\ pc[w] = "idle" /\ lock = Nobody
          /\ pc'[w] = "store" /\ cur'[w] = t /\ lock' = w
          /\ disk' = disk /\ snap'[w] = task' /\ unsaved' = unsaved
          /\ \A u \in Tasks : u # t => task'[u] = task[u]
          /\ \A v \in Workers : v # w =>
                pc'[v] = pc[v] /\ cur'[v] = cur[v] /\ pc[v] # "store"
      BY <1>00, <1>2 DEF CreateTask, TypeOK
    <2>2. ASSUME NEW u \in Tasks, \A v \in Workers : ~OwesSaveOf(v, u)'
          PROVE  SavedTask(u)'
      <3>1. CASE u = t
        BY <2>1, <3>1
      <3>2. CASE u # t
        <4>1. \A v \in Workers : ~OwesSaveOf(v, u)
          BY <2>1, <2>2
        <4>2. disk[u] = task[u] \/ u \in unsaved
          BY <2>1, <4>1
        <4> QED
          BY <2>1, <3>2, <4>2
      <3> QED
        BY <3>1, <3>2
    <2> QED
      BY <2>1, <2>2
  <1>3. ASSUME NEW w \in Workers, Quiet(w)
        PROVE  AckedInv'
    <2>1. ASSUME NEW t \in Tasks, \A v \in Workers : ~OwesSaveOf(v, t)'
          PROVE  SavedTask(t)'
      <3>1. \A v \in Workers : ~OwesSaveOf(v, t)
        BY <1>3, <2>1, <1>00, QuietFrame
      <3>2. SavedTask(t)
        BY <3>1
      <3> QED
        BY <1>3, <3>2, <1>00, QuietFrame
    <2> QED
      BY <1>3, <2>1, <1>00, QuietFrame
  <1>4. ASSUME NEW w \in Workers, Snapshot(w)
        PROVE  AckedInv'
    <2>1. /\ pc[w] = "save" /\ lock = Nobody
          /\ pc'[w] = "store" /\ lock' = w /\ snap'[w] = task
          /\ UNCHANGED <<task, disk, cur, unsaved>>
          /\ \A v \in Workers : v # w => pc'[v] = pc[v] /\ pc[v] # "store"
      BY <1>00, <1>4 DEF Snapshot, TypeOK
    <2>2. ASSUME NEW t \in Tasks, \A v \in Workers : ~OwesSaveOf(v, t)'
          PROVE  SavedTask(t)'
      <3>1. CASE cur[w] = t
        BY <2>1, <3>1
      <3>2. CASE cur[w] # t
        <4>1. \A v \in Workers : ~OwesSaveOf(v, t)
          BY <2>1, <2>2, <3>2
        <4>2. disk[t] = task[t] \/ t \in unsaved
          BY <2>1, <4>1
        <4> QED
          BY <2>1, <4>2
      <3> QED
        BY <3>1, <3>2
    <2> QED
      BY <2>1, <2>2
  <1>5. ASSUME NEW w \in Workers, Store(w)
        PROVE  AckedInv'
    <2>1. /\ pc[w] = "store" /\ lock = w
          /\ pc'[w] \in {"plan", "auto", "run", "reply"}
          /\ disk' = snap[w]
          /\ UNCHANGED <<task, cur>>
          /\ \A v \in Workers : v # w => /\ pc'[v] = pc[v]
                                         /\ pc[v] # "store"
      BY <1>00, <1>5 DEF Store, Then, TypeOK
    <2>2. ASSUME NEW t \in Tasks, \A v \in Workers : ~OwesSaveOf(v, t)'
          PROVE  SavedTask(t)'
      <3>1. \A v \in Workers : ~OwesSaveOf(v, t)
        BY <2>1, <2>2
      <3>2. snap[w][t] = task[t]
        BY <2>1, <3>1
      <3> QED
        BY <2>1, <3>2
    <2> QED
      BY <2>1, <2>2
  <1>6. ASSUME NEW w \in Workers, Mutation(w)
        PROVE  AckedInv'
    <2>1. ASSUME NEW t \in Tasks, \A v \in Workers : ~OwesSaveOf(v, t)'
          PROVE  SavedTask(t)'
      <3>1. t # cur[w]
        BY <1>6, <2>1, <1>00, MutationFrame
      <3>2. \A v \in Workers : ~OwesSaveOf(v, t)
        BY <1>6, <2>1, <3>1, <1>00, MutationFrame
      <3>3. SavedTask(t)
        BY <3>2
      <3> QED
        BY <1>6, <3>1, <3>3, <1>00, MutationFrame
    <2> QED
      BY <1>6, <2>1, <1>00, MutationFrame
  <1>7. ASSUME NEW w \in Workers,
               \/ BeginProgress(w) \/ DumpProgress(w) \/ StoreProgress(w)
               \/ PublishNothing(w)
        PROVE  AckedInv'
    BY <1>0, <1>7, <1>00 DEF TypeOK, BeginProgress, DumpProgress, StoreProgress, PublishNothing
  <1>8. ASSUME NEW w \in Workers, Apply(w)
        PROVE  AckedInv'
    <2>1. /\ pc[w] = "run" /\ pc'[w] = "applied"
          /\ UNCHANGED <<task, disk, lock, snap, cur, unsaved>>
          /\ \A v \in Workers : v # w => pc'[v] = pc[v]
      BY <1>00, <1>8 DEF Apply, TypeOK
    <2> QED
      BY <2>1
  <1>9. ASSUME NEW w \in Workers, SaveFails(w)
        PROVE  AckedInv'
    <2>1. /\ pc[w] = "store" /\ lock = w /\ pc'[w] = "idle"
          /\ UNCHANGED <<task, disk>> /\ unsaved' = unsaved \cup {cur[w]}
          /\ \A v \in Workers : v # w => /\ pc'[v] = pc[v] /\ cur'[v] = cur[v]
                                         /\ pc[v] # "store"
      BY <1>00, <1>9 DEF SaveFails, Leave, TypeOK
    <2>2. ASSUME NEW t \in Tasks, \A v \in Workers : ~OwesSaveOf(v, t)'
          PROVE  SavedTask(t)'
      <3>1. \A v \in Workers : ~OwesSaveOf(v, t)
        BY <2>1, <2>2
      <3>2. disk[t] = task[t] \/ t \in unsaved \/ cur[w] = t
        BY <2>1, <3>1
      <3> QED
        BY <2>1, <3>2
    <2> QED
      BY <2>1, <2>2
  <1>10. CASE UNCHANGED vars
    BY <1>10 DEF vars
  <1> QED
    BY <1>1, <1>2, <1>3, <1>4, <1>5, <1>6, <1>7, <1>8, <1>9, <1>10
    DEF Next, Arrival, Handler, Mutation, Quiet

\* As long as no task is autonomous, an answered request survives a crash:
\* tasks.json has the task as the answer showed it, whatever other requests
\* are being handled at that moment.
THEOREM AnswersAreDurable ==
    ASSUME \A r \in Requests : ~r.autonomous
    PROVE  Spec => []AckedIsDurable
  <1>1. Init => AckedInv
    BY DEF Init, AckedInv, LockHeld, OwesSaveOf, SavedTask
  <1>2. TypeInv /\ AckedInv => AckedIsDurable
    BY DEF TypeInv, AckedInv, OwesSaveOf, SavedTask, AckedIsDurable, Unhandled,
           Handles, TypeOK
  <1> QED
    BY InitTyped, NextTyped, <1>1, NextAcked, <1>2, PTL DEF Spec

----------------------------------------------------------------------------
(* Reports.                                                                *)

\* A task that has a report has a plan, and one that is shown as completed or
\* rolled back has a report.
Reported(t) ==
    t # NoTask => /\ t.execution # None => t.plan
                  /\ t.status \in {"completed", "rolled_back"} =>
                         t.execution # None

\* Thread w plans, or executes, the task it handles.
Plans(w) ==
    \/ pc[w] \in {"plan", "planning"}
    \/ pc[w] \in {"save", "store"} /\ then[w] = "plan"

Executes(w) == pc[w] = "approved" \/ Runs(w, cur[w])

\* Only the thread that plans a task may take its plan away, and it has the
\* task to itself, for the client does not know the id yet.
ThreadInv(w) ==
    /\ Executes(w) => task[cur[w]].plan
    /\ pc[w] \in {"restore", "restored"} => task[cur[w]].execution # None
    /\ Plans(w) => /\ cur[w] \notin known
                   /\ task[cur[w]].execution = None
                   /\ \A v \in Workers : v # w => ~Handles(v, cur[w])

ReportInv ==
    /\ \A t \in Tasks : Reported(task[t]) /\ Reported(disk[t])
    /\ \A w \in Workers : /\ ThreadInv(w)
                          /\ \A t \in Tasks : Reported(snap[w][t])

\* What a transition leaves of a task.
LEMMA TransitionKeeps ==
    ASSUME TypeOK, NEW t \in Tasks, task[t] # NoTask, NEW s \in Status,
           Transition(t, s)
    PROVE  /\ task'[t] # NoTask
           /\ task'[t].plan = task[t].plan
           /\ task'[t].execution = task[t].execution
           /\ task'[t].status = s
           /\ \A u \in Tasks : u # t => task'[u] = task[u]
<1>1. task[t] \in BuildTask /\ task \in [Tasks -> BuildTask \cup {NoTask}]
  BY DEF TypeOK
<1>2. task'[t] = [task[t] EXCEPT !.status = s]
  BY <1>1 DEF Transition
<1>3. task'[t].status = s /\ s # "absent"
  BY <1>1, <1>2 DEF BuildTask, Status
<1> QED BY <1>1, <1>2, <1>3 DEF BuildTask, Transition, NoTask

\* A step of thread w about its own task leaves the others their invariant.
LEMMA OthersKeep ==
    ASSUME TypeInv, ReportInv, NEW w \in Workers, NEW t \in Tasks,
           \A v \in Workers : v # w => UNCHANGED <<pc[v], then[v], cur[v]>>,
           \A u \in Tasks : u # t => task'[u] = task[u],
           known' \subseteq known \cup {t},
           \A v \in Workers : v # w /\ Plans(v) => cur[v] # t,
           pc'[w] # "idle" => cur'[w] = t,
           \/ Plans(w) \/ task[t] = NoTask
           \/ /\ task[t].plan => task'[t].plan
              /\ task[t].execution # None => task'[t].execution # None,
           Plans(w) => cur[w] = t
    PROVE  \A v \in Workers : v # w => ThreadInv(v)'
<1> SUFFICES ASSUME NEW v \in Workers, v # w PROVE ThreadInv(v)'
  OBVIOUS
<1>1. pc'[v] = pc[v] /\ then'[v] = then[v] /\ cur'[v] = cur[v]
  OBVIOUS
<1>2. ThreadInv(v) /\ ThreadInv(w)
  BY DEF ReportInv
<1>3. pc[v] # "idle" => cur[v] \in Tasks /\ task[cur[v]] # NoTask
  BY DEF TypeInv, HandlesExisting
<1>4. (Executes(v)' <=> Executes(v)) /\ (Plans(v)' <=> Plans(v))
  BY <1>1 DEF Executes, Plans, Runs, Handles
<1>5. Executes(v) \/ pc[v] \in {"restore", "restored"} => Handles(v, cur[v])
  BY DEF Executes, Runs, Handles
<1>6. Executes(v) => task'[cur[v]].plan
  <2>1. CASE cur[v] = t /\ Plans(w)
    BY <1>2, <1>5, <2>1 DEF ThreadInv
  <2>2. CASE cur[v] # t \/ ~Plans(w)
    BY <1>2, <1>3, <1>5, <2>2 DEF ThreadInv, Handles
  <2> QED BY <2>1, <2>2
<1>7. pc[v] \in {"restore", "restored"} => task'[cur[v]].execution # None
  <2>1. CASE cur[v] = t /\ Plans(w)
    BY <1>2, <1>5, <2>1 DEF ThreadInv
  <2>2. CASE cur[v] # t \/ ~Plans(w)
    BY <1>2, <1>3, <1>5, <2>2 DEF ThreadInv, Handles
  <2> QED BY <2>1, <2>2
<1>8. ASSUME Plans(v)
      PROVE  /\ cur[v] \notin known'
             /\ task'[cur[v]].execution = None
             /\ \A x \in Workers : x # v => ~Handles(x, cur[v])'
  <2>1. pc[v] # "idle" /\ cur[v] \in Tasks /\ cur[v] # t
    BY <1>3, <1>8 DEF Plans
  <2>2. cur[v] \notin known' /\ task'[cur[v]].execution = None
    BY <1>2, <1>8, <2>1 DEF ThreadInv
  <2>3. ASSUME NEW x \in Workers, x # v PROVE ~Handles(x, cur[v])'
    <3>1. CASE x = w
      BY <1>1, <2>1, <3>1 DEF Handles
    <3>2. CASE x # w
      BY <1>1, <1>2, <1>8, <2>3, <3>2 DEF Handles, ThreadInv
    <3> QED BY <3>1, <3>2
  <2> QED BY <2>2, <2>3
<1> QED BY <1>1, <1>4, <1>6, <1>7, <1>8 DEF ThreadInv

\* The steps that leave the tasks as they are.
Still(w) ==
    \/ \E t \in Tasks : \/ RequestExecute(w, t) \/ RequestCancel(w, t)
                        \/ RequestRollback(w, t)
    \/ AutoExecute(w) \/ Restore(w) \/ RestoreFails(w) \/ Reply(w)
    \/ Snapshot(w) \/ Store(w) \/ SaveFails(w)
    \/ BeginProgress(w) \/ DumpProgress(w) \/ StoreProgress(w)
    \/ Apply(w) \/ PublishNothing(w)

LEMMA StillReported ==
    ASSUME TypeInv, ReportInv, NEW w \in Workers, Still(w)
    PROVE  ReportInv'
<1>0. TypeOK /\ HandlesExisting /\ ThreadInv(w)
  BY DEF TypeInv, ReportInv
<1>1. /\ task' = task
      /\ \A v \in Workers : v # w =>
             UNCHANGED <<pc[v], then[v], cur[v], snap[v]>>
  <2> USE <1>0 DEF TypeOK
  <2>1. CASE \E t \in Tasks : \/ RequestExecute(w, t) \/ RequestCancel(w, t)
                              \/ RequestRollback(w, t)
    BY <2>1 DEF RequestExecute, RequestCancel, RequestRollback
  <2>2. CASE AutoExecute(w) \/ Restore(w) \/ RestoreFails(w) \/ Reply(w)
    BY <2>2 DEF AutoExecute, Restore, RestoreFails, Reply, Leave
  <2>3. CASE Snapshot(w) \/ Store(w) \/ SaveFails(w)
    BY <2>3 DEF Snapshot, Store, SaveFails, Leave
  <2>4. CASE BeginProgress(w) \/ DumpProgress(w) \/ StoreProgress(w)
    BY <2>4 DEF BeginProgress, DumpProgress, StoreProgress
  <2>5. CASE Apply(w) \/ PublishNothing(w)
    BY <2>5 DEF Apply, PublishNothing
  <2> QED BY <2>1, <2>2, <2>3, <2>4, <2>5 DEF Still
<1>2. /\ disk' = disk \/ disk' = snap[w]
      /\ snap'[w] \in {snap[w], task, NoPayload}
  <2> USE <1>0 DEF TypeOK
  <2>1. CASE Snapshot(w) \/ Store(w) \/ SaveFails(w)
    BY <2>1 DEF Snapshot, Store, SaveFails
  <2>2. CASE BeginProgress(w) \/ DumpProgress(w) \/ StoreProgress(w)
    BY <2>2 DEF BeginProgress, DumpProgress, StoreProgress
  <2>3. CASE ~(Snapshot(w) \/ Store(w) \/ SaveFails(w) \/ BeginProgress(w) \/ DumpProgress(w)
               \/ StoreProgress(w))
    BY <2>3 DEF Still, RequestExecute, RequestCancel, RequestRollback,
                AutoExecute, Restore, RestoreFails, Reply, Apply, PublishNothing
  <2> QED BY <2>1, <2>2, <2>3
<1>3. \A t \in Tasks : Reported(NoPayload[t])
  BY DEF Reported, NoPayload
<1>4. \A t \in Tasks : Reported(task'[t]) /\ Reported(disk'[t])
                       /\ \A v \in Workers : Reported(snap'[v][t])
  <2> SUFFICES ASSUME NEW t \in Tasks
               PROVE  Reported(task'[t]) /\ Reported(disk'[t])
                      /\ \A v \in Workers : Reported(snap'[v][t])
    OBVIOUS
  <2>1. Reported(task[t]) /\ Reported(disk[t]) /\ Reported(NoPayload[t])
        /\ \A v \in Workers : Reported(snap[v][t])
    BY <1>3 DEF ReportInv
  <2>2. ASSUME NEW v \in Workers PROVE Reported(snap'[v][t])
    BY <1>1, <1>2, <2>1
  <2>3. Reported(disk'[t])
    BY <1>2, <2>1
  <2> QED BY <1>1, <2>1, <2>2, <2>3
\* What the step is about: the task the thread handles, or takes on.
<1>5. PICK t \in Tasks :
          /\ pc[w] # "idle" => cur[w] = t
          /\ pc'[w] # "idle" => cur'[w] = t
          /\ known' \subseteq known \cup {t}
          /\ \A v \in Workers : v # w /\ Plans(v) => cur[v] # t
  <2>0. \A v \in Workers : Plans(v) =>
            /\ cur[v] \notin known
            /\ \A x \in Workers : x # v => ~Handles(x, cur[v])
    BY DEF ReportInv, ThreadInv
  <2> USE <1>0 DEF TypeOK
  <2>1. ASSUME NEW t \in Tasks, RequestExecute(w, t) \/ RequestCancel(w, t)
                                \/ RequestRollback(w, t)
        PROVE  pc[w] = "idle" /\ cur'[w] = t /\ known' = known /\ t \in known
    BY <2>1 DEF RequestExecute, RequestCancel, RequestRollback
  <2>2. CASE \E t \in Tasks : \/ RequestExecute(w, t) \/ RequestCancel(w, t)
                              \/ RequestRollback(w, t)
    BY <2>0, <2>1, <2>2
  <2>3. CASE ~\E t \in Tasks : \/ RequestExecute(w, t) \/ RequestCancel(w, t)
                               \/ RequestRollback(w, t)
    <3>1. pc[w] # "idle"
      BY <2>3 DEF Still, AutoExecute, Restore, RestoreFails, Reply, Snapshot, Store, SaveFails,
                  Leave,
                  BeginProgress, DumpProgress, StoreProgress, Apply, PublishNothing
    <3>2. cur[w] \in Tasks
      BY <3>1 DEF HandlesExisting
    <3>3. known' \subseteq known \cup {cur[w]}
          /\ (pc'[w] # "idle" => cur'[w] = cur[w])
      BY <2>3 DEF Still, AutoExecute, Restore, RestoreFails, Reply, Snapshot, Store, SaveFails,
                  Leave,
                  BeginProgress, DumpProgress, StoreProgress, Apply, PublishNothing
    <3> QED BY <2>0, <3>1, <3>2, <3>3 DEF Handles
  <2> QED BY <2>2, <2>3
<1>6. \A v \in Workers : v # w => ThreadInv(v)'
  <2>1. Plans(w) => cur[w] = t
    BY <1>5 DEF Plans
  <2> QED BY <1>1, <1>5, <2>1, OthersKeep
<1>7. ThreadInv(w)'
  <2>1. \A v \in Workers : v # w => (Handles(v, t)' <=> Handles(v, t))
    BY <1>1 DEF Handles
  <2> USE <1>0, <1>1 DEF TypeOK
  <2>2. ASSUME NEW u \in Tasks, RequestExecute(w, u) PROVE ThreadInv(w)'
    <3>1. task[u].plan /\ cur'[w] = u /\ pc'[w] = "approved"
      BY <2>2 DEF RequestExecute, Executable
    <3> QED BY <3>1 DEF ThreadInv, Plans
  <2>3. ASSUME NEW u \in Tasks, RequestCancel(w, u) PROVE ThreadInv(w)'
    <3>1. pc'[w] = "cancel"
      BY <2>3 DEF RequestCancel
    <3> QED BY <3>1 DEF ThreadInv, Plans, Executes, Runs
  <2>4. ASSUME NEW u \in Tasks, RequestRollback(w, u) PROVE ThreadInv(w)'
    <3>1. task[u].execution # None /\ cur'[w] = u /\ pc'[w] = "restore"
      BY <2>4 DEF RequestRollback
    <3> QED BY <3>1 DEF ThreadInv, Plans, Executes, Runs
  <2>5. CASE AutoExecute(w)
    <3>1. cur'[w] = cur[w] /\ pc'[w] \in {"approved", "reply"}
          /\ (pc'[w] = "approved" => task[cur[w]].plan)
      BY <2>5 DEF AutoExecute, Executable
    <3> QED BY <3>1 DEF ThreadInv, Plans, Executes, Runs
  <2>6. CASE RestoreFails(w) \/ Reply(w) \/ SaveFails(w)
    <3>1. pc'[w] \in {"idle", "reply"}
      BY <2>6 DEF RestoreFails, Reply, SaveFails, Leave
    <3> QED BY <3>1 DEF ThreadInv, Plans, Executes, Runs
  <2>7. CASE Restore(w)
    <3>1. pc[w] = "restore" /\ pc'[w] = "restored" /\ cur'[w] = cur[w]
      BY <2>7 DEF Restore
    <3> QED BY <3>1 DEF ThreadInv, Plans, Executes, Runs
  <2>8. CASE Snapshot(w) \/ Store(w)
    <3>1. /\ cur' = cur /\ then' = then /\ known' = known
          /\ pc[w] \in {"save", "store"} /\ pc'[w] \in {"store", then[w]}
          /\ then[w] \in {"plan", "auto", "run", "reply"}
      BY <2>8 DEF Snapshot, Store, Then
    <3>2. Executes(w)' => Executes(w)
      BY <3>1, <1>0 DEF Executes, Runs, Handles, HandlesExisting
    <3>3. Plans(w)' => Plans(w)
      BY <3>1 DEF Plans
    <3>4. cur[w] = t /\ pc'[w] \notin {"restore", "restored"}
      BY <1>5, <3>1
    <3> QED BY <2>1, <3>1, <3>2, <3>3, <3>4 DEF ThreadInv
  <2>9. CASE BeginProgress(w) \/ DumpProgress(w) \/ StoreProgress(w)
             \/ Apply(w) \/ PublishNothing(w)
    <3>1. /\ cur' = cur
          /\ pc[w] \in {"run", "dumping", "progress"}
          /\ pc'[w] \in {"run", "dumping", "progress", "applied"}
      BY <2>9 DEF BeginProgress, DumpProgress, StoreProgress, Apply, PublishNothing
    <3>2. Executes(w)
      BY <3>1 DEF Executes, Runs, Handles
    <3> QED BY <3>1, <3>2 DEF ThreadInv, Plans
  <2> QED BY <2>2, <2>3, <2>4, <2>5, <2>6, <2>7, <2>8, <2>9 DEF Still
<1> QED BY <1>4, <1>6, <1>7 DEF ReportInv

\* The steps that only set a status.
Transits(w) ==
    \/ BeginPlan(w) \/ BeginExecute(w) \/ BeginComplete(w) \/ ApplyTorn(w)
    \/ ValidationFails(w) \/ ExecutionFails(w) \/ Cancel(w) \/ RollBack(w)

LEMMA TransitsReported ==
    ASSUME TypeInv, ReportInv, NEW w \in Workers, Transits(w)
    PROVE  ReportInv'
<1> DEFINE t == cur[w]
<1>0. TypeOK /\ HandlesExisting /\ ThreadInv(w)
  BY DEF TypeInv, ReportInv
<1>1. PICK s \in Status \ {"completed"} :
          Transition(t, s) /\ (s = "rolled_back" => pc[w] = "restored")
  BY DEF Transits, BeginPlan, BeginExecute, BeginComplete, ApplyTorn,
         ValidationFails, ExecutionFails, Cancel, RollBack, Status
<1>2. /\ pc[w] # "idle" /\ cur' = cur /\ known' = known /\ disk' = disk
      /\ \A v \in Workers : v # w => UNCHANGED <<pc[v], then[v], snap[v]>>
      /\ snap'[w] \in {snap[w], NoPayload}
  <2> USE <1>0 DEF TypeOK
  <2>1. CASE BeginPlan(w) \/ BeginExecute(w) \/ BeginComplete(w)
    BY <2>1 DEF BeginPlan, BeginExecute, BeginComplete
  <2>2. CASE ApplyTorn(w) \/ ValidationFails(w) \/ ExecutionFails(w)
    BY <2>2 DEF ApplyTorn, ValidationFails, ExecutionFails
  <2>3. CASE Cancel(w) \/ RollBack(w)
    BY <2>3 DEF Cancel, RollBack
  <2> QED BY <2>1, <2>2, <2>3 DEF Transits
<1>3. t \in Tasks /\ task[t] # NoTask
  BY <1>0, <1>2 DEF HandlesExisting
<1>4. /\ task'[t] # NoTask
      /\ task'[t].plan = task[t].plan
      /\ task'[t].execution = task[t].execution
      /\ task'[t].status = s
      /\ \A u \in Tasks : u # t => task'[u] = task[u]
  BY <1>0, <1>1, <1>3, TransitionKeeps
<1>5. \A u \in Tasks : Reported(task'[u])
  <2>1. Reported(task[t]) /\ \A u \in Tasks : Reported(task[u])
    BY <1>3 DEF ReportInv
  <2>2. s = "rolled_back" => task[t].execution # None
    BY <1>0, <1>1 DEF ThreadInv
  <2>3. Reported(task'[t])
    BY <1>1, <1>3, <1>4, <2>1, <2>2 DEF Reported
  <2> QED BY <1>4, <2>1, <2>3
<1>6. \A u \in Tasks : Reported(disk'[u]) /\ \A v \in Workers : Reported(snap'[v][u])
  <2> SUFFICES ASSUME NEW u \in Tasks
               PROVE  Reported(disk'[u]) /\ \A v \in Workers : Reported(snap'[v][u])
    OBVIOUS
  <2>1. Reported(NoPayload[u]) /\ Reported(disk[u])
        /\ \A v \in Workers : Reported(snap[v][u])
    BY DEF Reported, NoPayload, ReportInv
  <2> QED BY <1>2, <2>1
<1>7. \A v \in Workers : v # w => ThreadInv(v)'
  <2>1. \A v \in Workers : v # w /\ Plans(v) => cur[v] # t
    BY <1>2 DEF ReportInv, ThreadInv, Handles
  <2> HIDE DEF t
  <2>2. Plans(w) => cur[w] = t
    BY DEF t
  <2>3. pc'[w] # "idle" => cur'[w] = t
    BY <1>2 DEF t
  <2> QED BY <1>2, <1>3, <1>4, <2>1, <2>2, <2>3, OthersKeep
<1>8. ThreadInv(w)'
  <2> USE <1>0 DEF TypeOK
  <2>1. CASE BeginPlan(w)
    <3>1. pc[w] = "plan" /\ pc'[w] = "planning"
      BY <2>1 DEF BeginPlan
    <3>2. \A v \in Workers : v # w => (Handles(v, t)' <=> Handles(v, t))
      BY <1>2 DEF Handles
    <3> QED BY <1>2, <1>4, <3>1, <3>2 DEF ThreadInv, Plans, Executes, Runs
  <2>2. CASE BeginExecute(w) \/ BeginComplete(w)
    <3>1. /\ pc[w] \in {"approved", "applied"} /\ pc'[w] \in {"save", "validated"}
          /\ pc'[w] = "save" => then'[w] = "run"
      BY <2>2 DEF BeginExecute, BeginComplete
    <3>2. Executes(w)
      BY <3>1 DEF Executes, Runs, Handles
    <3> QED BY <1>2, <1>4, <3>1, <3>2 DEF ThreadInv, Plans
  <2>3. CASE \/ ApplyTorn(w) \/ ValidationFails(w) \/ ExecutionFails(w)
             \/ Cancel(w) \/ RollBack(w)
    <3>1. pc'[w] = "save" /\ then'[w] = "reply"
      BY <2>3 DEF ApplyTorn, ValidationFails, ExecutionFails, Cancel, RollBack
    <3> QED BY <3>1 DEF ThreadInv, Plans, Executes, Runs
  <2> QED BY <2>1, <2>2, <2>3 DEF Transits
<1> QED BY <1>5, <1>6, <1>7, <1>8 DEF ReportInv

\* The two steps that write the plan and the report.
LEMMA WritesReported ==
    ASSUME TypeInv, ReportInv, NEW w \in Workers,
           Complete(w) \/ \E planned \in BOOLEAN : EndPlan(w, planned)
    PROVE  ReportInv'
<1> DEFINE t == cur[w]
<1>0. TypeOK /\ HandlesExisting /\ ThreadInv(w)
  BY DEF TypeInv, ReportInv
<1>1. /\ pc[w] # "idle" /\ UNCHANGED <<cur, known, disk, snap>>
      /\ \A v \in Workers : v # w => UNCHANGED <<pc[v], then[v]>>
      /\ pc'[w] = "save" /\ then'[w] \in {"reply", "auto"}
  BY <1>0 DEF Complete, EndPlan, TypeOK
<1>2. t \in Tasks /\ task[t] # NoTask
  BY <1>0, <1>1 DEF HandlesExisting
<1>3. task[t] \in BuildTask /\ task \in [Tasks -> BuildTask \cup {NoTask}]
  BY <1>0, <1>2 DEF TypeOK
<1>4. /\ \A u \in Tasks : u # t => task'[u] = task[u]
      /\ Reported(task'[t])
      /\ Plans(w) \/ /\ task[t].plan => task'[t].plan
                     /\ task[t].execution # None => task'[t].execution # None
  <2>1. CASE Complete(w)
    <3>1. task' = [task EXCEPT ![t] = [task[t] EXCEPT !.execution = report[w],
                                                      !.status = "completed"]]
      BY <1>3, <2>1 DEF Complete
    <3>2. /\ task'[t].plan = task[t].plan /\ task'[t].execution = report[w]
          /\ \A u \in Tasks : u # t => task'[u] = task[u]
      BY <1>2, <1>3, <3>1 DEF BuildTask
    <3>3. task[t].plan /\ report[w] # None
      BY <1>0, <2>1, BackupsTyped DEF ThreadInv, Executes, Runs, Handles, Complete, TypeOK
    <3> QED BY <3>2, <3>3 DEF Reported
  <2>2. ASSUME NEW planned \in BOOLEAN, EndPlan(w, planned)
        PROVE  /\ \A u \in Tasks : u # t => task'[u] = task[u]
               /\ Reported(task'[t])
               /\ Plans(w)
    <3>1. Plans(w) /\ task[t].execution = None
      BY <1>0, <2>2 DEF EndPlan, Plans, ThreadInv
    <3> DEFINE s == IF planned THEN "awaiting_approval" ELSE "failed"
    <3>2. task' = [task EXCEPT ![t] = [task[t] EXCEPT !.plan = planned,
                                                      !.status = s]]
      BY <1>3, <2>2 DEF EndPlan
    <3>3. /\ task'[t].execution = None /\ task'[t].status = s
          /\ \A u \in Tasks : u # t => task'[u] = task[u]
      BY <1>2, <1>3, <3>1, <3>2 DEF BuildTask
    <3> QED BY <3>1, <3>3 DEF Reported
  <2> QED BY <2>1, <2>2
<1>5. \A v \in Workers : v # w => ThreadInv(v)'
  <2>1. \A v \in Workers : v # w /\ Plans(v) => cur[v] # t
    BY <1>1 DEF ReportInv, ThreadInv, Handles
  <2>2. Plans(w) => cur[w] = t
    OBVIOUS
  <2>3. pc'[w] # "idle" => cur'[w] = t
    BY <1>1
  <2> HIDE DEF t
  <2> QED BY <1>1, <1>2, <1>4, <2>1, <2>2, <2>3, OthersKeep
<1>6. ThreadInv(w)'
  BY <1>1 DEF ThreadInv, Plans, Executes, Runs
<1> QED
  <2> HIDE DEF t
  <2>1. \A u \in Tasks : Reported(task'[u])
    BY <1>2, <1>4 DEF ReportInv
  <2> QED BY <1>1, <1>5, <1>6, <2>1 DEF ReportInv

\* A new task has neither, and nobody else has its id.
LEMMA CreateReported ==
    ASSUME TypeInv, ReportInv, NEW w \in Workers, NEW t \in Tasks,
           NEW request \in Requests, CreateTask(w, t, request)
    PROVE  ReportInv'
<1>0. TypeOK /\ HandlesExisting
  BY DEF TypeInv
<1>1. /\ pc[w] = "idle" /\ pc'[w] = "store" /\ then'[w] = "plan" /\ cur'[w] = t
      /\ UNCHANGED <<disk, known>> /\ t \notin known /\ task[t] = NoTask
      /\ \A v \in Workers : v # w =>
             UNCHANGED <<pc[v], then[v], cur[v], snap[v]>>
      /\ snap'[w] = task'
      /\ \A u \in Tasks : u # t => task'[u] = task[u]
      /\ task'[t].execution = None /\ task'[t].status = "queued"
  BY <1>0 DEF CreateTask, TypeOK
<1>2. \A v \in Workers : v # w => ~Handles(v, t)
  BY <1>0, <1>1 DEF HandlesExisting, Handles
<1>3. \A u \in Tasks : Reported(task'[u])
  BY <1>1 DEF ReportInv, Reported
<1>4. \A v \in Workers : v # w => ThreadInv(v)'
  <2>1. \A v \in Workers : v # w /\ Plans(v) => cur[v] # t
    BY <1>2 DEF Plans, Handles
  <2>2. ~Plans(w)
    BY <1>1 DEF Plans
  <2> QED BY <1>1, <2>1, <2>2, OthersKeep
<1>5. ThreadInv(w)'
  <2>1. \A v \in Workers : v # w => ~Handles(v, t)'
    BY <1>1, <1>2 DEF Handles
  <2> QED BY <1>1, <2>1 DEF ThreadInv, Plans, Executes, Runs
<1> QED BY <1>1, <1>3, <1>4, <1>5 DEF ReportInv

\* A completed or rolled back task has its plan and a report, whatever
\* requests raced on the way and wherever the process died.
THEOREM CompletedIsReported == Spec => []CompletedHasReport
<1>1. Init => ReportInv
  BY NobodyAssumption
  DEF Init, ReportInv, ThreadInv, Reported, Plans, Executes, Runs, NoPayload
<1>2. TypeInv /\ ReportInv /\ [Next]_vars => ReportInv'
  <2> SUFFICES ASSUME TypeInv, ReportInv, [Next]_vars PROVE ReportInv'
    OBVIOUS
  <2>1. CASE Restart
    BY <2>1 DEF Restart, ReportInv, ThreadInv, Reported, Plans, Executes, Runs,
                NoPayload
  <2>2. CASE UNCHANGED vars
    BY <2>2 DEF vars, ReportInv, ThreadInv, Plans, Executes, Runs, Handles
  <2> QED BY <2>1, <2>2, CreateReported, StillReported, TransitsReported,
             WritesReported
          DEF Next, Arrival, Handler, Still, Transits
<1>3. TypeInv /\ ReportInv => CompletedHasReport
  <2> SUFFICES ASSUME TypeInv, ReportInv, NEW t \in Tasks,
                      task[t].status \in {"completed", "rolled_back"}
               PROVE  task[t].plan /\ task[t].execution # None
    BY DEF CompletedHasReport
  <2>1. task[t] # NoTask
    BY DEF NoTask
  <2> QED BY <2>1 DEF ReportInv, Reported
<1> QED
  BY InitTyped, NextTyped, <1>1, <1>2, <1>3, PTL DEF Spec

----------------------------------------------------------------------------
(* The status of a task and the repository.                                *)

(***************************************************************************)
(* When a client waits for the answer about a task before it asks for more,*)
(* the one thread that handles a task knows its status.  What a status     *)
(* says of the files must hold of every copy of the task that a restart    *)
(* could bring back: the one in memory, the one in tasks.json and those in *)
(* the payloads on their way there.                                        *)
(***************************************************************************)
OneHandler ==
    \A v, w \in Workers :
        pc[v] # "idle" /\ pc[w] # "idle" /\ cur[v] = cur[w] => v = w

Storing == {w \in Workers : pc[w] = "store"}
Kept(t) == {task[t], disk[t]} \cup {snap[v][t] : v \in Storing}

\* Thread w is at `label', or saves before it goes on there.
Reaches(w, label) == pc[w] = label \/ (pc[w] \in {"save", "store"} /\ then[w] = label)

\* The statuses of a task that may have written, and of one with a report.
Late == {"executing", "validating", "completed", "failed", "cancelled", "rolled_back"}
Done == {"completed", "rolled_back"}

Untouched(t) == wrote[t] = {} /\ t \notin torn

\* A copy of task t has a report once it completed, the same in every copy, of just
\* the files the task wrote and of what they were without it; the files that the task
\* was the last to write or restore are as its status says; and a task that wrote
\* anything shows it.
Fits(x, t) ==
    x # NoTask =>
        /\ (x.execution # None) <=> (x.status \in Done)
        /\ x.execution # None => task[t] # NoTask /\ x.execution = task[t].execution
        /\ ~Untouched(t) => x.status \in Late
        /\ x.status \in Done => \A f \in Files :
               /\ x.execution[f] # t
               /\ (x.execution[f] # "untouched") <=> (f \in wrote[t])
               /\ x.execution[f] \in Tasks => f \in wrote[x.execution[f]]
        /\ \A f \in Files : last[f] = t =>
               /\ x.status = "completed" => repo[f] \in {t, x.execution[f]}
               /\ t \notin torn /\ x.status = "failed" => repo[f] # t
               /\ t \notin torn /\ x.status = "rolled_back" => repo[f] = x.execution[f]

\* What is in the repository, or in a backup of it, its task has written.
Places ==
    /\ \A f \in Files :
           /\ repo[f] \in Tasks => f \in wrote[repo[f]]
           /\ last[f] \in Tasks => f \in wrote[last[f]]
           /\ \A w \in Workers : report[w][f] \in Tasks => f \in wrote[report[w][f]]
    /\ \A t \in torn : wrote[t] # {}

\* Where task t was the last to write a file, the file is as it made it.
Made(t) == \A f \in Files : last[f] = t => repo[f] = t

\* The backup of the thread's execution is of just the files its task wrote.
Reports(w, t) ==
    /\ t \notin torn
    /\ \A f \in Files : /\ report[w][f] # t
                        /\ (report[w][f] # "untouched") <=> (f \in wrote[t])

Stage(w, t) ==
    /\ Reaches(w, "plan") => task[t].status = "queued"
    /\ pc[w] = "planning" => task[t].status = "planning"
    /\ Reaches(w, "auto") => task[t].status \in {"awaiting_approval", "failed"}
    /\ pc[w] = "approved" => task[t].status = "awaiting_approval"
    /\ Reaches(w, "run") => task[t].status = "executing" /\ Untouched(t)
    /\ pc[w] = "run" => t \notin unsaved
    /\ pc[w] = "applied" => task[t].status = "executing" /\ Reports(w, t) /\ Made(t)
    /\ pc[w] = "validated" => task[t].status = "validating" /\ Reports(w, t) /\ Made(t)
    /\ pc[w] = "cancel" => task[t].status \notin {"completed", "failed", "rolled_back"}
    /\ pc[w] \in {"restore", "restored"} => task[t].status \in Done
    /\ pc[w] = "restored" =>
           /\ t \notin torn
           /\ \A f \in Files : last[f] = t => repo[f] = task[t].execution[f]
    /\ (pc[w] \in {"save", "store"} /\ then[w] = "reply") =>
           task[t].status \in {"completed", "failed", "cancelled", "rolled_back"}

\* Before any crash, a completed task whose restore did not raise has its changes
\* wherever it was the last to write, or is being rolled back.
Stands(t) ==
    restarts = 0 /\ task[t].status = "completed" /\ t \notin torn =>
        Made(t) \/ \E w \in Workers : pc[w] = "restored" /\ cur[w] = t

RepositoryInv ==
    /\ OneHandler
    /\ Places
    /\ \A t \in Tasks : Stands(t) /\ \A x \in Kept(t) : Fits(x, t)
    /\ \A w \in Workers : pc[w] # "idle" => Stage(w, cur[w])

\* A step of thread w about task t, and what it leaves alone.
Frame(w, t) ==
    /\ \A v \in Workers : v # w =>
           UNCHANGED <<pc[v], then[v], cur[v], snap[v], report[v]>>
    /\ \A u \in Tasks : u # t =>
           /\ task'[u] = task[u] /\ wrote'[u] = wrote[u]
           /\ (u \in torn') <=> (u \in torn)
           /\ u \in unsaved' => u \in unsaved
    /\ wrote[t] \subseteq wrote'[t]
    /\ \A f \in Files : last'[f] = t \/ (last'[f] = last[f] /\ repo'[f] = repo[f])
    /\ \A u \in Tasks : Kept(u)' \subseteq Kept(u) \cup {task'[u]}
    /\ pc'[w] # "idle" => cur'[w] = t
    /\ \A v \in Workers : v # w => ~Handles(v, t)
    /\ restarts' = restarts

\* What a step of a thread keeps of the copies of the tasks: it drops some, moves one
\* from a payload to the file, or adds the task as it is now.
LEMMA KeptFrame ==
    ASSUME TypeOK, NEW w \in Workers,
           \A v \in Workers : v # w => pc'[v] = pc[v] /\ snap'[v] = snap[v],
           disk' = disk \/ (pc[w] = "store" /\ disk' = snap[w]),
           pc'[w] = "store" => snap'[w] = task'
    PROVE  \A u \in Tasks : Kept(u)' \subseteq Kept(u) \cup {task'[u]}
<1> SUFFICES ASSUME NEW u \in Tasks, NEW x \in Kept(u)', x # task'[u]
             PROVE  x \in Kept(u)
  OBVIOUS
<1>1. CASE x = disk'[u]
  BY <1>1 DEF Kept, Storing
<1>2. ASSUME NEW v \in Workers, pc'[v] = "store", x = snap'[v][u]
      PROVE  x \in Kept(u)
  <2>1. v # w
    BY <1>2
  <2> QED BY <1>2, <2>1 DEF Kept, Storing
<1> QED BY <1>1, <1>2 DEF Kept, Storing

\* What a write about task t does to the files.
LEMMA WriteFrame ==
    ASSUME NEW t \in Tasks, NEW written, NEW content, Write(t, written, content)
    PROVE  \A f \in Files : last'[f] = t \/ (last'[f] = last[f] /\ repo'[f] = repo[f])
  BY DEF Write

\* A step of a handler is about the task it handles, an arriving request about a
\* task nobody handles.
LEMMA StepFrame ==
    ASSUME SerialClient, TypeInv, RepositoryInv, NEW w \in Workers,
           Arrival(w) \/ Handler(w), ~BeginProgress(w), ~DumpProgress(w), ~StoreProgress(w)
    PROVE  \E t \in Tasks : Frame(w, t) /\ (pc[w] # "idle" => cur[w] = t)
<1>0. TypeOK /\ HandlesExisting
  BY DEF TypeInv
<1>1. ASSUME NEW t \in Tasks,
             \/ \E request \in Requests : CreateTask(w, t, request)
             \/ RequestExecute(w, t) \/ RequestCancel(w, t) \/ RequestRollback(w, t)
      PROVE  Frame(w, t) /\ pc[w] = "idle"
  <2> USE <1>0 DEF TypeOK
  <2>1. pc[w] = "idle" /\ Unhandled(t) /\ UNCHANGED <<repoVars, unsaved, restarts, disk>>
    BY <1>1 DEF CreateTask, RequestExecute, RequestCancel, RequestRollback
  <2>2. /\ \A v \in Workers : v # w =>
               UNCHANGED <<pc[v], then[v], cur[v], snap[v], report[v]>>
        /\ \A u \in Tasks : u # t => task'[u] = task[u]
        /\ cur'[w] = t
        /\ pc'[w] = "store" => snap'[w] = task'
    BY <1>1 DEF CreateTask, RequestExecute, RequestCancel, RequestRollback
  <2>3. \A u \in Tasks : Kept(u)' \subseteq Kept(u) \cup {task'[u]}
    BY <2>1, <2>2, KeptFrame
  <2> QED BY <2>1, <2>2, <2>3 DEF Unhandled, Frame, repoVars
<1>2. CASE Handler(w)
  <2> USE <1>0 DEF TypeOK
  <2> DEFINE t == cur[w]
  <2>1. pc[w] # "idle" /\ restarts' = restarts
    BY <1>2 DEF Handler, Snapshot, Store, SaveFails, BeginPlan, EndPlan, AutoExecute,
                BeginExecute, BeginProgress, DumpProgress, StoreProgress, Apply, ApplyTorn,
                PublishNothing, BeginComplete, Complete, ValidationFails, ExecutionFails,
                Cancel, Restore, RestoreFails, RollBack, Reply
  <2>2. t \in Tasks /\ \A v \in Workers : v # w => ~Handles(v, t)
    BY <1>0, <2>1 DEF RepositoryInv, OneHandler, Handles, HandlesExisting
  <2>3. /\ \A v \in Workers : v # w =>
               UNCHANGED <<pc[v], then[v], cur[v], snap[v], report[v]>>
        /\ pc'[w] # "idle" => cur'[w] = t
        /\ disk' = disk \/ (pc[w] = "store" /\ disk' = snap[w])
        /\ pc'[w] = "store" => snap'[w] = task'
        /\ \A u \in Tasks : u # t => (u \in unsaved' => u \in unsaved)
    <3>1. CASE Snapshot(w) \/ SaveFails(w)
      BY <3>1 DEF Snapshot, SaveFails, Leave
    <3>2. CASE Store(w)
      BY <3>2 DEF Store, Then
    <3>3. CASE BeginPlan(w) \/ (\E planned \in BOOLEAN : EndPlan(w, planned))
      BY <3>3 DEF BeginPlan, EndPlan
    <3>4. CASE AutoExecute(w) \/ BeginExecute(w)
      BY <3>4 DEF AutoExecute, BeginExecute
    <3>5. CASE Apply(w) \/ ApplyTorn(w) \/ PublishNothing(w)
      BY <3>5 DEF Apply, ApplyTorn, PublishNothing
    <3>6. CASE BeginComplete(w) \/ Complete(w) \/ ValidationFails(w)
      BY <3>6 DEF BeginComplete, Complete, ValidationFails
    <3>7. CASE ExecutionFails(w) \/ Cancel(w) \/ Restore(w)
      BY <3>7 DEF ExecutionFails, Cancel, Restore
    <3>8. CASE RestoreFails(w) \/ RollBack(w) \/ Reply(w)
      BY <3>8 DEF RestoreFails, RollBack, Reply, Leave
    <3> QED BY <1>2, <3>1, <3>2, <3>3, <3>4, <3>5, <3>6, <3>7, <3>8 DEF Handler
  <2>4. \A u \in Tasks : u # t => task'[u] = task[u]
    <3>1. CASE \/ Snapshot(w) \/ SaveFails(w) \/ Store(w) \/ AutoExecute(w) \/ Apply(w)
               \/ PublishNothing(w) \/ Restore(w) \/ RestoreFails(w) \/ Reply(w)
      BY <3>1 DEF Snapshot, SaveFails, Store, AutoExecute, Apply, PublishNothing, Restore,
                  RestoreFails, Reply
    <3>2. CASE Mutation(w)
      BY <3>2, MutationFrame
    <3> QED BY <1>2, <3>1, <3>2 DEF Handler, Mutation
  <2>5. /\ \A u \in Tasks : u # t => wrote'[u] = wrote[u] /\ ((u \in torn') <=> (u \in torn))
        /\ wrote[t] \subseteq wrote'[t]
        /\ \A f \in Files : last'[f] = t \/ (last'[f] = last[f] /\ repo'[f] = repo[f])
    <3>1. CASE Apply(w)
      <4>1. PICK paths : /\ Write(cur[w], paths, ChangesOf(cur[w]))
                         /\ wrote' = [wrote EXCEPT ![t] = @ \cup paths]
        BY <3>1 DEF Apply
      <4>2. torn' = torn
        BY <3>1 DEF Apply
      <4> QED BY <2>2, <4>1, <4>2, WriteFrame
    <3>2. CASE ApplyTorn(w)
      <4>1. PICK kept : /\ Write(cur[w], kept, ChangesOf(cur[w]))
                        /\ wrote' = [wrote EXCEPT ![t] = @ \cup kept]
        BY <3>2 DEF ApplyTorn
      <4>2. torn' = torn \cup {t}
        BY <3>2 DEF ApplyTorn
      <4> QED BY <2>2, <4>1, <4>2, WriteFrame
    <3>3. ASSUME NEW b, RestoreWhole(t, b) \/ RestoreTorn(t, b)
          PROVE  /\ wrote' = wrote /\ torn' \in {torn \cup {t}, torn \ {t}}
                 /\ \A f \in Files : last'[f] = t \/ (last'[f] = last[f] /\ repo'[f] = repo[f])
      <4>1. \E written : Write(t, written, b)
        BY <3>3 DEF RestoreWhole, RestoreTorn
      <4> QED BY <2>2, <3>3, <4>1, WriteFrame DEF RestoreWhole, RestoreTorn
    <3>4. CASE ValidationFails(w) \/ Restore(w)
      BY <2>2, <3>3, <3>4 DEF ValidationFails, Restore
    <3>5. CASE RestoreFails(w)
      BY <2>2, <3>3, <3>5 DEF RestoreFails, repoVars
    <3>6. CASE ~(Apply(w) \/ ApplyTorn(w) \/ ValidationFails(w) \/ Restore(w) \/ RestoreFails(w))
      <4>1. UNCHANGED <<repo, last, wrote, torn>>
        BY <1>2, <3>6
        DEF Handler, Snapshot, Store, SaveFails, BeginPlan, EndPlan, AutoExecute,
            BeginExecute, PublishNothing, BeginComplete, Complete, ExecutionFails, Cancel,
            RollBack, Reply, repoVars, BeginProgress, DumpProgress, StoreProgress
      <4> QED BY <4>1
    <3> QED BY <3>1, <3>2, <3>4, <3>5, <3>6
  <2>6. \A u \in Tasks : Kept(u)' \subseteq Kept(u) \cup {task'[u]}
    BY <1>0, <2>3, KeptFrame
  <2>7. Frame(w, t)
    BY <2>1, <2>2, <2>3, <2>4, <2>5, <2>6 DEF Frame
  <2> QED BY <2>2, <2>7
<1> QED BY <1>1, <1>2 DEF Arrival

\* A step about task t leaves what is said of the copies of another task.
LEMMA OthersFit ==
    ASSUME TypeInv, NEW w \in Workers, NEW t \in Tasks, Frame(w, t),
           NEW u \in Tasks, u # t, NEW x, Fits(x, u),
           x \in Kept(u)
    PROVE  Fits(x, u)'
<1>0. TypeOK
  BY DEF TypeInv
<1>1. task'[u] = task[u] /\ wrote'[u] = wrote[u] /\ ((u \in torn') <=> (u \in torn))
  BY DEF Frame
<1>2. \A v \in Tasks : wrote[v] \subseteq wrote'[v]
  BY DEF Frame
<1>3. \A f \in Files : last'[f] = u => last[f] = u /\ repo'[f] = repo[f]
  BY DEF Frame
<1> QED BY <1>1, <1>2, <1>3 DEF Fits, Untouched

\* The invariant after a step about t, from what the step makes of t and of its copies.
LEMMA RepositoryKept ==
    ASSUME TypeInv, RepositoryInv, NEW w \in Workers, NEW t \in Tasks, Frame(w, t),
           pc[w] # "idle" => cur[w] = t,
           \A x \in Kept(t) : Fits(x, t)',
           \A x : x = task'[t] => Fits(x, t)',
           Places', Stands(t)',
           pc'[w] # "idle" => Stage(w, t)'
    PROVE  RepositoryInv'
<1>1. OneHandler'
  <2> SUFFICES ASSUME NEW v \in Workers, NEW x \in Workers,
                      pc'[v] # "idle", pc'[x] # "idle", cur'[v] = cur'[x]
               PROVE  v = x
    BY DEF OneHandler
  <2>1. CASE v # w /\ x # w
    BY <2>1 DEF RepositoryInv, OneHandler, Frame
  <2>2. CASE v = w \/ x = w
    BY <2>2 DEF Handles, Frame
  <2> QED BY <2>1, <2>2
<1>2. ASSUME NEW u \in Tasks, NEW x \in Kept(u)'
      PROVE  Fits(x, u)'
  <2>1. x \in Kept(u) \/ x = task'[u]
    BY <1>2 DEF Frame
  <2>2. CASE u = t
    BY <2>1, <2>2
  <2>3. CASE u # t
    <3>1. x \in Kept(u)
      BY <2>1, <2>3 DEF Frame, Kept
    <3>2. Fits(x, u)
      BY <3>1 DEF RepositoryInv
    <3> QED BY <2>3, <3>1, <3>2, OthersFit
  <2> QED BY <2>2, <2>3
<1>3. ASSUME NEW v \in Workers, pc'[v] # "idle"
      PROVE  Stage(v, cur[v])'
  <2>1. CASE v = w
    BY <1>3, <2>1 DEF Frame
  <2>2. CASE v # w
    <3>1. pc[v] # "idle" /\ cur[v] # t /\ cur[v] \in Tasks /\ Stage(v, cur[v])
      BY <1>3, <2>2 DEF Handles, RepositoryInv, TypeInv, HandlesExisting, Frame
    <3> DEFINE u == cur[v]
    <3>2. /\ cur'[v] = u /\ u \in Tasks /\ u # t /\ Stage(v, u)
      BY <2>2, <3>1 DEF Frame
    <3>3. PICK q \in Tasks : q = u
      BY <3>2
    <3>4. Stage(v, q)'
      <4>1. /\ task'[q] = task[q] /\ wrote'[q] = wrote[q] /\ ((q \in torn') <=> (q \in torn))
            /\ q \in unsaved' => q \in unsaved
            /\ pc'[v] = pc[v] /\ then'[v] = then[v] /\ report'[v] = report[v]
            /\ \A f \in Files : last'[f] = q => last[f] = q /\ repo'[f] = repo[f]
        BY <2>2, <3>2, <3>3 DEF Frame
      <4>2. Stage(v, q)
        BY <3>2, <3>3
      <4> HIDE DEF u
      <4> QED BY <4>1, <4>2 DEF Stage, Reaches, Untouched, Reports, Made
    <3> QED BY <3>2, <3>3, <3>4 DEF Stage, Reaches
  <2> QED BY <2>1, <2>2
<1>4. ASSUME NEW u \in Tasks
      PROVE  Stands(u)'
  <2>1. CASE u = t
    BY <2>1
  <2>2. CASE u # t
    <3>1. /\ task'[u] = task[u] /\ ((u \in torn') <=> (u \in torn)) /\ restarts' = restarts
          /\ \A f \in Files : last'[f] = u => last[f] = u /\ repo'[f] = repo[f]
      BY <2>2 DEF Frame
    <3>2. Stands(u)
      BY DEF RepositoryInv
    <3>3. \A v \in Workers : pc[v] = "restored" /\ cur[v] = u =>
                pc'[v] = "restored" /\ cur'[v] = u
      BY <2>2 DEF Frame
    <3> QED BY <3>1, <3>2, <3>3 DEF Stands, Made
  <2> QED BY <2>1, <2>2
<1> QED BY <1>1, <1>2, <1>3, <1>4 DEF RepositoryInv

\* A step that leaves the files alone, and the report of the task if it has one.
LEMMA SameFits ==
    ASSUME TypeInv, RepositoryInv, NEW t \in Tasks, UNCHANGED <<repo, last, wrote, torn>>,
           task[t] # NoTask /\ task[t].execution # None =>
               task'[t] # NoTask /\ task'[t].execution = task[t].execution
    PROVE  \A x \in Kept(t) : Fits(x, t)'
<1> SUFFICES ASSUME NEW x \in Kept(t) PROVE Fits(x, t)'
  OBVIOUS
<1>1. Fits(x, t)
  BY DEF RepositoryInv
<1> QED BY <1>1 DEF Fits, Untouched

LEMMA SamePlaces ==
    ASSUME RepositoryInv, UNCHANGED <<repo, last, wrote, torn>>,
           \A w \in Workers : report'[w] \in {report[w], NoBackup}
    PROVE  Places'
  BY FilesAssumption DEF RepositoryInv, Places, NoBackup

\* The steps that leave the tasks and the files alone.
Waits(w) ==
    \/ \E t \in Tasks : \/ RequestExecute(w, t) \/ RequestCancel(w, t)
                        \/ RequestRollback(w, t)
    \/ AutoExecute(w) \/ Reply(w) \/ Snapshot(w) \/ Store(w) \/ SaveFails(w)

\* They change nothing that the invariant speaks of but where the thread is, and
\* which copies of the task there are.
LEMMA WaitsKeep ==
    ASSUME TypeInv, RepositoryInv, NEW w \in Workers, NEW t \in Tasks, Frame(w, t),
           pc[w] # "idle" => cur[w] = t, Waits(w)
    PROVE  RepositoryInv'
<1>0. TypeOK
  BY DEF TypeInv
<1> USE <1>0 DEF TypeOK
<1>1. /\ UNCHANGED <<task, repo, last, wrote, torn>>
      /\ \A v \in Workers : report'[v] \in {report[v], NoBackup}
  <2>1. CASE \E u \in Tasks : \/ RequestExecute(w, u) \/ RequestCancel(w, u)
                              \/ RequestRollback(w, u)
    BY <2>1 DEF RequestExecute, RequestCancel, RequestRollback, repoVars
  <2>2. CASE AutoExecute(w) \/ Snapshot(w) \/ Store(w)
    BY <2>2 DEF AutoExecute, Snapshot, Store, repoVars
  <2>3. CASE Reply(w) \/ SaveFails(w)
    BY <2>3 DEF Reply, SaveFails, Leave, repoVars
  <2> QED BY <2>1, <2>2, <2>3 DEF Waits
<1>2. pc[w] # "idle" => Stage(w, t)
  BY DEF RepositoryInv
<1>3. Places' /\ \A x \in Kept(t) : Fits(x, t)'
  BY <1>1, SamePlaces, SameFits
<1>4. \A x : x = task'[t] => Fits(x, t)'
  BY <1>1, <1>3 DEF Kept
<1>5. ASSUME pc'[w] # "idle" PROVE Stage(w, t)'
  <2>0. cur'[w] = t
    BY <1>5 DEF Frame
  <2>1. ASSUME NEW u \in Tasks, RequestExecute(w, u)
        PROVE  pc'[w] = "approved" /\ task[t].status = "awaiting_approval"
    BY <2>0, <2>1 DEF RequestExecute, Executable
  <2>2. ASSUME NEW u \in Tasks, RequestCancel(w, u)
        PROVE  /\ pc'[w] = "cancel"
               /\ task[t].status \notin {"completed", "failed", "rolled_back"}
    BY <2>0, <2>2 DEF RequestCancel
  <2>3. ASSUME NEW u \in Tasks, RequestRollback(w, u)
        PROVE  pc'[w] = "restore" /\ task[t].status \in Done
    <3>1. pc'[w] = "restore" /\ task[t] # NoTask /\ task[t].execution # None
      BY <2>0, <2>3 DEF RequestRollback
    <3>2. \A x \in Kept(t) : Fits(x, t)
      BY DEF RepositoryInv
    <3> QED BY <3>1, <3>2 DEF Fits, Kept
  <2>4. CASE AutoExecute(w)
    <3>1. /\ pc'[w] \in {"approved", "reply"}
          /\ pc'[w] = "approved" => task[t].status = "awaiting_approval"
      BY <1>5, <2>0, <2>4 DEF AutoExecute, Executable
    <3> QED BY <3>1, <1>1 DEF Stage, Reaches
  <2>5. CASE Reply(w) \/ SaveFails(w)
    BY <1>5, <2>5 DEF Reply, SaveFails, Leave
  <2>6. CASE Snapshot(w) \/ Store(w)
    <3>1. /\ pc[w] \in {"save", "store"} /\ pc'[w] \in {"store", then[w]}
          /\ then[w] \in Then /\ then' = then /\ report' = report
          /\ pc'[w] = "run" => unsaved' = {}
      BY <2>6 DEF Snapshot, Store, Then
    <3> HIDE DEF TypeOK
    <3> QED BY <1>1, <1>2, <3>1 DEF Stage, Reaches, Then, Untouched
  <2> QED BY <1>1, <2>1, <2>2, <2>3, <2>4, <2>5, <2>6 DEF Waits, Stage, Reaches
<1>6. Stands(t)'
  <2>1. Stands(t)
    BY DEF RepositoryInv
  <2>2. ASSUME NEW v \in Workers, pc[v] = "restored", cur[v] = t
        PROVE  FALSE
    <3>1. v = w
      BY <2>2 DEF Frame, Handles
    <3> QED BY <2>2, <3>1 DEF Waits, RequestExecute, RequestCancel, RequestRollback,
                              AutoExecute, Reply, Snapshot, Store, SaveFails
  <2> QED BY <1>1, <2>1, <2>2 DEF Stands, Made, Frame
<1> QED BY <1>3, <1>4, <1>5, <1>6, RepositoryKept

\* The steps of a handler that only set the status, or the report and the status.
LEMMA MovesKeep ==
    ASSUME TypeInv, RepositoryInv, NEW w \in Workers, NEW t \in Tasks, Frame(w, t),
           pc[w] # "idle", cur[w] = t, UNCHANGED <<repo, last, wrote, torn, report>>,
           task[t].execution # None => task'[t].execution = task[t].execution,
           task'[t] # NoTask,
           \A x : x = task'[t] => Fits(x, t)',
           pc'[w] # "idle" => Stage(w, t)',
           task'[t].status = "completed" =>
               Made(t) \/ (task[t].status = "completed" /\ pc[w] # "restored")
    PROVE  RepositoryInv'
<1>1. Places' /\ \A x \in Kept(t) : Fits(x, t)'
  BY SamePlaces, SameFits
<1>2. Stands(t)'
  <2>1. Stands(t)
    BY DEF RepositoryInv
  <2>2. \A v \in Workers : pc[v] = "restored" /\ cur[v] = t => v = w
    BY DEF Frame, Handles
  <2> QED BY <2>1, <2>2 DEF Stands, Made, Frame
<1> QED BY <1>1, <1>2, RepositoryKept

\* What the steps of a handler make of the status of its task.
LEMMA HandlersKeep ==
    ASSUME TypeInv, RepositoryInv, NEW w \in Workers, NEW t \in Tasks, Frame(w, t),
           pc[w] # "idle", cur[w] = t,
           \/ BeginPlan(w) \/ BeginExecute(w) \/ BeginComplete(w)
           \/ (ExecutionFails(w) /\ pc[w] = "run") \/ Cancel(w) \/ RollBack(w)
    PROVE  /\ RepositoryInv'
           /\ task'[t].status # task[t].status =>
                  <<task[t].status, task'[t].status>> \in Lifecycle
           /\ task[t].status \in {"executing", "validating"} /\ ~Runs(w, t) =>
                  task'[t].status \in {task[t].status, "cancelled"}
<1>0. TypeOK /\ task[t] # NoTask
  BY DEF TypeInv, HandlesExisting
<1>1. Stage(w, t) /\ \A x \in Kept(t) : Fits(x, t)
  BY DEF RepositoryInv
<1>2. task[t].status \in Status \ {"absent"}
  BY <1>0 DEF TypeOK, BuildTask, Status
<1>3. PICK s \in {"planning", "executing", "validating", "failed", "cancelled",
                  "rolled_back"} :
          /\ Transition(t, s)
          /\ s = "planning" => BeginPlan(w)
          /\ s = "executing" => BeginExecute(w)
          /\ s = "validating" => BeginComplete(w)
          /\ s = "failed" => ExecutionFails(w) /\ pc[w] = "run"
          /\ s = "cancelled" => Cancel(w)
          /\ s = "rolled_back" => RollBack(w)
  BY DEF BeginPlan, BeginExecute, BeginComplete, ExecutionFails, Cancel, RollBack
<1>4. /\ task'[t] # NoTask /\ task'[t].execution = task[t].execution
      /\ task'[t].status = s
  BY <1>0, <1>3, TransitionKeeps DEF Status
<1>5. UNCHANGED <<repo, last, wrote, torn, report>>
  BY DEF BeginPlan, BeginExecute, BeginComplete, ExecutionFails, Cancel, RollBack, repoVars
\* Where the task stood, and where the handler goes on.
<1>6. /\ s = "planning" => task[t].status = "queued"
      /\ s = "executing" => task[t].status = "awaiting_approval"
      /\ s = "validating" =>
             task[t].status = "executing" /\ Reports(w, t) /\ Made(t) /\ Runs(w, t)
      /\ s = "failed" => task[t].status = "executing" /\ Untouched(t) /\ Runs(w, t)
      /\ s = "cancelled" => task[t].status \notin {"completed", "failed", "rolled_back"}
      /\ s = "rolled_back" =>
             /\ task[t].status \in Done /\ t \notin torn
             /\ \A f \in Files : last[f] = t => repo[f] = task[t].execution[f]
  BY <1>1, <1>3 DEF Stage, Reaches, Runs, Handles, BeginPlan, BeginExecute, BeginComplete,
                    Cancel, RollBack
<1>7. /\ s = "planning" => pc'[w] = "planning"
      /\ s = "executing" => pc'[w] = "save" /\ then'[w] = "run"
      /\ s = "validating" => pc'[w] = "validated"
      /\ s \in {"failed", "cancelled", "rolled_back"} => pc'[w] = "save" /\ then'[w] = "reply"
  BY <1>0, <1>3 DEF TypeOK, BeginPlan, BeginExecute, BeginComplete, ExecutionFails, Cancel,
                    RollBack
<1>8. Fits(task[t], t)
  BY <1>1 DEF Kept
<1>9. Untouched(t) => \A f \in Files : last[f] # t
  BY DEF RepositoryInv, Places, Untouched
<1>10. s = "executing" => Untouched(t)
  BY <1>0, <1>6, <1>8 DEF Fits, Late
<1>11. ASSUME NEW x, x = task'[t]
       PROVE  Fits(x, t)'
  BY <1>0, <1>3, <1>4, <1>5, <1>6, <1>8, <1>9, <1>11 DEF Fits, Untouched, Late, Done
<1>12. Stage(w, t)'
  <2>1. (Reports(w, t)' <=> Reports(w, t)) /\ (Made(t)' <=> Made(t)) /\ (Untouched(t)' <=> Untouched(t))
    BY <1>5 DEF Reports, Made, Untouched
  <2> QED BY <1>3, <1>4, <1>6, <1>7, <1>10, <2>1 DEF Stage, Reaches
<1>13. RepositoryInv'
  BY <1>4, <1>5, <1>11, <1>12, MovesKeep
<1>14. task'[t].status # task[t].status => <<task[t].status, task'[t].status>> \in Lifecycle
  BY <1>2, <1>3, <1>4, <1>6 DEF Lifecycle, Status, Done
<1> QED BY <1>3, <1>4, <1>6, <1>13, <1>14 DEF Done

\* The steps that write the plan and the report.
LEMMA WritersKeep ==
    ASSUME TypeInv, RepositoryInv, NEW w \in Workers, NEW t \in Tasks, Frame(w, t),
           pc[w] # "idle", cur[w] = t,
           Complete(w) \/ \E planned \in BOOLEAN : EndPlan(w, planned)
    PROVE  /\ RepositoryInv'
           /\ <<task[t].status, task'[t].status>> \in Lifecycle
           /\ task[t].status \in {"executing", "validating"} => Runs(w, t)
<1>0. TypeOK /\ task[t] # NoTask /\ task[t] \in BuildTask
  BY DEF TypeInv, HandlesExisting, TypeOK
<1>1. Stage(w, t) /\ \A x \in Kept(t) : Fits(x, t)
  BY DEF RepositoryInv
<1>2. Fits(task[t], t)
  BY <1>1 DEF Kept
<1>3. /\ UNCHANGED <<repo, last, wrote, torn, report>>
      /\ pc'[w] = "save" /\ then'[w] \in {"reply", "auto"}
  BY <1>0 DEF TypeOK, Complete, EndPlan, repoVars
<1>4. CASE Complete(w)
  <2>1. /\ task' = [task EXCEPT ![t] = [task[t] EXCEPT !.execution = report[w],
                                                       !.status = "completed"]]
        /\ pc[w] = "validated" /\ then'[w] = "reply"
    BY <1>0, <1>4 DEF TypeOK, Complete
  <2>2. task'[t].execution = report[w] /\ task'[t].status = "completed" /\ task'[t] # NoTask
    <3>1. task'[t] = [task[t] EXCEPT !.execution = report[w], !.status = "completed"]
      BY <1>0, <2>1 DEF TypeOK
    <3>2. task'[t].execution = report[w] /\ task'[t].status = "completed"
      BY <1>0, <3>1 DEF BuildTask
    <3> QED BY <3>2 DEF NoTask
  <2>3. task[t].status = "validating" /\ Reports(w, t) /\ Made(t) /\ Runs(w, t)
    BY <1>1, <2>1 DEF Stage, Runs, Handles
  <2>4. task[t].execution = None
    BY <1>0, <1>2, <2>3 DEF Fits, Done
  <2>5. report[w] # None /\ Places
    BY <1>0, BackupsTyped DEF TypeOK, RepositoryInv
  <2>6. ASSUME NEW x, x = task'[t]
        PROVE  Fits(x, t)'
    BY <1>3, <2>2, <2>3, <2>5, <2>6 DEF Fits, Reports, Made, Places, Late, Done
  <2>7. Stage(w, t)'
    BY <1>3, <2>1, <2>2 DEF Stage, Reaches
  <2>8. RepositoryInv'
    BY <1>3, <2>2, <2>3, <2>4, <2>6, <2>7, MovesKeep
  <2> QED BY <2>2, <2>3, <2>8 DEF Lifecycle
<1>5. ASSUME NEW planned \in BOOLEAN, EndPlan(w, planned)
      PROVE  /\ RepositoryInv'
             /\ <<task[t].status, task'[t].status>> \in Lifecycle
             /\ task[t].status = "planning"
  <2> DEFINE s == IF planned THEN "awaiting_approval" ELSE "failed"
  <2>1. /\ task' = [task EXCEPT ![t] = [task[t] EXCEPT !.plan = planned, !.status = s]]
        /\ pc[w] = "planning" /\ then'[w] = "auto"
    BY <1>0, <1>5 DEF TypeOK, EndPlan
  <2>2. task'[t].execution = task[t].execution /\ task'[t].status = s /\ task'[t] # NoTask
    <3>1. task'[t] = [task[t] EXCEPT !.plan = planned, !.status = s]
      BY <1>0, <2>1 DEF TypeOK
    <3>2. task'[t].execution = task[t].execution /\ task'[t].status = s
      BY <1>0, <3>1 DEF BuildTask
    <3> QED BY <3>2 DEF NoTask
  <2>3. task[t].status = "planning"
    BY <1>1, <2>1 DEF Stage
  <2>4. Untouched(t) /\ task[t].execution = None
    BY <1>0, <1>2, <2>3 DEF Fits, Done, Late
  <2>5. \A f \in Files : last[f] # t
    BY <2>4 DEF RepositoryInv, Places, Untouched
  <2>6. ASSUME NEW x, x = task'[t]
        PROVE  Fits(x, t)'
    BY <1>3, <2>2, <2>4, <2>5, <2>6 DEF Fits, Untouched, Done
  <2>7. Stage(w, t)'
    BY <1>3, <2>1, <2>2 DEF Stage, Reaches
  <2>8. RepositoryInv'
    BY <1>3, <2>2, <2>4, <2>6, <2>7, MovesKeep
  <2> QED BY <2>2, <2>3, <2>8 DEF Lifecycle
<1> QED BY <1>4, <1>5

\* A new task is queued, saved with all the others, and has written nothing.
LEMMA CreateKeeps ==
    ASSUME TypeInv, RepositoryInv, NEW w \in Workers, NEW t \in Tasks, Frame(w, t),
           NEW request \in Requests, CreateTask(w, t, request)
    PROVE  /\ RepositoryInv'
           /\ task[t].status = "absent" /\ task'[t].status = "queued"
<1>0. TypeOK
  BY DEF TypeInv
<1>1. /\ pc[w] = "idle" /\ pc'[w] = "store" /\ then'[w] = "plan"
      /\ task[t] = NoTask /\ wrote[t] = {}
      /\ UNCHANGED <<repo, last, wrote, torn, report>>
      /\ task'[t].execution = None /\ task'[t].status = "queued"
  BY <1>0 DEF CreateTask, TypeOK, repoVars
<1>2. Untouched(t) /\ \A f \in Files : last[f] # t
  BY <1>1 DEF RepositoryInv, Places, Untouched
<1>3. Places' /\ \A x \in Kept(t) : Fits(x, t)'
  BY <1>1, SamePlaces, SameFits
<1>4. \A x : x = task'[t] => Fits(x, t)'
  BY <1>1, <1>2 DEF Fits, Untouched, Done
<1>5. Stage(w, t)' /\ Stands(t)'
  BY <1>1 DEF Stage, Reaches, Stands
<1>6. RepositoryInv'
  BY <1>1, <1>3, <1>4, <1>5, RepositoryKept
<1> QED BY <1>1, <1>6 DEF NoTask

\* A change set is written only for a task that the file, and every payload that can
\* still reach it, shows as executing.
LEMMA OneCopy ==
    ASSUME TypeInv, AckedInv, RepositoryInv, NEW w \in Workers, NEW t \in Tasks,
           Frame(w, t), cur[w] = t, pc[w] = "run"
    PROVE  /\ task[t].status = "executing" /\ task[t].execution = None
           /\ \A x \in Kept(t) : x = task[t]
<1>1. Stage(w, t) /\ \A x \in Kept(t) : Fits(x, t)
  BY DEF RepositoryInv
<1>2. task[t].status = "executing" /\ t \notin unsaved
  BY <1>1 DEF Stage, Reaches
<1>3. SavedTask(t)
  <2>1. \A v \in Workers : ~OwesSaveOf(v, t)
    BY DEF OwesSaveOf, Frame, Handles
  <2> QED BY <2>1 DEF AckedInv
<1>4. disk[t] = task[t] /\ \A v \in Workers : pc[v] = "store" => snap[v][t] = task[t]
  BY <1>2, <1>3 DEF SavedTask, Frame, Handles
<1>5. task[t].execution = None
  <2>1. task[t] # NoTask
    BY <1>2 DEF NoTask
  <2> QED BY <1>1, <1>2, <2>1 DEF Fits, Kept, Done
<1> QED BY <1>2, <1>4, <1>5 DEF Kept, Storing

LEMMA ApplyKeeps ==
    ASSUME TypeInv, AckedInv, RepositoryInv, NEW w \in Workers, NEW t \in Tasks,
           Frame(w, t), cur[w] = t, Apply(w)
    PROVE  RepositoryInv'
<1>0. TypeOK /\ task[t] # NoTask /\ pc[w] = "run"
  BY DEF TypeInv, HandlesExisting, Apply
<1>1. PICK paths \in ChangeSets :
          /\ report' = [report EXCEPT ![w] = [f \in Files |-> IF f \in paths THEN repo[f]
                                                              ELSE "untouched"]]
          /\ Write(t, paths, ChangesOf(t))
          /\ wrote' = [wrote EXCEPT ![t] = @ \cup paths]
  BY DEF Apply
<1>2. pc'[w] = "applied" /\ UNCHANGED <<task, torn>>
  BY <1>0 DEF Apply, TypeOK
<1>3. Untouched(t) /\ paths \subseteq Files /\ Places
  BY <1>0, ChangeSetsTyped DEF RepositoryInv, Stage, Reaches
<1>4. wrote'[t] = paths /\ \A u \in Tasks : wrote[u] \subseteq wrote'[u]
  BY <1>0, <1>1, <1>3 DEF TypeOK, Untouched
<1>5. \A f \in Files :
          /\ f \in paths => repo'[f] = t /\ last'[f] = t
          /\ f \notin paths => repo'[f] = repo[f] /\ last'[f] = last[f] /\ last[f] # t
  BY <1>1, <1>3 DEF Write, ChangesOf, Places, Untouched
<1>6. /\ \A f \in Files : report'[w][f] = IF f \in paths THEN repo[f] ELSE "untouched"
      /\ \A v \in Workers : v # w => report'[v] = report[v]
  BY <1>0, <1>1 DEF TypeOK
<1>7. \A f \in Files : repo[f] # t /\ repo[f] # "untouched"
  BY <1>0, <1>3, FilesAssumption DEF TypeOK, Places, Untouched, Content
<1>8. Places'
  <2>1. ASSUME NEW f \in Files
        PROVE  /\ repo'[f] \in Tasks => f \in wrote'[repo'[f]]
               /\ last'[f] \in Tasks => f \in wrote'[last'[f]]
    BY <1>3, <1>4, <1>5 DEF Places
  <2>2. ASSUME NEW f \in Files, NEW v \in Workers
        PROVE  report'[v][f] \in Tasks => f \in wrote'[report'[v][f]]
    BY <1>3, <1>4, <1>6, FilesAssumption DEF Places
  <2>3. ASSUME NEW u \in torn' PROVE wrote'[u] # {}
    BY <1>0, <1>2, <1>3, <1>4, <2>3 DEF Places, TypeOK
  <2> QED BY <2>1, <2>2, <2>3 DEF Places
<1>9. task[t].status = "executing" /\ task[t].execution = None /\ \A x \in Kept(t) : x = task[t]
  BY <1>0, OneCopy
<1>10. \A x : x = task[t] => Fits(x, t)'
  BY <1>2, <1>9 DEF Fits, Late, Done
<1>11. Stage(w, t)'
  <2>1. Reports(w, t)' /\ Made(t)'
    BY <1>2, <1>3, <1>4, <1>5, <1>6, <1>7, FilesAssumption DEF Reports, Made, Untouched
  <2> QED BY <1>2, <1>9, <2>1 DEF Stage, Reaches
<1>12. Stands(t)'
  BY <1>2, <1>9 DEF Stands
<1>13. /\ \A x \in Kept(t) : Fits(x, t)'
       /\ \A x : x = task'[t] => Fits(x, t)'
  BY <1>2, <1>9, <1>10
<1> QED BY <1>0, <1>8, <1>11, <1>12, <1>13, RepositoryKept

\* A torn execution leaves files of a task that is known to be torn.
LEMMA TornKeeps ==
    ASSUME TypeInv, AckedInv, RepositoryInv, NEW w \in Workers, NEW t \in Tasks,
           Frame(w, t), cur[w] = t, ApplyTorn(w)
    PROVE  /\ RepositoryInv'
           /\ <<task[t].status, task'[t].status>> \in Lifecycle
           /\ Runs(w, t)
<1>0. TypeOK /\ task[t] # NoTask /\ pc[w] = "run"
  BY DEF TypeInv, HandlesExisting, ApplyTorn
<1>1. PICK paths \in ChangeSets : \E kept \in (SUBSET paths) \ {{}} :
          /\ Write(t, kept, ChangesOf(t))
          /\ wrote' = [wrote EXCEPT ![t] = @ \cup kept]
  BY DEF ApplyTorn
<1>2. PICK kept \in (SUBSET paths) \ {{}} :
          /\ Write(t, kept, ChangesOf(t))
          /\ wrote' = [wrote EXCEPT ![t] = @ \cup kept]
  BY <1>1
<1>3. /\ pc'[w] = "save" /\ then'[w] = "reply" /\ report' = report
      /\ torn' = torn \cup {t} /\ Transition(t, "failed")
  BY <1>0 DEF ApplyTorn, TypeOK
<1>4. task'[t].execution = task[t].execution /\ task'[t].status = "failed" /\ task'[t] # NoTask
  BY <1>0, <1>3, TransitionKeeps DEF Status
<1>5. Untouched(t) /\ kept \subseteq Files /\ kept # {} /\ Places
  BY <1>0, ChangeSetsTyped DEF RepositoryInv, Stage, Reaches
<1>6. wrote'[t] = kept /\ \A u \in Tasks : wrote[u] \subseteq wrote'[u]
  BY <1>0, <1>2, <1>5 DEF TypeOK, Untouched
<1>7. \A f \in Files :
          /\ f \in kept => repo'[f] = t /\ last'[f] = t
          /\ f \notin kept => repo'[f] = repo[f] /\ last'[f] = last[f]
  BY <1>2 DEF Write, ChangesOf
<1>8. Places'
  <2>1. ASSUME NEW f \in Files
        PROVE  /\ repo'[f] \in Tasks => f \in wrote'[repo'[f]]
               /\ last'[f] \in Tasks => f \in wrote'[last'[f]]
    BY <1>5, <1>6, <1>7 DEF Places
  <2>2. ASSUME NEW f \in Files, NEW v \in Workers
        PROVE  report'[v][f] \in Tasks => f \in wrote'[report'[v][f]]
    BY <1>3, <1>5, <1>6 DEF Places
  <2>3. ASSUME NEW u \in torn' PROVE wrote'[u] # {}
    BY <1>0, <1>3, <1>5, <1>6, <2>3 DEF Places, TypeOK
  <2> QED BY <2>1, <2>2, <2>3 DEF Places
<1>9. task[t].status = "executing" /\ task[t].execution = None /\ \A x \in Kept(t) : x = task[t]
  BY <1>0, OneCopy
<1>10. \A x : x = task[t] \/ x = task'[t] => Fits(x, t)'
  BY <1>3, <1>4, <1>9 DEF Fits, Late, Done
<1>11. Stage(w, t)' /\ Stands(t)'
  BY <1>3, <1>4 DEF Stage, Reaches, Stands
<1>12. RepositoryInv'
  BY <1>0, <1>8, <1>9, <1>10, <1>11, RepositoryKept
<1>13. Runs(w, t)
  BY <1>0 DEF Runs, Handles
<1> QED BY <1>4, <1>9, <1>12, <1>13 DEF Lifecycle

\* What a restore from a backup of just the files that the task wrote, whole or not,
\* leaves of the invariant.
LEMMA RestoreKeepsFits ==
    ASSUME TypeInv, RepositoryInv, NEW w \in Workers, NEW t \in Tasks, Frame(w, t),
           NEW b \in Backup, RestoreWhole(t, b) \/ RestoreTorn(t, b), report' = report,
           \A f \in Files : /\ b[f] # t /\ ((b[f] # "untouched") <=> (f \in wrote[t]))
                            /\ b[f] \in Tasks => f \in wrote[b[f]],
           task[t].execution \in {None, b}, task'[t].execution = task[t].execution,
           task'[t] # NoTask
    PROVE  /\ Places' /\ \A x \in Kept(t) : Fits(x, t)'
           /\ wrote' = wrote
           /\ RestoreWhole(t, b) => /\ t \notin torn'
                                    /\ \A f \in Files : last'[f] = t => repo'[f] = b[f]
           /\ RestoreTorn(t, b) => t \in torn'
<1>0. TypeOK /\ Places
  BY DEF TypeInv, RepositoryInv
<1>1. PICK restored \in SUBSET Backed(b) :
          /\ Write(t, restored, b) /\ wrote' = wrote
          /\ RestoreWhole(t, b) => restored = Backed(b) /\ torn' = torn \ {t}
          /\ RestoreTorn(t, b) => restored # Backed(b) /\ torn' = torn \cup {t}
  <2>1. CASE RestoreWhole(t, b) /\ ~RestoreTorn(t, b)
    BY <2>1 DEF RestoreWhole
  <2>2. CASE RestoreTorn(t, b) /\ ~RestoreWhole(t, b)
    BY <2>2 DEF RestoreTorn
  <2>3. ~(RestoreTorn(t, b) /\ RestoreWhole(t, b))
    <3>1. faults' = faults => ~Fault
      BY <1>0 DEF Fault, TypeOK
    <3> QED BY <3>1 DEF RestoreTorn, RestoreWhole
  <2> QED BY <2>1, <2>2, <2>3
<1>2. \A f \in Files :
          /\ f \in restored => repo'[f] = b[f] /\ last'[f] = t
          /\ f \notin restored => repo'[f] = repo[f] /\ last'[f] = last[f]
  BY <1>1 DEF Write
<1>3. Backed(b) = wrote[t]
  BY <1>0 DEF Backed, TypeOK
<1>4. ASSUME RestoreTorn(t, b) PROVE wrote[t] # {}
  BY <1>1, <1>3, <1>4
<1>5. Places'
  <2>1. ASSUME NEW f \in Files
        PROVE  /\ repo'[f] \in Tasks => f \in wrote'[repo'[f]]
               /\ last'[f] \in Tasks => f \in wrote'[last'[f]]
    BY <1>0, <1>1, <1>2, <1>3 DEF Places
  <2>2. ASSUME NEW f \in Files, NEW v \in Workers
        PROVE  report'[v][f] \in Tasks => f \in wrote'[report'[v][f]]
    BY <1>0, <1>1 DEF Places
  <2>3. ASSUME NEW u \in torn' PROVE wrote'[u] # {}
    BY <1>0, <1>1, <1>4, <2>3 DEF Places
  <2> QED BY <2>1, <2>2, <2>3 DEF Places
<1>6. ASSUME NEW x \in Kept(t)
      PROVE  Fits(x, t)'
  <2>1. Fits(x, t)
    BY DEF RepositoryInv
  <2>2. x # NoTask /\ x.execution # None => x.execution = b
    BY <2>1 DEF Fits
  <2>3. CASE RestoreWhole(t, b)
    <3>1. \A f \in Files : last'[f] = t => repo'[f] = b[f]
      BY <1>0, <1>1, <1>2, <1>3, <2>3 DEF Places
    <3>2. (Untouched(t) => Untouched(t)') /\ (~Untouched(t)' => ~Untouched(t))
      BY <1>1, <2>3 DEF Untouched
    <3> QED BY <1>1, <2>1, <2>2, <3>1, <3>2 DEF Fits, Done
  <2>4. CASE RestoreTorn(t, b)
    <3>1. t \in torn' /\ ~Untouched(t)
      BY <1>1, <1>4, <2>4 DEF Untouched
    <3>2. \A f \in Files : last'[f] = t => repo'[f] = b[f] \/ (last[f] = t /\ repo'[f] = repo[f])
      BY <1>2
    <3> QED BY <1>1, <2>1, <2>2, <3>1, <3>2 DEF Fits, Done
  <2> QED BY <2>3, <2>4
<1>7. RestoreWhole(t, b) => \A f \in Files : last'[f] = t => repo'[f] = b[f]
  BY <1>0, <1>1, <1>2, <1>3 DEF Places
<1> QED BY <1>1, <1>5, <1>6, <1>7

\* A failed validation puts back what the files were before the execution, or leaves
\* the task torn.
LEMMA ValidationKeeps ==
    ASSUME TypeInv, RepositoryInv, NEW w \in Workers, NEW t \in Tasks, Frame(w, t),
           cur[w] = t, ValidationFails(w)
    PROVE  /\ RepositoryInv'
           /\ <<task[t].status, task'[t].status>> \in Lifecycle
           /\ Runs(w, t)
<1>0. TypeOK /\ task[t] # NoTask
  BY DEF TypeInv, HandlesExisting, ValidationFails
<1>1. /\ Transition(t, "failed") /\ pc[w] = "applied" /\ pc'[w] = "save"
      /\ then'[w] = "reply" /\ report' = report
      /\ RestoreWhole(t, report[w]) \/ RestoreTorn(t, report[w])
  BY <1>0 DEF ValidationFails, TypeOK
<1>2. task'[t].execution = task[t].execution /\ task'[t].status = "failed" /\ task'[t] # NoTask
  BY <1>0, <1>1, TransitionKeeps DEF Status
<1>3. /\ task[t].status = "executing" /\ Reports(w, t)
      /\ Places /\ \A x \in Kept(t) : Fits(x, t)
  BY <1>1 DEF RepositoryInv, Stage
<1>4. task[t].execution = None
  BY <1>0, <1>3 DEF Fits, Kept, Done
<1>5. PICK b \in Backup : b = report[w]
  BY <1>0 DEF TypeOK
<1>6. \A f \in Files : /\ b[f] # t /\ ((b[f] # "untouched") <=> (f \in wrote[t]))
                       /\ b[f] \in Tasks => f \in wrote[b[f]]
  BY <1>3, <1>5 DEF Reports, Places
<1>7. /\ Places' /\ \A x \in Kept(t) : Fits(x, t)'
      /\ t \notin torn' => \A f \in Files : last'[f] = t => repo'[f] = b[f]
  BY <1>1, <1>2, <1>4, <1>5, <1>6, RestoreKeepsFits
<1>8. ASSUME NEW x, x = task'[t]
      PROVE  Fits(x, t)'
  BY <1>2, <1>4, <1>6, <1>7, <1>8 DEF Fits, Late, Done
<1>9. Stage(w, t)' /\ Stands(t)'
  BY <1>1, <1>2 DEF Stage, Reaches, Stands
<1>10. RepositoryInv'
  BY <1>1, <1>7, <1>8, <1>9, RepositoryKept
<1>11. Runs(w, t)
  BY <1>1 DEF Runs, Handles
<1> QED BY <1>2, <1>3, <1>10, <1>11 DEF Lifecycle

\* A rollback puts back what the files were before the execution that the task's
\* report is of, or leaves the task torn.
LEMMA RestoreKeeps ==
    ASSUME TypeInv, RepositoryInv, NEW w \in Workers, NEW t \in Tasks, Frame(w, t),
           cur[w] = t, Restore(w) \/ RestoreFails(w)
    PROVE  RepositoryInv'
<1>0. TypeOK /\ task[t] # NoTask /\ pc[w] = "restore" /\ task[t] \in BuildTask
  BY DEF TypeInv, TypeOK, HandlesExisting, Restore, RestoreFails
<1>1. /\ UNCHANGED <<task, report>>
      /\ pc'[w] = IF Restore(w) THEN "restored" ELSE "reply"
  BY <1>0 DEF Restore, RestoreFails, TypeOK
<1>2. task[t].status \in Done /\ \A x \in Kept(t) : Fits(x, t)
  BY <1>0 DEF RepositoryInv, Stage
<1>3. PICK b \in Backup : b = task[t].execution
  BY <1>0, <1>2 DEF Fits, Kept, BuildTask, Execution
<1>4. \A f \in Files : /\ b[f] # t /\ ((b[f] # "untouched") <=> (f \in wrote[t]))
                       /\ b[f] \in Tasks => f \in wrote[b[f]]
  BY <1>0, <1>2, <1>3 DEF Fits, Kept
<1>5. \A v \in Workers : pc[v] = "restored" /\ cur[v] = t => FALSE
  BY <1>0 DEF Frame, Handles
<1>6. CASE RestoreWhole(t, b) \/ RestoreTorn(t, b)
  <2>1. /\ Places' /\ \A x \in Kept(t) : Fits(x, t)'
        /\ RestoreWhole(t, b) => /\ t \notin torn'
                                 /\ \A f \in Files : last'[f] = t => repo'[f] = b[f]
        /\ RestoreTorn(t, b) => t \in torn'
    BY <1>0, <1>1, <1>3, <1>4, <1>6, RestoreKeepsFits
  <2>2. \A x : x = task'[t] => Fits(x, t)'
    BY <1>1, <2>1 DEF Kept
  <2>3. Restore(w) => RestoreWhole(t, b)
    BY <1>3 DEF Restore
  <2>4. ~Restore(w) => pc'[w] = "reply" /\ (RestoreTorn(t, b) \/ b = NoBackup)
    BY <1>0, <1>1, <1>3, BackupsTyped DEF RestoreFails
  <2>5. CASE Restore(w)
    <3>1. Stage(w, t)'
      BY <1>1, <1>2, <1>3, <2>1, <2>3, <2>5 DEF Stage, Reaches
    <3>2. pc'[w] = "restored" /\ cur'[w] = t
      BY <1>1, <2>5 DEF Frame
    <3>3. Stands(t)'
      BY <3>2 DEF Stands
    <3> QED BY <1>0, <2>1, <2>2, <3>1, <3>3, RepositoryKept
  <2>6. CASE ~Restore(w) /\ RestoreTorn(t, b)
    <3>1. Stage(w, t)' /\ Stands(t)'
      BY <2>1, <2>4, <2>6 DEF Stage, Reaches, Stands
    <3> QED BY <1>0, <2>1, <2>2, <3>1, RepositoryKept
  <2>7. CASE ~Restore(w) /\ b = NoBackup
    <3>1. UNCHANGED <<repo, last, wrote, torn>>
      BY <1>3, <2>7 DEF RestoreFails, repoVars
    <3>2. Stage(w, t)' /\ Stands(t)'
      <4>1. Stands(t)
        BY DEF RepositoryInv
      <4> QED BY <1>1, <1>5, <2>4, <2>7, <3>1, <4>1 DEF Stage, Reaches, Stands, Made, Frame
    <3> QED BY <1>0, <2>1, <2>2, <3>2, RepositoryKept
  <2> QED BY <2>4, <2>5, <2>6, <2>7
<1>7. CASE ~(RestoreWhole(t, b) \/ RestoreTorn(t, b))
  <2>1. pc'[w] = "reply" /\ UNCHANGED <<repo, last, wrote, torn>>
    BY <1>1, <1>3, <1>7 DEF Restore, RestoreFails, repoVars
  <2>2. Places' /\ \A x \in Kept(t) : Fits(x, t)'
    BY <1>1, <2>1, SamePlaces, SameFits
  <2>3. \A x : x = task'[t] => Fits(x, t)'
    BY <1>1, <2>2 DEF Kept
  <2>4. Stage(w, t)' /\ Stands(t)'
    <3>1. Stands(t)
      BY DEF RepositoryInv
    <3> QED BY <1>1, <1>5, <2>1, <3>1 DEF Stage, Reaches, Stands, Made, Frame
  <2> QED BY <1>0, <2>2, <2>3, <2>4, RepositoryKept
<1> QED BY <1>6, <1>7

\* A restart ends every handler and brings back what was saved.
LEMMA RestartKeeps == TypeInv /\ RepositoryInv /\ Restart => RepositoryInv'
<1> SUFFICES ASSUME TypeInv, RepositoryInv, Restart PROVE RepositoryInv'
  OBVIOUS
<1>1. /\ task' = disk /\ disk' = disk /\ UNCHANGED <<repo, last, wrote, torn>>
      /\ pc' = [w \in Workers |-> "idle"] /\ report' = [w \in Workers |-> NoBackup]
      /\ restarts' # 0
  BY BoundsAssumption DEF Restart, repoVars, TypeInv, TypeOK
<1>2. OneHandler' /\ (\A w \in Workers : pc'[w] = "idle") /\ \A t \in Tasks : Stands(t)'
  BY <1>1 DEF OneHandler, Stands
<1>3. Places'
  BY <1>1, FilesAssumption DEF RepositoryInv, Places, NoBackup
<1>4. ASSUME NEW t \in Tasks, NEW x \in Kept(t)'
      PROVE  Fits(x, t)'
  <2>1. x = disk[t] /\ x = task'[t]
    BY <1>1, <1>4 DEF Kept, Storing
  <2>2. Fits(x, t)
    BY <2>1 DEF RepositoryInv, Kept
  <2> QED BY <1>1, <2>1, <2>2 DEF Fits, Untouched
<1> QED BY <1>2, <1>3, <1>4 DEF RepositoryInv

\* Every step keeps the invariant, moves a task along its life cycle if it is not a
\* restart, and leaves an executing task that no thread runs to a cancel.
LEMMA NextKeepsRepository ==
    ASSUME SerialClient, \A r \in Requests : ~r.autonomous
    PROVE  TypeInv /\ AckedInv /\ RepositoryInv /\ [Next]_vars =>
               /\ RepositoryInv'
               /\ restarts' = restarts => \A t \in Tasks : task'[t].status # task[t].status =>
                      <<task[t].status, task'[t].status>> \in Lifecycle
               /\ \A t \in Tasks :
                      /\ task[t].status \in {"executing", "validating"}
                      /\ t \notin unsaved /\ \A w \in Workers : ~Runs(w, t)
                      => task'[t].status \in {task[t].status, "cancelled"}
<1> DEFINE Moved(t) ==
        task'[t].status # task[t].status => <<task[t].status, task'[t].status>> \in Lifecycle
    Orphan(t) ==
        /\ task[t].status \in {"executing", "validating"}
        /\ t \notin unsaved /\ \A w \in Workers : ~Runs(w, t)
        => task'[t].status \in {task[t].status, "cancelled"}
<1> SUFFICES ASSUME TypeInv, AckedInv, RepositoryInv, [Next]_vars
             PROVE  /\ RepositoryInv'
                    /\ restarts' = restarts => \A t \in Tasks : Moved(t)
                    /\ \A t \in Tasks : Orphan(t)
  OBVIOUS
<1>0. TypeOK /\ \A w \in Workers : pc[w] # "idle" => ~Autonomous(w)
  BY DEF Autonomous, BuildTask, TypeInv, TypeOK, HandlesExisting
<1>1. CASE Restart
  <2>1. RepositoryInv' /\ restarts' # restarts
    BY <1>0, <1>1, RestartKeeps, BoundsAssumption DEF Restart, TypeOK
  <2>2. ASSUME NEW t \in Tasks, task[t].status \in {"executing", "validating"},
               t \notin unsaved, \A w \in Workers : ~Runs(w, t)
        PROVE  disk[t] = task[t]
    <3>1. ASSUME NEW w \in Workers, cur[w] = t
          PROVE  pc[w] \notin {"planning", "save", "store", "validated"}
      <4>1. pc[w] # "idle" => Stage(w, t) /\ Handles(w, t)
        BY <3>1 DEF RepositoryInv, Handles
      <4>2. then[w] \in Then
        BY <1>0 DEF TypeOK
      <4> QED BY <2>2, <4>1, <4>2 DEF Stage, Reaches, Runs, Then, Done
    <3> QED BY <2>2, <3>1 DEF AckedInv, OwesSaveOf, SavedTask
  <2> QED BY <1>1, <2>1, <2>2 DEF Restart
<1>2. ASSUME NEW w \in Workers, Arrival(w) \/ Handler(w)
      PROVE  RepositoryInv' /\ \A t \in Tasks : Moved(t) /\ Orphan(t)
  <2>0. ~(BeginProgress(w) \/ DumpProgress(w) \/ StoreProgress(w) \/ PublishNothing(w))
    BY <1>0 DEF BeginProgress, DumpProgress, StoreProgress, PublishNothing, AckedInv
  <2>1. PICK t \in Tasks : Frame(w, t) /\ (pc[w] # "idle" => cur[w] = t)
    BY <1>2, <2>0, StepFrame
  <2>2. \A u \in Tasks : u # t => Moved(u) /\ Orphan(u)
    BY <2>1 DEF Frame
  <2> SUFFICES RepositoryInv' /\ Moved(t) /\ Orphan(t)
    BY <2>2
  <2>3. ASSUME task' = task PROVE Moved(t) /\ Orphan(t)
    BY <2>3
  <2>4. CASE Waits(w)
    <3>1. task' = task
      BY <2>4 DEF Waits, RequestExecute, RequestCancel, RequestRollback, AutoExecute,
                  Reply, Snapshot, Store, SaveFails
    <3> QED BY <2>1, <2>3, <2>4, <3>1, WaitsKeep
  <2>5. ASSUME NEW u \in Tasks, NEW request \in Requests, CreateTask(w, u, request)
        PROVE  RepositoryInv' /\ Moved(t) /\ Orphan(t)
    <3>1. u = t
      BY <2>1, <2>5, <1>0 DEF Frame, CreateTask, TypeOK
    <3> QED BY <2>1, <2>5, <3>1, CreateKeeps DEF Lifecycle
  <2>6. CASE \/ BeginPlan(w) \/ BeginExecute(w) \/ BeginComplete(w)
             \/ ExecutionFails(w) \/ Cancel(w) \/ RollBack(w)
    <3>1. pc[w] # "idle" /\ (ExecutionFails(w) => pc[w] = "run")
      BY <2>6 DEF BeginPlan, BeginExecute, BeginComplete, ExecutionFails,
                  Cancel, RollBack, AckedInv
    <3> QED BY <2>1, <2>6, <3>1, HandlersKeep
  <2>7. CASE Complete(w) \/ \E planned \in BOOLEAN : EndPlan(w, planned)
    <3>1. pc[w] # "idle"
      BY <2>7 DEF Complete, EndPlan
    <3> QED BY <2>1, <2>7, <3>1, WritersKeep
  <2>8. CASE Restore(w) \/ RestoreFails(w)
    <3>1. pc[w] # "idle" /\ task' = task
      BY <2>8 DEF Restore, RestoreFails
    <3> QED BY <2>1, <2>3, <2>8, <3>1, RestoreKeeps
  <2>9. CASE Apply(w)
    <3>1. pc[w] # "idle" /\ task' = task
      BY <2>9 DEF Apply
    <3> QED BY <2>1, <2>3, <2>9, <3>1, ApplyKeeps
  <2>10. CASE ApplyTorn(w)
    <3>1. pc[w] # "idle"
      BY <2>10 DEF ApplyTorn
    <3> QED BY <2>1, <2>10, <3>1, TornKeeps
  <2>11. CASE ValidationFails(w)
    <3>1. pc[w] # "idle"
      BY <2>11 DEF ValidationFails
    <3> QED BY <2>1, <2>11, <3>1, ValidationKeeps
  <2> QED BY <1>2, <2>0, <2>4, <2>5, <2>6, <2>7, <2>8, <2>9, <2>10, <2>11
          DEF Arrival, Handler, Waits
<1>3. CASE UNCHANGED vars
  <2>1. RepositoryInv'
    BY <1>3 DEF vars, repoVars, RepositoryInv, OneHandler, Stage, Reaches, Places, Stands,
                Made, Kept, Storing, Fits, Untouched, Reports
  <2> QED BY <1>3, <2>1 DEF vars
<1> QED BY <1>1, <1>2, <1>3 DEF Next

\* Nothing is handled and nothing is there when the service starts.
LEMMA InitFits == Init => AckedInv /\ RepositoryInv
<1> SUFFICES ASSUME Init PROVE AckedInv /\ RepositoryInv
  OBVIOUS
<1>1. AckedInv
  BY DEF Init, AckedInv, LockHeld, OwesSaveOf, SavedTask
<1>2. OneHandler /\ \A w \in Workers : pc[w] = "idle"
  BY DEF Init, OneHandler
<1>3. Places
  BY FilesAssumption, NobodyAssumption DEF Init, Places, NoBackup
<1>4. ASSUME NEW t \in Tasks
      PROVE  Stands(t) /\ \A x \in Kept(t) : Fits(x, t)
  BY DEF Init, Stands, NoTask, Kept, Storing, Fits
<1> QED BY <1>1, <1>2, <1>3, <1>4 DEF RepositoryInv

\* When clients wait for their answers and no task is autonomous, the status of a
\* task nobody works on tells what became of the files, however the requests about
\* different tasks interleave, whichever saves and restores raise and wherever the
\* process died.
THEOREM StatusIsTrue ==
    ASSUME SerialClient, \A r \in Requests : ~r.autonomous
    PROVE  Spec => []StatusTellsRepository
<1>1. TypeInv /\ RepositoryInv => StatusTellsRepository
  <2> SUFFICES ASSUME TypeInv, RepositoryInv, NEW t \in Tasks, Unhandled(t), task[t] # NoTask
               PROVE  /\ task[t].status \in {"queued", "planning", "awaiting_approval"} =>
                             \A f \in Files : repo[f] # t
                      /\ task[t].status = "completed" => \A f \in Files :
                             /\ repo[f] = t => f \in Backed(task[t].execution)
                             /\ last[f] = t =>
                                    \/ repo[f] = t
                                    \/ /\ repo[f] = task[t].execution[f]
                                       /\ restarts > 0 \/ t \in torn
                      /\ task[t].status \in {"failed", "rolled_back"} /\ t \notin torn =>
                             \A f \in Files : last[f] = t =>
                                 /\ repo[f] # t
                                 /\ task[t].status = "rolled_back" =>
                                        repo[f] = task[t].execution[f]
    BY DEF StatusTellsRepository
  <2>1. Fits(task[t], t) /\ Places /\ Stands(t)
    BY DEF RepositoryInv, Kept
  <2>2. task[t].status \in {"queued", "planning", "awaiting_approval"} => wrote[t] = {}
    BY <2>1 DEF Fits, Late, Untouched
  <2>3. task[t].status = "completed" /\ ~(restarts > 0 \/ t \in torn) => Made(t)
    <3>1. restarts \in Nat
      BY BoundsAssumption DEF TypeInv, TypeOK
    <3> QED BY <2>1, <3>1 DEF Stands, Unhandled, Handles
  <2>4. ASSUME task[t].status \in {"queued", "planning", "awaiting_approval"},
               NEW f \in Files
        PROVE  repo[f] # t
    BY <2>1, <2>2, <2>4 DEF Places
  <2>5. ASSUME task[t].status = "completed", NEW f \in Files
        PROVE  /\ repo[f] = t => f \in Backed(task[t].execution)
               /\ last[f] = t => \/ repo[f] = t
                                \/ /\ repo[f] = task[t].execution[f]
                                   /\ restarts > 0 \/ t \in torn
    BY <2>1, <2>3, <2>5 DEF Places, Fits, Made, Backed, Done
  <2>6. ASSUME task[t].status \in {"failed", "rolled_back"}, t \notin torn,
               NEW f \in Files, last[f] = t
        PROVE  /\ repo[f] # t
               /\ task[t].status = "rolled_back" => repo[f] = task[t].execution[f]
    BY <2>1, <2>6 DEF Fits, Done
  <2> QED BY <2>4, <2>5, <2>6
<1> QED
  BY InitTyped, NextTyped, InitFits, NextAcked, NextKeepsRepository, <1>1, PTL DEF Spec

\* Under the same assumptions no request, cancel, rollback or crash takes a task off
\* its documented life cycle, and an execution that a crash ended is only cancelled.
THEOREM LifecycleIsKept ==
    ASSUME SerialClient, \A r \in Requests : ~r.autonomous
    PROVE  Spec => LifecycleKept
<1>1. TypeInv /\ AckedInv /\ RepositoryInv /\ [Next]_vars =>
          /\ [restarts' = restarts =>
                 \A t \in Tasks : task'[t].status # task[t].status =>
                     <<task[t].status, task'[t].status>> \in Lifecycle]_vars
          /\ [\A t \in Tasks :
                 /\ task[t].status \in {"executing", "validating"}
                 /\ t \notin unsaved /\ \A w \in Workers : ~Runs(w, t)
                 => task'[t].status \in {task[t].status, "cancelled"}]_vars
  BY NextKeepsRepository
<1> QED
  BY InitTyped, NextTyped, InitFits, NextAcked, NextKeepsRepository, <1>1, PTL
     DEF Spec, LifecycleKept, LegalTransitions, OrphanOnlyCancelled
============================================================================
