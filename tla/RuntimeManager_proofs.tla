------------------------ MODULE RuntimeManager_proofs ------------------------
(***************************************************************************)
(* Theorems about RuntimeManager, for any number of jobs, slots, retries,  *)
(* failed writes and restarts.  TypeOK comes first; the other invariants   *)
(* are proved on top of it.                                                *)
(***************************************************************************)
EXTENDS RuntimeManager, FiniteSetTheorems, TLAPS

----------------------------------------------------------------------------
(* Types.                                                                  *)

\* A write keeps the statuses typed when the new ones are.
LEMMA WriteTypes ==
    ASSUME TypeOK, NEW statuses \in [Jobs -> Status],
           NEW left \in [Jobs -> Status], NEW lost \in 0 .. 1,
           NEW ok \in BOOLEAN, Write(statuses, left, lost, ok)
    PROVE  /\ status' \in [Jobs -> Status]
           /\ disk' \in [Jobs -> Status]
           /\ faults' \in 0 .. MaxFaults
BY BoundsAssumption DEF TypeOK, Write

\* So does the except branch, whatever it decides.
LEMMA FailTypes ==
    ASSUME TypeOK, NEW j \in Jobs, NEW s \in RuntimeJob,
           NEW statuses \in [Jobs -> Status], NEW left \in [Jobs -> Status],
           NEW lost \in 0 .. 1, Fail(j, s, statuses, left, lost)
    PROVE  /\ status' \in [Jobs -> Status]
           /\ disk' \in [Jobs -> Status]
           /\ faults' \in 0 .. MaxFaults
           /\ retries' \in [Jobs -> 0 .. MaxLimit]
           /\ at' \in [Jobs -> Place]
           /\ running' \in Nat
<1>1. PICK ok \in BOOLEAN :
        \/ /\ retries[j] < s.limit
           /\ retries' = [retries EXCEPT ![j] = @ + 1]
           /\ Write([statuses EXCEPT ![j] = "retrying"], left, lost, ok)
           /\ Goto(j, IF ok THEN "backoff" ELSE "ended")
           /\ running' = IF ok THEN running ELSE Released(s)
        \/ /\ retries[j] >= s.limit
           /\ Write([statuses EXCEPT ![j] = "failed"], left, lost, ok)
           /\ Goto(j, "ended")
           /\ running' = Released(s)
           /\ UNCHANGED retries
  BY DEF Fail
<1>2. /\ [statuses EXCEPT ![j] = "retrying"] \in [Jobs -> Status]
      /\ [statuses EXCEPT ![j] = "failed"] \in [Jobs -> Status]
  BY DEF Status
<1>3. /\ status' \in [Jobs -> Status]
      /\ disk' \in [Jobs -> Status]
      /\ faults' \in 0 .. MaxFaults
  <2>1. PICK new \in [Jobs -> Status] : Write(new, left, lost, ok)
    BY <1>1, <1>2
  <2> QED BY <2>1, WriteTypes
<1>4. retries' \in [Jobs -> 0 .. MaxLimit]
  <2>1. CASE retries' = retries
    BY <2>1 DEF TypeOK
  <2>2. CASE /\ retries[j] < s.limit
             /\ retries' = [retries EXCEPT ![j] = @ + 1]
    <3>1. retries[j] \in Nat /\ s.limit \in 0 .. MaxLimit
      BY DEF TypeOK, RuntimeJob
    <3>2. retries[j] + 1 \in 0 .. MaxLimit
      BY <2>2, <3>1, BoundsAssumption
    <3> QED BY <2>2, <3>2 DEF TypeOK
  <2> QED BY <1>1, <2>1, <2>2
<1>5. at' \in [Jobs -> Place]
  BY <1>1 DEF TypeOK, Goto, Place, Alive
<1>6. Released(s) \in Nat
  BY DEF Released, TypeOK
<1>7. running' \in Nat
  BY <1>1, <1>6 DEF TypeOK
<1> QED BY <1>3, <1>4, <1>5, <1>7

\* And an attempt, whether it gets to its executor or not.
LEMMA LaunchTypes ==
    ASSUME TypeOK, NEW j \in Jobs, NEW s \in RuntimeJob,
           NEW statuses \in [Jobs -> Status], NEW left \in [Jobs -> Status],
           Launch(j, s, statuses, left)
    PROVE  /\ status' \in [Jobs -> Status]
           /\ disk' \in [Jobs -> Status]
           /\ faults' \in 0 .. MaxFaults
           /\ retries' \in [Jobs -> 0 .. MaxLimit]
           /\ calls' \in [Jobs -> Nat]
           /\ at' \in [Jobs -> Place]
           /\ running' \in Nat
<1> USE BoundsAssumption
<1>1. CASE /\ Write([statuses EXCEPT ![j] = "running"], left, 0, TRUE)
           /\ calls' = [calls EXCEPT ![j] = @ + 1]
           /\ Goto(j, "executing")
           /\ UNCHANGED <<retries, running>>
  <2>1. [statuses EXCEPT ![j] = "running"] \in [Jobs -> Status]
    BY DEF Status
  <2>2. /\ status' \in [Jobs -> Status]
        /\ disk' \in [Jobs -> Status]
        /\ faults' \in 0 .. MaxFaults
    BY <1>1, <2>1 DEF Write, TypeOK
  <2>3. calls' \in [Jobs -> Nat] /\ at' \in [Jobs -> Place]
    BY <1>1 DEF TypeOK, Goto, Place, Alive
  <2>4. retries' \in [Jobs -> 0 .. MaxLimit] /\ running' \in Nat
    BY <1>1 DEF TypeOK
  <2> QED BY <2>2, <2>3, <2>4
<1>2. ASSUME NEW before \in {left, [statuses EXCEPT ![j] = "running"]},
             Fail(j, s, statuses, before, 1), UNCHANGED calls
      PROVE  /\ status' \in [Jobs -> Status]
             /\ disk' \in [Jobs -> Status]
             /\ faults' \in 0 .. MaxFaults
             /\ retries' \in [Jobs -> 0 .. MaxLimit]
             /\ calls' \in [Jobs -> Nat]
             /\ at' \in [Jobs -> Place]
             /\ running' \in Nat
  <2>1. 1 \in 0 .. 1
    OBVIOUS
  <2>2. before \in [Jobs -> Status]
    BY DEF Status
  <2> QED BY <1>2, <2>1, <2>2, FailTypes DEF TypeOK
<1> QED BY <1>1, <1>2 DEF Launch

\* The steps, grouped by how the proofs treat them.
LEMMA NextCases ==
    ASSUME [Next]_vars
    PROVE  \/ Take
           \/ Restart
           \/ \E j \in Jobs, s \in RuntimeJob :
                  SubmitFails(j, s) \/ Submit(j, s) \/ Enqueue(j, s)
           \/ \E j \in Jobs : Dispatch(j) \/ Run(j) \/ Report(j)
           \/ \E j \in Jobs : \/ Cancel(j) \/ Pause(j)
                              \/ \E copy \in Jobs : Retry(j, copy)
           \/ UNCHANGED vars
<1>1. CASE \E j \in Jobs :
             \/ \E s \in RuntimeJob :
                    SubmitFails(j, s) \/ Submit(j, s) \/ Enqueue(j, s)
             \/ Dispatch(j) \/ Run(j) \/ Report(j)
             \/ Cancel(j) \/ Pause(j)
             \/ \E copy \in Jobs : Retry(j, copy)
  BY <1>1, Zenon
<1> QED BY <1>1 DEF Next

\* Every step keeps the types.
LEMMA TypeStep == TypeOK /\ [Next]_vars => TypeOK'
<1> SUFFICES ASSUME TypeOK, [Next]_vars PROVE TypeOK'
  OBVIOUS
<1> USE BoundsAssumption
<1>1. ASSUME NEW j \in Jobs, NEW s \in RuntimeJob, SubmitFails(j, s)
      PROVE  TypeOK'
  <2>1. [status EXCEPT ![j] = "queued"] \in [Jobs -> Status]
    BY DEF TypeOK, Status
  <2>2. /\ status' \in [Jobs -> Status]
        /\ disk' \in [Jobs -> Status]
        /\ faults' \in 0 .. MaxFaults
    BY <1>1, <2>1 DEF SubmitFails, Write, TypeOK
  <2> QED BY <1>1, <2>2 DEF SubmitFails, TypeOK, Goto, Place
<1>2. ASSUME NEW j \in Jobs, NEW s \in RuntimeJob, Submit(j, s)
      PROVE  TypeOK'
  <2>1. [status EXCEPT ![j] = "queued"] \in [Jobs -> Status]
    BY DEF TypeOK, Status
  <2>2. \E left \in [Jobs -> Status] :
            Launch(j, s, [status EXCEPT ![j] = "queued"], left)
    BY <1>2, <2>1 DEF Submit
  <2>3. /\ executors' \in [Types -> Jobs \cup {Nobody}]
        /\ using' \in [Jobs -> Jobs \cup {Nobody}]
        /\ job' \in [Jobs -> RuntimeJob]
    BY <1>2 DEF Submit, TypeOK
  <2> QED BY <1>2, <2>1, <2>2, <2>3, LaunchTypes DEF Submit, TypeOK
<1>3. ASSUME NEW j \in Jobs, NEW s \in RuntimeJob, Enqueue(j, s)
      PROVE  TypeOK'
  <2>1. [status EXCEPT ![j] = "queued"] \in [Jobs -> Status]
    BY DEF TypeOK, Status
  <2>2. /\ status' \in [Jobs -> Status]
        /\ disk' \in [Jobs -> Status]
        /\ faults' \in 0 .. MaxFaults
    BY <1>3, <2>1 DEF Enqueue, Write, TypeOK
  <2>3. queue' \in Seq(Jobs)
    BY <1>3 DEF Enqueue, TypeOK
  <2> QED BY <1>3, <2>2, <2>3 DEF Enqueue, TypeOK, Goto, Place, Alive
<1>4. CASE Take
  <2>1. Head(queue) \in Jobs /\ Tail(queue) \in Seq(Jobs)
    BY <1>4 DEF Take, TypeOK
  <2> QED BY <1>4, <2>1 DEF Take, TypeOK, Goto, Place, Alive
<1>5. ASSUME NEW j \in Jobs, Dispatch(j) PROVE TypeOK'
  BY <1>5 DEF Dispatch, TypeOK, Goto, Place, Alive
<1>6. ASSUME NEW j \in Jobs, Start(j) PROVE TypeOK'
  <2>1. job[j] \in RuntimeJob /\ status \in [Jobs -> Status]
    BY DEF TypeOK
  <2>2. using' \in [Jobs -> Jobs \cup {Nobody}]
    BY <1>6 DEF Start, TypeOK, RuntimeJob
  <2>3. Launch(j, job[j], status, disk)
    BY <1>6 DEF Start
  <2> QED BY <1>6, <2>1, <2>2, <2>3, LaunchTypes DEF Start, TypeOK
<1>7. ASSUME NEW j \in Jobs, Report(j) PROVE TypeOK'
  <2>1. [status EXCEPT ![j] = "running"] \in [Jobs -> Status]
    BY DEF TypeOK, Status
  <2>2. /\ status' \in [Jobs -> Status]
        /\ disk' \in [Jobs -> Status]
        /\ faults' \in 0 .. MaxFaults
    BY <1>7, <2>1 DEF Report, Write, TypeOK
  <2> QED BY <1>7, <2>2 DEF Report, TypeOK
<1>8. ASSUME NEW j \in Jobs, Raise(j) PROVE TypeOK'
  <2>1. job[j] \in RuntimeJob /\ status \in [Jobs -> Status]
    BY DEF TypeOK
  <2>2. PICK lost \in 0 .. 1 : Fail(j, job[j], status, disk, lost)
    BY <1>8 DEF Raise
  <2> QED BY <1>8, <2>1, <2>2, FailTypes DEF Raise, TypeOK
<1>9. ASSUME NEW j \in Jobs, Return(j) PROVE TypeOK'
  <2>1. job[j] \in RuntimeJob /\ status \in [Jobs -> Status]
    BY DEF TypeOK
  <2>2. [status EXCEPT ![j] = "completed"] \in [Jobs -> Status]
    BY <2>1 DEF Status
  <2>3. result' \in [Jobs -> Jobs \cup {Nobody}]
    BY <1>9 DEF Return, TypeOK
  <2>4. CASE /\ Write([status EXCEPT ![j] = "completed"], disk, 0, TRUE)
             /\ Goto(j, "ended")
             /\ running' = Released(job[j])
             /\ UNCHANGED retries
    <3>1. /\ status' \in [Jobs -> Status]
          /\ disk' \in [Jobs -> Status]
          /\ faults' \in 0 .. MaxFaults
      BY <2>2, <2>4 DEF Write, TypeOK
    <3>2. running' \in Nat
      BY <2>4 DEF Released, TypeOK
    <3> QED BY <1>9, <2>3, <2>4, <3>1, <3>2 DEF Return, TypeOK, Goto, Place
  <2>5. CASE \E left \in {disk, [status EXCEPT ![j] = "completed"]} :
                 Fail(j, job[j], status, left, 1)
    <3>1. 1 \in 0 .. 1 /\ disk \in [Jobs -> Status]
      BY DEF TypeOK
    <3> QED BY <1>9, <2>1, <2>2, <2>3, <2>5, <3>1, FailTypes DEF Return, TypeOK
  <2> QED BY <1>9, <2>4, <2>5 DEF Return
<1>10. ASSUME NEW j \in Jobs, Resume(j) PROVE TypeOK'
  <2>1. job[j] \in RuntimeJob /\ status \in [Jobs -> Status]
    BY DEF TypeOK
  <2>2. Launch(j, job[j], status, disk)
    BY <1>10 DEF Resume
  <2> QED BY <1>10, <2>1, <2>2, LaunchTypes DEF Resume, TypeOK
<1>11. ASSUME NEW j \in Jobs, Cancel(j) PROVE TypeOK'
  <2>1. [status EXCEPT ![j] = "cancelled"] \in [Jobs -> Status]
    BY DEF TypeOK, Status
  <2>2. PICK ok \in BOOLEAN : Write([status EXCEPT ![j] = "cancelled"], disk, 0, ok)
    BY <1>11 DEF Cancel
  <2> QED BY <1>11, <2>1, <2>2 DEF Cancel, Write, TypeOK
<1>12. ASSUME NEW j \in Jobs, Pause(j) PROVE TypeOK'
  <2>1. [status EXCEPT ![j] = "paused"] \in [Jobs -> Status]
    BY DEF TypeOK, Status
  <2>2. PICK ok \in BOOLEAN : Write([status EXCEPT ![j] = "paused"], disk, 0, ok)
    BY <1>12 DEF Pause
  <2> QED BY <1>12, <2>1, <2>2 DEF Pause, Write, TypeOK
<1>13. ASSUME NEW j \in Jobs, NEW copy \in Jobs, Retry(j, copy) PROVE TypeOK'
  <2>1. [status EXCEPT ![copy] = "queued"] \in [Jobs -> Status]
    BY DEF TypeOK, Status
  <2>2. PICK ok \in BOOLEAN : Write([status EXCEPT ![copy] = "queued"], disk, 0, ok)
    BY <1>13 DEF Retry
  <2>3. /\ status' \in [Jobs -> Status]
        /\ disk' \in [Jobs -> Status]
        /\ faults' \in 0 .. MaxFaults
    BY <2>1, <2>2 DEF Write, TypeOK
  <2> QED BY <1>13, <2>3 DEF Retry, TypeOK, Goto, Place
<1>14. CASE Restart
  BY <1>14 DEF Restart, TypeOK, Place, Status
<1>15. CASE UNCHANGED vars
  BY <1>15 DEF vars, TypeOK
<1>16. CASE \E j \in Jobs, s \in RuntimeJob :
                SubmitFails(j, s) \/ Submit(j, s) \/ Enqueue(j, s)
  BY <1>1, <1>2, <1>3, <1>16
<1>17. CASE \E j \in Jobs : Dispatch(j) \/ Run(j) \/ Report(j)
  BY <1>5, <1>6, <1>7, <1>8, <1>9, <1>10, <1>17 DEF Run
<1>18. CASE \E j \in Jobs : Cancel(j) \/ Pause(j) \/ \E copy \in Jobs : Retry(j, copy)
  BY <1>11, <1>12, <1>13, <1>18
<1> QED BY <1>4, <1>14, <1>15, <1>16, <1>17, <1>18, NextCases

\* The initial state has the types.
LEMMA InitTypes == Init => TypeOK
<1>1. ASSUME Init PROVE TypeOK
  <2>1. PICK t \in Types :
            job = [j \in Jobs |-> [type |-> t, limit |-> 0, awaited |-> TRUE]]
    BY <1>1 DEF Init
  <2>2. [type |-> t, limit |-> 0, awaited |-> TRUE] \in RuntimeJob
    BY BoundsAssumption DEF RuntimeJob
  <2>3. job \in [Jobs -> RuntimeJob]
    BY <2>1, <2>2
  <2> QED BY <1>1, <2>3, BoundsAssumption DEF Init, TypeOK, Status, Place
<1> QED BY <1>1

\* The state keeps its type: statuses, places, counters and the queue, for
\* every number of jobs, slots, retries, failed writes and restarts.
THEOREM TypeCorrect == Spec => []TypeOK
BY InitTypes, TypeStep, PTL DEF Spec

----------------------------------------------------------------------------
(* What the helpers of run_job come to, case by case.                      *)

\* The except branch ends in a pause before another attempt, in a coroutine
\* that dies of a failed write, or in a failed job.
LEMMA FailOutcome ==
    ASSUME NEW j, NEW s, NEW statuses, NEW left, NEW lost,
           Fail(j, s, statuses, left, lost)
    PROVE  \/ /\ retries[j] < s.limit
              /\ retries' = [retries EXCEPT ![j] = @ + 1]
              /\ status' = [statuses EXCEPT ![j] = "retrying"]
              /\ \/ at' = [at EXCEPT ![j] = "backoff"] /\ running' = running
                 \/ at' = [at EXCEPT ![j] = "ended"] /\ running' = Released(s)
           \/ /\ retries' = retries
              /\ status' = [statuses EXCEPT ![j] = "failed"]
              /\ at' = [at EXCEPT ![j] = "ended"]
              /\ running' = Released(s)
BY DEF Fail, Write, Goto

\* An attempt calls the executor or goes to the except branch.
LEMMA LaunchOutcome ==
    ASSUME NEW j, NEW s, NEW statuses, NEW left,
           Launch(j, s, statuses, left)
    PROVE  \/ /\ retries' = retries
              /\ calls' = [calls EXCEPT ![j] = @ + 1]
              /\ status' = [statuses EXCEPT ![j] = "running"]
              /\ at' = [at EXCEPT ![j] = "executing"]
              /\ running' = running
           \/ /\ \E before : Fail(j, s, statuses, before, 1)
              /\ calls' = calls
BY DEF Launch, Write, Goto

----------------------------------------------------------------------------
(* The queue holds every queued job once.                                  *)

PlacedInv ==
    /\ \A i \in 1 .. Len(queue) : at[queue[i]] = "queued"
    /\ \A i, k \in 1 .. Len(queue) : queue[i] = queue[k] => i = k
    /\ \A j \in Jobs : at[j] \in {"queued", "held", "dispatched"} => ~job[j].awaited

\* A job that is not queued may go anywhere but into the queue.
LEMMA MoveKeepsPlaced ==
    ASSUME TypeOK, PlacedInv, NEW j \in Jobs, NEW place, NEW s,
           at[j] # "queued", place # "queued", queue' = queue,
           job' = [job EXCEPT ![j] = s],
           place \in {"held", "dispatched"} => ~s.awaited,
           at' = [at EXCEPT ![j] = place]
    PROVE  PlacedInv'
<1>1. /\ at \in [Jobs -> Place] /\ job \in [Jobs -> RuntimeJob]
      /\ \A i \in 1 .. Len(queue) : queue[i] \in Jobs
  BY DEF TypeOK
<1>2. \A i \in 1 .. Len(queue) : queue[i] # j
  BY DEF PlacedInv
<1>3. \A i \in 1 .. Len(queue) : at'[queue[i]] = "queued"
  BY <1>1, <1>2 DEF PlacedInv
<1>4. \A i \in Jobs : at'[i] \in {"queued", "held", "dispatched"} => ~job'[i].awaited
  BY <1>1 DEF PlacedInv
<1> QED BY <1>3, <1>4 DEF PlacedInv

\* Every step keeps the queue in order.
LEMMA PlacedStep == TypeOK /\ PlacedInv /\ [Next]_vars => PlacedInv'
<1> SUFFICES ASSUME TypeOK, PlacedInv, [Next]_vars PROVE PlacedInv'
  OBVIOUS
<1>t. /\ at \in [Jobs -> Place] /\ job \in [Jobs -> RuntimeJob]
      /\ queue \in Seq(Jobs)
      /\ \A j \in Jobs : job = [job EXCEPT ![j] = job[j]]
  BY DEF TypeOK
<1>1. ASSUME NEW j \in Jobs, NEW s \in RuntimeJob, SubmitFails(j, s)
      PROVE  PlacedInv'
  BY <1>1, MoveKeepsPlaced DEF SubmitFails, Goto
<1>2. ASSUME NEW j \in Jobs, NEW s \in RuntimeJob, Submit(j, s)
      PROVE  PlacedInv'
  <2>1. PICK place \in {"executing", "backoff", "ended"} :
            at' = [at EXCEPT ![j] = place]
    BY <1>2, LaunchOutcome, FailOutcome DEF Submit
  <2> QED BY <1>2, <2>1, MoveKeepsPlaced DEF Submit
<1>3. ASSUME NEW j \in Jobs, NEW s \in RuntimeJob, Enqueue(j, s)
      PROVE  PlacedInv'
  <2>1. /\ at' = [at EXCEPT ![j] = "queued"] /\ job' = [job EXCEPT ![j] = s]
        /\ queue' = Append(queue, j) /\ at[j] = "new" /\ ~s.awaited
    BY <1>3 DEF Enqueue, Goto
  <2>2. /\ Len(queue') = Len(queue) + 1
        /\ \A i \in 1 .. Len(queue) : queue'[i] = queue[i] /\ queue[i] \in Jobs
        /\ queue'[Len(queue) + 1] = j
    BY <1>t, <2>1
  <2>3. \A i \in 1 .. Len(queue) : queue[i] # j
    BY <2>1 DEF PlacedInv
  <2>4. \A i \in 1 .. Len(queue') : at'[queue'[i]] = "queued"
    BY <1>t, <2>1, <2>2, <2>3 DEF PlacedInv
  <2>5. \A i, k \in 1 .. Len(queue') : queue'[i] = queue'[k] => i = k
    BY <1>t, <2>2, <2>3 DEF PlacedInv
  <2>6. \A i \in Jobs : at'[i] \in {"queued", "held", "dispatched"} => ~job'[i].awaited
    BY <1>t, <2>1 DEF PlacedInv
  <2> QED BY <2>4, <2>5, <2>6 DEF PlacedInv
<1>4. CASE Take
  <2> DEFINE h == Head(queue)
  <2>1. /\ queue # <<>> /\ at' = [at EXCEPT ![h] = "held"]
        /\ queue' = Tail(queue) /\ job' = job
    BY <1>4 DEF Take, Goto
  <2>2. /\ h = queue[1] /\ h \in Jobs /\ Len(queue) \in Nat \ {0}
        /\ Len(queue') = Len(queue) - 1
        /\ \A i \in 1 .. Len(queue') : queue'[i] = queue[i + 1]
        /\ \A i \in 1 .. Len(queue) : queue[i] \in Jobs
    BY <1>t, <2>1
  <2>3. \A i \in 1 .. Len(queue') : queue'[i] # h /\ at[queue'[i]] = "queued"
    BY <2>2 DEF PlacedInv
  <2>4. \A i \in 1 .. Len(queue') : at'[queue'[i]] = "queued"
    BY <1>t, <2>1, <2>2, <2>3
  <2>5. \A i, k \in 1 .. Len(queue') : queue'[i] = queue'[k] => i = k
    BY SMTT(30), <2>2 DEF PlacedInv
  <2>6. at[h] = "queued"
    BY <2>2 DEF PlacedInv
  <2>7. \A i \in Jobs : at'[i] \in {"queued", "held", "dispatched"} => ~job'[i].awaited
    BY <1>t, <2>1, <2>2, <2>6 DEF PlacedInv
  <2> QED BY <2>4, <2>5, <2>7 DEF PlacedInv
<1>5. ASSUME NEW j \in Jobs, Dispatch(j) PROVE PlacedInv'
  <2>1. ~job[j].awaited
    BY <1>5 DEF Dispatch, PlacedInv
  <2> QED BY <1>5, <1>t, <2>1, MoveKeepsPlaced DEF Dispatch, Goto
<1>6. ASSUME NEW j \in Jobs, Run(j) PROVE PlacedInv'
  <2>1. at[j] # "queued" /\ queue' = queue /\ job' = [job EXCEPT ![j] = job[j]]
    BY <1>6, <1>t DEF Run, Start, Raise, Return, Resume
  <2>2. PICK place \in {"executing", "backoff", "ended"} :
            at' = [at EXCEPT ![j] = place]
    BY <1>6, LaunchOutcome, FailOutcome DEF Run, Start, Raise, Return, Resume, Goto
  <2> QED BY <2>1, <2>2, MoveKeepsPlaced
<1>7. ASSUME NEW j \in Jobs, Report(j) \/ Cancel(j) \/ Pause(j)
      PROVE  PlacedInv'
  BY <1>7 DEF Report, Cancel, Pause, PlacedInv
<1>8. ASSUME NEW j \in Jobs, NEW copy \in Jobs, Retry(j, copy)
      PROVE  PlacedInv'
  BY <1>8, MoveKeepsPlaced DEF Retry, Goto
<1>9. CASE Restart
  BY <1>9, <1>t DEF Restart, PlacedInv
<1>10. CASE UNCHANGED vars
  BY <1>10 DEF vars, PlacedInv
<1>11. CASE \E j \in Jobs, s \in RuntimeJob :
                SubmitFails(j, s) \/ Submit(j, s) \/ Enqueue(j, s)
  BY <1>1, <1>2, <1>3, <1>11
<1>12. CASE \E j \in Jobs : Dispatch(j) \/ Run(j) \/ Report(j)
  BY <1>5, <1>6, <1>7, <1>12
<1>13. CASE \E j \in Jobs : Cancel(j) \/ Pause(j) \/ \E copy \in Jobs : Retry(j, copy)
  BY <1>7, <1>8, <1>13
<1> QED BY <1>4, <1>9, <1>10, <1>11, <1>12, <1>13, NextCases

\* The queue is empty at first.
LEMMA PlacedInit == Init => PlacedInv
BY DEF Init, PlacedInv

----------------------------------------------------------------------------
(* AttemptsBounded is inductive once it says what has not been counted yet. *)

Unstarted == {"new", "parked", "queued", "held", "dispatched"}

AttemptsInv ==
    \A j \in Jobs :
        /\ retries[j] <= job[j].limit
        /\ calls[j] <= retries[j] + 1
        /\ at[j] \in Unstarted => retries[j] = 0 /\ calls[j] = 0
        /\ at[j] = "backoff" => calls[j] <= retries[j]

\* The except branch counts a retry only within the limit, and pauses only
\* when it has counted one.
LEMMA FailAttempts ==
    ASSUME TypeOK, AttemptsInv, NEW j \in Jobs, NEW s \in RuntimeJob,
           NEW statuses, NEW left, NEW lost, Fail(j, s, statuses, left, lost),
           job' = [job EXCEPT ![j] = s], calls' = calls,
           retries[j] <= s.limit
    PROVE  AttemptsInv'
<1> SUFFICES ASSUME NEW i \in Jobs
             PROVE  /\ retries'[i] <= job'[i].limit
                    /\ calls'[i] <= retries'[i] + 1
                    /\ at'[i] \in Unstarted => retries'[i] = 0 /\ calls'[i] = 0
                    /\ at'[i] = "backoff" => calls'[i] <= retries'[i]
  BY DEF AttemptsInv
<1>1. /\ retries \in [Jobs -> Nat] /\ calls \in [Jobs -> Nat]
      /\ at \in [Jobs -> Place] /\ job \in [Jobs -> RuntimeJob]
      /\ s.limit \in Nat
  BY BoundsAssumption DEF TypeOK, RuntimeJob
<1>2. CASE i # j
  BY <1>1, <1>2, FailOutcome DEF AttemptsInv
<1>3. CASE i = j
  BY <1>1, <1>3, FailOutcome DEF AttemptsInv, Unstarted
<1> QED BY <1>2, <1>3

\* An attempt calls the executor only when every call so far is a retry.
LEMMA LaunchAttempts ==
    ASSUME TypeOK, AttemptsInv, NEW j \in Jobs, NEW s \in RuntimeJob,
           NEW statuses, NEW left, Launch(j, s, statuses, left),
           job' = [job EXCEPT ![j] = s],
           retries[j] <= s.limit, calls[j] <= retries[j]
    PROVE  AttemptsInv'
<1>1. CASE (\E before : Fail(j, s, statuses, before, 1)) /\ calls' = calls
  BY <1>1, FailAttempts
<1>2. CASE /\ retries' = retries
           /\ calls' = [calls EXCEPT ![j] = @ + 1]
           /\ at' = [at EXCEPT ![j] = "executing"]
  <2> SUFFICES ASSUME NEW i \in Jobs
               PROVE  /\ retries'[i] <= job'[i].limit
                      /\ calls'[i] <= retries'[i] + 1
                      /\ at'[i] \in Unstarted => retries'[i] = 0 /\ calls'[i] = 0
                      /\ at'[i] = "backoff" => calls'[i] <= retries'[i]
    BY DEF AttemptsInv
  <2>1. /\ retries \in [Jobs -> Nat] /\ calls \in [Jobs -> Nat]
        /\ at \in [Jobs -> Place] /\ job \in [Jobs -> RuntimeJob]
    BY BoundsAssumption DEF TypeOK, RuntimeJob
  <2>2. CASE i # j
    BY <1>2, <2>1, <2>2 DEF AttemptsInv
  <2>3. CASE i = j
    BY <1>2, <2>1, <2>3 DEF AttemptsInv, Unstarted
  <2> QED BY <2>2, <2>3
<1> QED BY <1>1, <1>2, LaunchOutcome

\* Every step keeps the count of attempts.
LEMMA AttemptsStep ==
    TypeOK /\ PlacedInv /\ AttemptsInv /\ [Next]_vars => AttemptsInv'
<1> SUFFICES ASSUME TypeOK, PlacedInv, AttemptsInv, [Next]_vars PROVE AttemptsInv'
  OBVIOUS
<1> USE BoundsAssumption
<1>t. /\ retries \in [Jobs -> Nat] /\ calls \in [Jobs -> Nat]
      /\ at \in [Jobs -> Place] /\ job \in [Jobs -> RuntimeJob]
      /\ \A s \in RuntimeJob : s.limit \in Nat
  BY DEF TypeOK, RuntimeJob
<1>1. ASSUME NEW j \in Jobs, NEW s \in RuntimeJob,
             SubmitFails(j, s) \/ Enqueue(j, s)
      PROVE  AttemptsInv'
  <2>1. /\ at[j] = "new" /\ job' = [job EXCEPT ![j] = s]
        /\ retries' = retries /\ calls' = calls
        /\ \A i \in Jobs \ {j} : at'[i] = at[i]
        /\ at'[j] \in Unstarted
    BY <1>1, <1>t DEF SubmitFails, Enqueue, Goto, Unstarted
  <2>2. retries[j] = 0 /\ calls[j] = 0 /\ at'[j] # "backoff"
    BY <2>1 DEF AttemptsInv, Unstarted
  <2> QED BY <1>t, <2>1, <2>2 DEF AttemptsInv
<1>2. ASSUME NEW j \in Jobs, NEW s \in RuntimeJob, Submit(j, s)
      PROVE  AttemptsInv'
  <2>1. retries[j] <= s.limit /\ calls[j] <= retries[j]
    BY <1>2, <1>t DEF Submit, AttemptsInv, Unstarted
  <2> QED BY <1>2, <2>1, LaunchAttempts DEF Submit
<1>3. CASE Take
  <2>1. Head(queue) \in Jobs /\ at[Head(queue)] = "queued"
    BY <1>3 DEF Take, TypeOK, PlacedInv
  <2> QED BY <1>3, <1>t, <2>1 DEF Take, Goto, AttemptsInv, Unstarted
<1>4. ASSUME NEW j \in Jobs, Dispatch(j) PROVE AttemptsInv'
  BY <1>4, <1>t DEF Dispatch, Goto, AttemptsInv, Unstarted
<1>5. ASSUME NEW j \in Jobs, Start(j) \/ Resume(j) PROVE AttemptsInv'
  <2>1. /\ job' = [job EXCEPT ![j] = job[j]]
        /\ Launch(j, job[j], status, disk)
    BY <1>5, <1>t DEF Start, Resume
  <2>2. retries[j] <= job[j].limit /\ calls[j] <= retries[j]
    BY <1>5, <1>t DEF Start, Resume, AttemptsInv, Unstarted
  <2>3. job[j] \in RuntimeJob
    BY <1>t
  <2> QED BY <2>1, <2>2, <2>3, LaunchAttempts
<1>6. ASSUME NEW j \in Jobs, Raise(j) \/ Return(j) PROVE AttemptsInv'
  <2>1. job' = [job EXCEPT ![j] = job[j]] /\ calls' = calls
    BY <1>6, <1>t DEF Raise, Return
  <2>2. retries[j] <= job[j].limit /\ job[j] \in RuntimeJob
    BY <1>t DEF AttemptsInv
  <2>3. CASE \E left, lost : Fail(j, job[j], status, left, lost)
    BY <2>1, <2>2, <2>3, FailAttempts
  <2>4. CASE at' = [at EXCEPT ![j] = "ended"] /\ retries' = retries
    BY <1>t, <2>1, <2>4 DEF AttemptsInv, Unstarted
  <2> QED BY <1>6, <2>3, <2>4 DEF Raise, Return, Goto
<1>7. ASSUME NEW j \in Jobs, Report(j) \/ Cancel(j) \/ Pause(j)
      PROVE  AttemptsInv'
  BY <1>7 DEF Report, Cancel, Pause, AttemptsInv
<1>8. ASSUME NEW j \in Jobs, NEW copy \in Jobs, Retry(j, copy)
      PROVE  AttemptsInv'
  BY <1>8, <1>t DEF Retry, Goto, AttemptsInv, Unstarted
<1>9. CASE Restart
  BY <1>9, <1>t DEF Restart, AttemptsInv, Unstarted
<1>10. CASE UNCHANGED vars
  BY <1>10 DEF vars, AttemptsInv
<1>11. CASE \E j \in Jobs, s \in RuntimeJob :
                SubmitFails(j, s) \/ Submit(j, s) \/ Enqueue(j, s)
  BY <1>1, <1>2, <1>11
<1>12. CASE \E j \in Jobs : Dispatch(j) \/ Run(j) \/ Report(j)
  BY <1>4, <1>5, <1>6, <1>7, <1>12 DEF Run
<1>13. CASE \E j \in Jobs : Cancel(j) \/ Pause(j) \/ \E copy \in Jobs : Retry(j, copy)
  BY <1>7, <1>8, <1>13
<1> QED BY <1>3, <1>9, <1>10, <1>11, <1>12, <1>13, NextCases

\* No executor is called more than once above the retries of its job, and no
\* attempt goes uncounted, whatever raises in between.
THEOREM AttemptsAreBounded == Spec => []AttemptsBounded
<1>1. Init => TypeOK /\ PlacedInv /\ AttemptsInv
  <2> SUFFICES ASSUME Init PROVE TypeOK /\ PlacedInv /\ AttemptsInv
    OBVIOUS
  <2>1. TypeOK /\ PlacedInv
    BY InitTypes, PlacedInit
  <2> QED BY <2>1, BoundsAssumption DEF Init, TypeOK, RuntimeJob, AttemptsInv
<1>2. TypeOK /\ PlacedInv /\ AttemptsInv /\ [Next]_vars
          => (TypeOK /\ PlacedInv /\ AttemptsInv)'
  BY TypeStep, PlacedStep, AttemptsStep
<1>3. AttemptsInv => AttemptsBounded
  BY DEF AttemptsInv, AttemptsBounded
<1> QED BY <1>1, <1>2, <1>3, PTL DEF Spec

----------------------------------------------------------------------------
(* SlotsCounted is inductive together with the order of the queue.         *)

Slot == {"dispatched", "executing", "backoff"}

\* A job that is neither in a slot before nor after leaves InFlight alone.
LEMMA InFlightSame ==
    ASSUME TypeOK, NEW j \in Jobs, NEW s \in RuntimeJob, NEW place \in Place,
           job' = [job EXCEPT ![j] = s], at' = [at EXCEPT ![j] = place],
           s.awaited \/ place \notin Slot, j \notin InFlight
    PROVE  InFlight' = InFlight
BY DEF InFlight, TypeOK, Slot

\* The steps of run_job: an awaited job has no slot, a queued one keeps its
\* slot or leaves it.
LEMMA SlotsRun ==
    ASSUME TypeOK, SlotsCounted, NEW j \in Jobs, job' = job,
           at[j] \in Slot,
           \/ /\ \E place \in Slot : at' = [at EXCEPT ![j] = place]
              /\ running' = running
           \/ /\ at' = [at EXCEPT ![j] = "ended"]
              /\ running' = Released(job[j])
    PROVE  SlotsCounted'
<1>1. at \in [Jobs -> Place] /\ job \in [Jobs -> RuntimeJob] /\ running \in Nat
  BY DEF TypeOK
<1>2. IsFiniteSet(InFlight)
  BY JobsAssumption, FS_Subset DEF InFlight
<1>3. CASE job[j].awaited
  <2>1. InFlight' = InFlight
    BY <1>1, <1>3 DEF InFlight
  <2>2. running' = running
    BY <1>3 DEF Released
  <2> QED BY <2>1, <2>2 DEF SlotsCounted
<1>4. CASE ~job[j].awaited
  <2>1. j \in InFlight
    BY <1>4 DEF InFlight, Slot
  <2>2. CASE (\E place \in Slot : at' = [at EXCEPT ![j] = place]) /\ running' = running
    <3>1. InFlight' = InFlight
      BY <1>1, <1>4, <2>1, <2>2 DEF InFlight, Slot
    <3> QED BY <2>2, <3>1 DEF SlotsCounted
  <2>3. CASE at' = [at EXCEPT ![j] = "ended"] /\ running' = Released(job[j])
    <3>1. InFlight' = InFlight \ {j}
      BY <1>1, <2>1, <2>3 DEF InFlight
    <3>2. Cardinality(InFlight') = Cardinality(InFlight) - 1
      BY <1>2, <2>1, <3>1, FS_RemoveElement
    <3>3. Cardinality(InFlight) # 0
      BY <1>2, <2>1, FS_EmptySet
    <3>4. running' = running - 1
      BY <1>1, <1>4, <2>3, <3>3 DEF Released, SlotsCounted
    <3> QED BY <1>1, <3>2, <3>4, BoundsAssumption DEF SlotsCounted
  <2> QED BY <2>2, <2>3
<1> QED BY <1>3, <1>4

\* Every step keeps the count of the slots.
LEMMA SlotsStep ==
    TypeOK /\ PlacedInv /\ SlotsCounted /\ [Next]_vars => SlotsCounted'
<1> SUFFICES ASSUME TypeOK, PlacedInv, SlotsCounted, [Next]_vars
             PROVE  SlotsCounted'
  OBVIOUS
<1>t. /\ at \in [Jobs -> Place] /\ job \in [Jobs -> RuntimeJob]
      /\ running \in Nat
      /\ \A j \in Jobs : job = [job EXCEPT ![j] = job[j]] /\ job[j] \in RuntimeJob
  BY DEF TypeOK
<1>1. ASSUME NEW j \in Jobs, NEW s \in RuntimeJob,
             SubmitFails(j, s) \/ Enqueue(j, s)
      PROVE  SlotsCounted'
  <2>1. j \notin InFlight
    BY <1>1 DEF SubmitFails, Enqueue, InFlight
  <2>2. PICK place \in {"parked", "queued"} : at' = [at EXCEPT ![j] = place]
    BY <1>1 DEF SubmitFails, Enqueue, Goto
  <2>3. place \in Place /\ place \notin Slot
    BY DEF Place, Alive, Slot
  <2>4. InFlight' = InFlight
    BY <1>1, <2>1, <2>2, <2>3, InFlightSame DEF SubmitFails, Enqueue
  <2> QED BY <1>1, <2>4 DEF SubmitFails, Enqueue, SlotsCounted
<1>2. ASSUME NEW j \in Jobs, NEW s \in RuntimeJob, Submit(j, s)
      PROVE  SlotsCounted'
  <2>1. j \notin InFlight /\ s.awaited
    BY <1>2 DEF Submit, InFlight
  <2>2. PICK place \in {"executing", "backoff", "ended"} :
            at' = [at EXCEPT ![j] = place]
    BY <1>2, LaunchOutcome, FailOutcome DEF Submit
  <2>3. place \in Place
    BY DEF Place, Alive
  <2>4. InFlight' = InFlight
    BY <1>2, <2>1, <2>2, <2>3, InFlightSame DEF Submit
  <2>5. running' = running
    BY <1>2, <2>1, LaunchOutcome, FailOutcome DEF Submit, Released
  <2> QED BY <2>4, <2>5 DEF SlotsCounted
<1>3. CASE Take
  <2> DEFINE h == Head(queue)
  <2>1. h \in Jobs /\ at[h] = "queued"
    BY <1>3 DEF Take, TypeOK, PlacedInv
  <2>2. h \notin InFlight /\ "held" \in Place /\ "held" \notin Slot
    BY <2>1 DEF InFlight, Place, Alive, Slot
  <2>3. job' = [job EXCEPT ![h] = job[h]] /\ at' = [at EXCEPT ![h] = "held"]
    BY <1>3, <1>t, <2>1 DEF Take, Goto
  <2>4. InFlight' = InFlight
    BY <1>t, <2>1, <2>2, <2>3, InFlightSame
  <2> QED BY <1>3, <2>4 DEF Take, SlotsCounted
<1>4. ASSUME NEW j \in Jobs, Dispatch(j) PROVE SlotsCounted'
  <2>1. /\ at[j] = "held" /\ ~job[j].awaited /\ job' = job
        /\ at' = [at EXCEPT ![j] = "dispatched"]
        /\ running < MaxConcurrent /\ running' = running + 1
    BY <1>4 DEF Dispatch, Goto, PlacedInv
  <2>2. j \notin InFlight /\ InFlight' = InFlight \cup {j}
    BY <1>t, <2>1 DEF InFlight
  <2>3. IsFiniteSet(InFlight)
    BY JobsAssumption, FS_Subset DEF InFlight
  <2>4. Cardinality(InFlight') = Cardinality(InFlight) + 1
    BY <2>2, <2>3, FS_AddElement
  <2> QED BY <1>t, <2>1, <2>4, BoundsAssumption DEF SlotsCounted
<1>5. ASSUME NEW j \in Jobs, Run(j) PROVE SlotsCounted'
  <2>1. at[j] \in Slot /\ job' = job
    BY <1>5 DEF Run, Start, Raise, Return, Resume, Slot
  <2>2. \/ /\ \E place \in Slot : at' = [at EXCEPT ![j] = place]
           /\ running' = running
        \/ /\ at' = [at EXCEPT ![j] = "ended"]
           /\ running' = Released(job[j])
    <3>1. CASE Start(j) \/ Resume(j)
      BY <3>1, LaunchOutcome, FailOutcome DEF Start, Resume, Slot
    <3>2. CASE Raise(j) \/ Return(j)
      BY <3>2, FailOutcome DEF Raise, Return, Goto, Slot
    <3> QED BY <1>5, <3>1, <3>2 DEF Run
  <2> QED BY <2>1, <2>2, SlotsRun
<1>6. ASSUME NEW j \in Jobs, Report(j) \/ Cancel(j) \/ Pause(j)
      PROVE  SlotsCounted'
  BY <1>6 DEF Report, Cancel, Pause, SlotsCounted, InFlight
<1>7. ASSUME NEW j \in Jobs, NEW copy \in Jobs, Retry(j, copy)
      PROVE  SlotsCounted'
  <2>1. copy \notin InFlight /\ "parked" \in Place /\ "parked" \notin Slot
    BY <1>7 DEF Retry, InFlight, Place, Slot
  <2>2. InFlight' = InFlight
    BY <1>7, <1>t, <2>1, InFlightSame DEF Retry, Goto
  <2> QED BY <1>7, <2>2 DEF Retry, SlotsCounted
<1>8. CASE Restart
  <2>1. InFlight' = {} /\ running' = 0
    BY <1>8, <1>t DEF Restart, InFlight
  <2>2. Cardinality(InFlight') = 0
    BY <2>1, FS_EmptySet
  <2> QED BY <2>1, <2>2, BoundsAssumption DEF SlotsCounted
<1>9. CASE UNCHANGED vars
  BY <1>9 DEF vars, SlotsCounted, InFlight
<1>10. CASE \E j \in Jobs, s \in RuntimeJob :
                SubmitFails(j, s) \/ Submit(j, s) \/ Enqueue(j, s)
  BY <1>1, <1>2, <1>10
<1>11. CASE \E j \in Jobs : Dispatch(j) \/ Run(j) \/ Report(j)
  BY <1>4, <1>5, <1>6, <1>11
<1>12. CASE \E j \in Jobs : Cancel(j) \/ Pause(j) \/ \E copy \in Jobs : Retry(j, copy)
  BY <1>6, <1>7, <1>12
<1> QED BY <1>3, <1>8, <1>9, <1>10, <1>11, <1>12, NextCases

\* At most MaxConcurrent queued jobs run at a time, and every slot is given
\* back however a coroutine ends.
THEOREM SlotsAreCounted == Spec => []SlotsCounted
<1>1. Init => TypeOK /\ PlacedInv /\ SlotsCounted
  <2> SUFFICES ASSUME Init PROVE TypeOK /\ PlacedInv /\ SlotsCounted
    OBVIOUS
  <2>1. TypeOK /\ PlacedInv
    BY InitTypes, PlacedInit
  <2>2. InFlight = {} /\ running = 0
    BY DEF Init, InFlight
  <2>3. Cardinality(InFlight) = 0
    BY <2>2, FS_EmptySet
  <2> QED BY <2>1, <2>2, <2>3, BoundsAssumption DEF SlotsCounted
<1>2. TypeOK /\ PlacedInv /\ SlotsCounted /\ [Next]_vars
          => (TypeOK /\ PlacedInv /\ SlotsCounted)'
  BY TypeStep, PlacedStep, SlotsStep
<1> QED BY <1>1, <1>2, PTL DEF Spec

----------------------------------------------------------------------------
(* OwnResult is inductive once it says whose executor is in use.           *)

OwnInv ==
    /\ OwnResult
    /\ \A j \in Jobs :
           /\ job[j].awaited /\ at[j] \in {"executing", "backoff"} => using[j] = j
           /\ at[j] = "new" => result[j] = Nobody

\* A move of one job that runs nothing of its own keeps the results.
LEMMA MoveKeepsOwn ==
    ASSUME TypeOK, OwnInv, NEW j \in Jobs, NEW s \in RuntimeJob, NEW place,
           job' = [job EXCEPT ![j] = s], at' = [at EXCEPT ![j] = place],
           \A i \in Jobs \ {j} : using'[i] = using[i] /\ result'[i] = result[i],
           s.awaited /\ place \in {"executing", "backoff"} => using'[j] = j,
           s.awaited => result'[j] \in {j, Nobody},
           place # "new"
    PROVE  OwnInv'
<1>1. at \in [Jobs -> Place] /\ job \in [Jobs -> RuntimeJob]
  BY DEF TypeOK
<1>2. ASSUME NEW i \in Jobs, i # j
      PROVE  /\ job'[i].awaited => result'[i] \in {i, Nobody}
             /\ job'[i].awaited /\ at'[i] \in {"executing", "backoff"} => using'[i] = i
             /\ at'[i] = "new" => result'[i] = Nobody
  BY <1>1, <1>2 DEF OwnInv, OwnResult
<1>3. /\ job'[j].awaited => result'[j] \in {j, Nobody}
      /\ job'[j].awaited /\ at'[j] \in {"executing", "backoff"} => using'[j] = j
      /\ at'[j] # "new"
  BY <1>1
<1> QED BY <1>2, <1>3 DEF OwnInv, OwnResult

\* Every step keeps the results of awaited jobs their own.
LEMMA OwnStep == TypeOK /\ PlacedInv /\ OwnInv /\ [Next]_vars => OwnInv'
<1> SUFFICES ASSUME TypeOK, PlacedInv, OwnInv, [Next]_vars PROVE OwnInv'
  OBVIOUS
<1>t. /\ at \in [Jobs -> Place] /\ job \in [Jobs -> RuntimeJob]
      /\ using \in [Jobs -> Jobs \cup {Nobody}]
      /\ result \in [Jobs -> Jobs \cup {Nobody}]
      /\ \A j \in Jobs : job = [job EXCEPT ![j] = job[j]] /\ job[j] \in RuntimeJob
  BY DEF TypeOK
<1>1. ASSUME NEW j \in Jobs, NEW s \in RuntimeJob,
             SubmitFails(j, s) \/ Enqueue(j, s)
      PROVE  OwnInv'
  <2>1. result[j] = Nobody
    BY <1>1 DEF SubmitFails, Enqueue, OwnInv
  <2> QED BY <1>1, <2>1, MoveKeepsOwn DEF SubmitFails, Enqueue, Goto
<1>2. ASSUME NEW j \in Jobs, NEW s \in RuntimeJob, Submit(j, s)
      PROVE  OwnInv'
  <2>1. PICK place \in {"executing", "backoff", "ended"} :
            at' = [at EXCEPT ![j] = place]
    BY <1>2, LaunchOutcome, FailOutcome DEF Submit
  <2>2. result[j] = Nobody
    BY <1>2 DEF Submit, OwnInv
  <2> QED BY <1>2, <1>t, <2>1, <2>2, MoveKeepsOwn DEF Submit
<1>3. CASE Take
  <2> DEFINE h == Head(queue)
  <2>1. h \in Jobs /\ at[h] = "queued"
    BY <1>3 DEF Take, TypeOK, PlacedInv
  <2>2. job[h].awaited => result[h] \in {h, Nobody}
    BY <2>1 DEF OwnInv, OwnResult
  <2> HIDE DEF h
  <2>3. at' = [at EXCEPT ![h] = "held"]
    BY <1>3 DEF Take, Goto, h
  <2>4. job' = [job EXCEPT ![h] = job[h]] /\ using' = using /\ result' = result
    BY <1>3, <1>t, <2>1 DEF Take
  <2> QED BY <1>t, <2>1, <2>2, <2>3, <2>4, MoveKeepsOwn
<1>4. ASSUME NEW j \in Jobs, Dispatch(j) PROVE OwnInv'
  <2>1. job[j].awaited => result[j] \in {j, Nobody}
    BY DEF OwnInv, OwnResult
  <2> QED BY <1>4, <1>t, <2>1, MoveKeepsOwn DEF Dispatch, Goto
<1>5. ASSUME NEW j \in Jobs, Start(j) \/ Resume(j) PROVE OwnInv'
  <2>1. PICK place \in {"executing", "backoff", "ended"} :
            at' = [at EXCEPT ![j] = place]
    BY <1>5, LaunchOutcome, FailOutcome DEF Start, Resume
  <2>2. job[j].awaited => using'[j] = j
    BY <1>5 DEF Start, Resume, PlacedInv, OwnInv
  <2>3. job[j].awaited => result[j] \in {j, Nobody}
    BY DEF OwnInv, OwnResult
  <2>4. /\ \A i \in Jobs \ {j} : using'[i] = using[i]
        /\ result' = result /\ job' = job
    BY <1>5, <1>t DEF Start, Resume
  <2> QED BY <1>t, <2>1, <2>2, <2>3, <2>4, MoveKeepsOwn
<1>6. ASSUME NEW j \in Jobs, Raise(j) \/ Return(j) PROVE OwnInv'
  <2>1. PICK place \in {"backoff", "ended"} : at' = [at EXCEPT ![j] = place]
    BY <1>6, FailOutcome DEF Raise, Return, Goto
  <2>2. job[j].awaited => using[j] = j /\ result[j] \in {j, Nobody}
    BY <1>6 DEF Raise, Return, OwnInv, OwnResult
  <2>3. /\ job' = job /\ using' = using
        /\ \A i \in Jobs \ {j} : result'[i] = result[i]
        /\ result'[j] \in {result[j], using[j]}
    BY <1>6, <1>t DEF Raise, Return
  <2> QED BY <1>t, <2>1, <2>2, <2>3, MoveKeepsOwn
<1>7. ASSUME NEW j \in Jobs, Report(j) \/ Cancel(j) \/ Pause(j)
      PROVE  OwnInv'
  BY <1>7 DEF Report, Cancel, Pause, OwnInv, OwnResult
<1>8. ASSUME NEW j \in Jobs, NEW copy \in Jobs, Retry(j, copy)
      PROVE  OwnInv'
  <2>1. result[copy] = Nobody
    BY <1>8 DEF Retry, OwnInv
  <2> QED BY <1>8, <1>t, <2>1, MoveKeepsOwn DEF Retry, Goto
<1>9. CASE Restart
  BY <1>9, <1>t DEF Restart, OwnInv, OwnResult
<1>10. CASE UNCHANGED vars
  BY <1>10 DEF vars, OwnInv, OwnResult
<1>11. CASE \E j \in Jobs, s \in RuntimeJob :
                SubmitFails(j, s) \/ Submit(j, s) \/ Enqueue(j, s)
  BY <1>1, <1>2, <1>11
<1>12. CASE \E j \in Jobs : Dispatch(j) \/ Run(j) \/ Report(j)
  BY <1>4, <1>5, <1>6, <1>7, <1>12 DEF Run
<1>13. CASE \E j \in Jobs : Cancel(j) \/ Pause(j) \/ \E copy \in Jobs : Retry(j, copy)
  BY <1>7, <1>8, <1>13
<1> QED BY <1>3, <1>9, <1>10, <1>11, <1>12, <1>13, NextCases

\* An awaited job is answered with what its own executor returned, however
\* many jobs of its type are submitted meanwhile.
THEOREM ResultsAreOwn == Spec => []OwnResult
<1>1. Init => TypeOK /\ PlacedInv /\ OwnInv
  BY InitTypes, PlacedInit DEF Init, OwnInv, OwnResult
<1>2. TypeOK /\ PlacedInv /\ OwnInv /\ [Next]_vars
          => (TypeOK /\ PlacedInv /\ OwnInv)'
  BY TypeStep, PlacedStep, OwnStep
<1>3. OwnInv => OwnResult
  BY DEF OwnInv
<1> QED BY <1>1, <1>2, <1>3, PTL DEF Spec

----------------------------------------------------------------------------
(* A job with an outcome has no coroutine left that could change it.       *)

Outcome == {"completed", "failed"}

FinalInv == \A j \in Jobs : status[j] \in Outcome => at[j] = "ended"

\* What a step may do to the only job it is about: nothing visible, or
\* something to a job that has no outcome yet.
Touches(j) ==
    /\ \A i \in Jobs \ {j} : /\ at'[i] = at[i] /\ status'[i] = status[i]
                             /\ result'[i] = result[i]
    /\ \/ /\ status'[j] = status[j] /\ result'[j] = result[j]
          /\ at'[j] = at[j] \/ at[j] # "ended"
       \/ /\ at[j] # "ended" \/ status[j] \notin Outcome
          /\ status'[j] \in Outcome => at'[j] = "ended"

\* An attempt gives an outcome only where it ends the coroutine.
LEMMA LaunchFinal ==
    ASSUME TypeOK, NEW j \in Jobs, NEW s, NEW statuses \in [Jobs -> Status],
           NEW left, Launch(j, s, statuses, left)
    PROVE  /\ \A i \in Jobs \ {j} : status'[i] = statuses[i] /\ at'[i] = at[i]
           /\ status'[j] \in Outcome => at'[j] = "ended"
<1>1. at \in [Jobs -> Place]
  BY DEF TypeOK
<1> QED BY <1>1, LaunchOutcome, FailOutcome DEF Outcome

\* A step but a restart is about one job at most.
LEMMA StepTouches ==
    ASSUME TypeOK, PlacedInv, [Next]_vars, ~ Restart
    PROVE  (\E j \in Jobs : Touches(j)) \/ UNCHANGED <<at, status, result>>
<1>t. /\ at \in [Jobs -> Place] /\ status \in [Jobs -> Status]
      /\ result \in [Jobs -> Jobs \cup {Nobody}]
  BY DEF TypeOK
<1>q. \A j \in Jobs : [status EXCEPT ![j] = "queued"] \in [Jobs -> Status]
  BY <1>t DEF Status
<1>1. ASSUME NEW j \in Jobs, NEW s \in RuntimeJob,
             SubmitFails(j, s) \/ Enqueue(j, s)
      PROVE  Touches(j)
  BY <1>1, <1>t DEF SubmitFails, Enqueue, Goto, Write, Touches, Outcome
<1>2. ASSUME NEW j \in Jobs, NEW s \in RuntimeJob, Submit(j, s)
      PROVE  Touches(j)
  <2> DEFINE queued == [status EXCEPT ![j] = "queued"]
  <2>1. Launch(j, s, queued, queued) /\ at[j] # "ended" /\ result' = result
    BY <1>2 DEF Submit
  <2>2. /\ queued \in [Jobs -> Status]
        /\ \A i \in Jobs \ {j} : queued[i] = status[i]
    BY <1>t, <1>q
  <2> HIDE DEF queued
  <2>3. /\ \A i \in Jobs \ {j} : status'[i] = queued[i] /\ at'[i] = at[i]
        /\ status'[j] \in Outcome => at'[j] = "ended"
    BY <2>1, <2>2, LaunchFinal
  <2> QED BY <2>1, <2>2, <2>3 DEF Touches
<1>3. ASSUME Take PROVE \E j \in Jobs : Touches(j)
  <2>1. Head(queue) \in Jobs /\ at[Head(queue)] = "queued"
    BY <1>3 DEF Take, TypeOK, PlacedInv
  <2>2. Touches(Head(queue))
    BY <1>3, <1>t, <2>1 DEF Take, Goto, Touches
  <2> QED BY <2>1, <2>2
<1>4. ASSUME NEW j \in Jobs, Dispatch(j) PROVE Touches(j)
  BY <1>4, <1>t DEF Dispatch, Goto, Touches
<1>5. ASSUME NEW j \in Jobs, Start(j) \/ Resume(j) PROVE Touches(j)
  BY <1>5, <1>t, LaunchFinal DEF Start, Resume, Touches
<1>6. ASSUME NEW j \in Jobs, Report(j) PROVE Touches(j)
  BY <1>6, <1>t DEF Report, Write, Touches, Outcome
<1>7. ASSUME NEW j \in Jobs, Raise(j) \/ Return(j) PROVE Touches(j)
  <2>1. \A i \in Jobs \ {j} : result'[i] = result[i]
    BY <1>7, <1>t DEF Raise, Return
  <2>2. at[j] # "ended"
    BY <1>7 DEF Raise, Return
  <2>3. CASE \E left, lost : Fail(j, job[j], status, left, lost)
    BY <1>t, <2>1, <2>2, <2>3, FailOutcome DEF Touches, Outcome
  <2>4. CASE /\ status' = [status EXCEPT ![j] = "completed"]
             /\ at' = [at EXCEPT ![j] = "ended"]
    BY <1>t, <2>1, <2>2, <2>4 DEF Touches
  <2> QED BY <1>7, <2>3, <2>4 DEF Raise, Return, Write, Goto
<1>8. ASSUME NEW j \in Jobs, Cancel(j) \/ Pause(j) PROVE Touches(j)
  BY <1>8, <1>t DEF Cancel, Pause, Write, Touches, Outcome, Terminal
<1>9. ASSUME NEW j \in Jobs, NEW copy \in Jobs, Retry(j, copy)
      PROVE  Touches(copy)
  BY <1>9, <1>t DEF Retry, Goto, Write, Touches, Outcome
<1>10. CASE UNCHANGED vars
  BY <1>10 DEF vars
<1>11. ASSUME NEW j \in Jobs, NEW s \in RuntimeJob,
              SubmitFails(j, s) \/ Submit(j, s) \/ Enqueue(j, s)
       PROVE  Touches(j)
  BY <1>1, <1>2, <1>11
<1>12. ASSUME NEW j \in Jobs, Dispatch(j) \/ Run(j) \/ Report(j)
       PROVE  Touches(j)
  BY <1>4, <1>5, <1>6, <1>7, <1>12 DEF Run
<1> QED BY <1>3, <1>8, <1>9, <1>10, <1>11, <1>12, NextCases

\* Every step keeps outcomes with coroutines that have ended.
LEMMA FinalStep == TypeOK /\ PlacedInv /\ FinalInv /\ [Next]_vars => FinalInv'
<1> SUFFICES ASSUME TypeOK, PlacedInv, FinalInv, [Next]_vars PROVE FinalInv'
  OBVIOUS
<1>1. CASE Restart
  BY <1>1 DEF Restart, FinalInv, Outcome
<1>2. ASSUME NEW j \in Jobs, Touches(j) PROVE FinalInv'
  BY <1>2 DEF Touches, FinalInv
<1>3. CASE UNCHANGED <<at, status, result>>
  BY <1>3 DEF FinalInv
<1> QED BY <1>1, <1>2, <1>3, StepTouches

\* What is completed or failed stays so, with its result, until a restart.
THEOREM OutcomesAreFinal == Spec => OutcomeIsFinal
<1>1. Init => TypeOK /\ PlacedInv /\ FinalInv
  BY InitTypes, PlacedInit DEF Init, FinalInv, Outcome
<1>2. TypeOK /\ PlacedInv /\ FinalInv /\ [Next]_vars
          => (TypeOK /\ PlacedInv /\ FinalInv)'
  BY TypeStep, PlacedStep, FinalStep
<1>3. TypeOK /\ PlacedInv /\ FinalInv /\ [Next]_vars =>
          [\A j \in Jobs :
              status[j] \in {"completed", "failed"} =>
                  \/ status'[j] = status[j] /\ result'[j] = result[j]
                  \/ restarts' # restarts]_vars
  <2> SUFFICES ASSUME TypeOK, PlacedInv, FinalInv, [Next]_vars,
                      NEW j \in Jobs, status[j] \in Outcome,
                      restarts' = restarts
               PROVE  status'[j] = status[j] /\ result'[j] = result[j]
    BY DEF Outcome
  <2>1. ~ Restart
    <3>1. restarts \in Nat
      BY BoundsAssumption DEF TypeOK
    <3> QED BY <3>1 DEF Restart
  <2>2. at[j] = "ended"
    BY DEF FinalInv
  <2>3. ASSUME NEW i \in Jobs, Touches(i)
        PROVE  status'[j] = status[j] /\ result'[j] = result[j]
    BY <2>2, <2>3 DEF Touches
  <2> QED BY <2>1, <2>3, StepTouches
<1> QED BY <1>1, <1>2, <1>3, PTL DEF Spec, OutcomeIsFinal

\* The outcome a caller of the manager sees is its job's own, was tried as often
\* as the limits allow, and stays.
THEOREM OutcomesAreOwn == Spec => OutcomeIsOwn
BY AttemptsAreBounded, ResultsAreOwn, OutcomesAreFinal, PTL DEF OutcomeIsOwn
=============================================================================
