--------------------------- MODULE Platform_proofs ---------------------------
(***************************************************************************)
(* Components of the platform, for any of their parameters: the processes  *)
(* of builds, whose output, place in the registry and end are accounted    *)
(* for; the repair loop, which claims no success it did not see; the task  *)
(* pipeline, whose statuses are true of the files and of the build; and    *)
(* the analysis of a repository: the files shown to a model, the map of    *)
(* the repository, how a file is read, and the saved index.                *)
(***************************************************************************)
EXTENDS BuildProcess, RepairLoop, TaskPipeline, PlanContext, RepositoryIndex, SequenceTheorems,
        FiniteSetTheorems, TLAPS

(* -------------------------- numbers and sequences ---------------------- *)

\* A bounded set of numbers has a greatest one: of the intervals up to the bound
\* that begin in the set, the least with respect to inclusion begins there.
LEMMA HasMaximum ==
    ASSUME NEW n \in Nat, NEW S \in SUBSET (0 .. n), S # {}
    PROVE  Max(S) \in S /\ \A k \in S : k <= Max(S)
<1> DEFINE U == 0 .. n
           Above == {m .. n : m \in S}
<1>1. IsFiniteSet(U)
    BY FS_Interval
<1>2. Above \subseteq FiniteSubsetsOf(U) /\ Above # {}
  <2>1. ASSUME NEW m \in S PROVE m .. n \in FiniteSubsetsOf(U)
    <3>1. m .. n \in SUBSET U
      BY <2>1
    <3> QED BY <3>1, <1>1, FS_FiniteSubsetsOfFinite
  <2> QED BY <2>1
<1>3. IsWellFoundedOn(StrictSubsetOrdering(U), FiniteSubsetsOf(U))
    BY FS_StrictSubsetOrderingWellFounded
<1>4. PICK x \in Above : \A y \in Above : ~ (<<y, x>> \in StrictSubsetOrdering(U))
  <2> HIDE DEF U, Above
  <2> QED BY <1>2, <1>3, WFMin
<1>5. PICK m \in S : x = m .. n
    OBVIOUS
<1>6. ASSUME NEW k \in S PROVE k <= m
  <2>1. SUFFICES ASSUME k > m PROVE FALSE
    OBVIOUS
  <2>2. k .. n \in Above
    OBVIOUS
  <2>3. k .. n \subseteq m .. n /\ m \in m .. n /\ m \notin k .. n
    BY <2>1
  <2>4. <<k .. n, m .. n>> \in StrictSubsetOrdering(U)
    BY <2>3 DEF StrictSubsetOrdering
  <2> QED BY <2>2, <2>4, <1>4, <1>5
<1> QED BY <1>6 DEF Max

(* ------------------------------ the output ----------------------------- *)

ByteText == Seq(BOOLEAN)
\* Appending is associative.
LEMMA TextsAppend ==
    ASSUME NEW s \in ByteText, NEW t \in ByteText, NEW u \in ByteText
    PROVE  (s \o t) \o u = s \o (t \o u)
<1>1. s \in Seq(BOOLEAN) /\ t \in Seq(BOOLEAN) /\ u \in Seq(BOOLEAN)
  BY DEF ByteText
<1>2. Len(s) \in Nat /\ Len(t) \in Nat /\ Len(u) \in Nat
  BY <1>1
<1>3. /\ (s \o t) \o u \in Seq(BOOLEAN) /\ s \o (t \o u) \in Seq(BOOLEAN)
      /\ Len((s \o t) \o u) = Len(s) + Len(t) + Len(u)
      /\ Len(s \o (t \o u)) = Len(s) + Len(t) + Len(u)
  BY <1>1, <1>2
<1>4. \A i \in 1 .. Len(s) + Len(t) + Len(u) : ((s \o t) \o u)[i] = (s \o (t \o u))[i]
  BY <1>1, <1>2
<1> QED BY <1>2, <1>3, <1>4, SeqEqual
LogType == [kept : ByteText, read : ByteText, discarded : Nat, cut : BOOLEAN]

\* What a buffer tells of what was appended to it: every byte is kept or counted,
\* and unless a character was cut, what it keeps has no gap: after a byte that is
\* discarded it keeps none.
Told(l) ==
    /\ Len(l.kept) <= MaxLogBytes
    /\ Len(l.kept) + l.discarded = Len(l.read)
    /\ ~l.cut => /\ IsPrefix(l.kept, l.read)
                 /\ l.discarded = 0 \/ Len(l.kept) = MaxLogBytes

\* What is kept of a chunk is a prefix of it that fits.
LEMMA FittingFits ==
    ASSUME NEW l \in LogType, NEW chunk \in ByteText, Told(l)
    PROVE  \E n \in 0 .. Len(chunk) :
              /\ Fitting(l, chunk) = SubSeq(chunk, 1, n)
              /\ Len(l.kept) + n <= MaxLogBytes
<1> DEFINE n == Max(FittingLengths(l, chunk))
<1>1. Len(chunk) \in Nat /\ Len(l.kept) \in Nat /\ MaxLogBytes \in Nat
    BY BuildProcessAssumption DEF ByteText, LogType
<1>2. FittingLengths(l, chunk) \in SUBSET (0 .. Len(chunk)) /\ FittingLengths(l, chunk) # {}
    BY <1>1 DEF FittingLengths
<1>3. n \in FittingLengths(l, chunk)
    BY <1>1, <1>2, HasMaximum
<1>4. Fitting(l, chunk) = SubSeq(chunk, 1, n)
    BY DEF Fitting
<1> HIDE DEF n
<1>5. n \in 0 .. Len(chunk) /\ Len(l.kept) + n <= MaxLogBytes
    BY <1>1, <1>3 DEF FittingLengths, Told
<1> QED BY <1>4, <1>5

\* A buffer goes on telling what was appended to it.
LEMMA AppendedTold ==
    ASSUME NEW l \in LogType, NEW chunk \in ByteText, Told(l)
    PROVE  /\ Appended(l, chunk) \in LogType
           /\ Appended(l, chunk).read = l.read \o chunk
           /\ Told(Appended(l, chunk))
<1> DEFINE new == Appended(l, chunk)
           fit == Fitting(l, chunk)
<1>1. PICK n \in 0 .. Len(chunk) : fit = SubSeq(chunk, 1, n) /\ Len(l.kept) + n <= MaxLogBytes
    BY FittingFits
<1>2. l.kept \in ByteText /\ l.read \in ByteText /\ l.discarded \in Nat /\ l.cut \in BOOLEAN
    BY DEF LogType
<1>3. /\ Len(chunk) \in Nat /\ Len(l.kept) \in Nat /\ Len(l.read) \in Nat
      /\ MaxLogBytes \in Nat
    BY <1>2, BuildProcessAssumption DEF ByteText
<1>4. fit \in ByteText /\ Len(fit) = n /\ \A i \in 1 .. n : fit[i] = chunk[i]
  <2>1. \A i \in 1 .. n : chunk[i] \in BOOLEAN
    BY <1>3 DEF ByteText
  <2> QED BY <1>1, <1>3, <2>1, SubSeqProperties DEF ByteText
<1>5. /\ new.kept = l.kept \o fit /\ new.read = l.read \o chunk
      /\ new.discarded = l.discarded + (Len(chunk) - Len(fit))
      /\ new.cut = (l.cut \/ (Len(chunk) - Len(fit) > 0 /\ Len(l.kept \o fit) < MaxLogBytes))
    BY DEF Appended
<1>6. new = [kept |-> new.kept, read |-> new.read, discarded |-> new.discarded,
             cut |-> new.cut]
    BY DEF Appended
<1> HIDE DEF new, fit
<1>7. new.kept \in ByteText /\ Len(new.kept) = Len(l.kept) + n
    BY <1>2, <1>4, <1>5, ConcatProperties DEF ByteText
<1>8. \A i \in 1 .. Len(l.kept) + n :
          new.kept[i] = IF i <= Len(l.kept) THEN l.kept[i] ELSE fit[i - Len(l.kept)]
    BY <1>2, <1>4, <1>5, ConcatProperties DEF ByteText
<1>9. new.read \in ByteText /\ Len(new.read) = Len(l.read) + Len(chunk)
    BY <1>2, <1>5, ConcatProperties DEF ByteText
<1>10. \A i \in 1 .. Len(l.read) + Len(chunk) :
          new.read[i] = IF i <= Len(l.read) THEN l.read[i] ELSE chunk[i - Len(l.read)]
    BY <1>2, <1>5, ConcatProperties DEF ByteText
<1>11. new.discarded = l.discarded + Len(chunk) - n /\ new.discarded \in Nat
    BY <1>2, <1>3, <1>4, <1>5
<1>12. new \in LogType
  <2>1. new.cut \in BOOLEAN
    BY <1>5
  <2> QED BY <2>1, <1>6, <1>7, <1>9, <1>11 DEF LogType
<1>13. Len(new.kept) <= MaxLogBytes /\ Len(new.kept) + new.discarded = Len(new.read)
  <2>1. Len(l.kept) + l.discarded = Len(l.read)
    BY DEF Told
  <2>2. l.discarded \in Nat /\ n \in Nat /\ n <= Len(chunk)
    BY <1>1, <1>2, <1>3
  <2>3. Len(new.kept) <= MaxLogBytes
    BY <1>1, <1>7
  <2>4. (Len(l.kept) + n) + (l.discarded + Len(chunk) - n) = Len(l.read) + Len(chunk)
    BY <1>3, <2>1, <2>2
  <2> QED BY <1>7, <1>9, <1>11, <2>3, <2>4
<1>14. ASSUME ~new.cut
       PROVE  /\ IsPrefix(new.kept, new.read)
              /\ new.discarded = 0 \/ Len(new.kept) = MaxLogBytes
  <2>1. ~l.cut /\ ~(Len(chunk) - Len(fit) > 0 /\ Len(l.kept \o fit) < MaxLogBytes)
    BY <1>5, <1>14
  <2>2. Len(chunk) = n \/ Len(new.kept) = MaxLogBytes
    <3>1. ~(Len(chunk) - n > 0 /\ Len(new.kept) < MaxLogBytes)
      BY <1>4, <1>5, <2>1
    <3>2. Len(new.kept) \in Nat /\ Len(new.kept) <= MaxLogBytes /\ n \in 0 .. Len(chunk)
      BY <1>3, <1>7, <1>13
    <3> QED BY <1>3, <3>1, <3>2
  <2>3. /\ Len(l.kept) <= Len(l.read)
        /\ SubSeq(l.kept, 1, Len(l.kept)) = SubSeq(l.read, 1, Len(l.kept))
        /\ l.discarded = 0 \/ Len(l.kept) = MaxLogBytes
        /\ Len(l.kept) + l.discarded = Len(l.read)
    BY <2>1 DEF Told, IsPrefix
  <2>4. \A i \in 1 .. Len(l.kept) : l.kept[i] = l.read[i]
    <3>1. \A i \in 1 .. Len(l.kept) : l.kept[i] \in BOOLEAN /\ l.read[i] \in BOOLEAN
      BY <1>2, <1>3, <2>3 DEF ByteText
    <3>2. \A i \in 1 .. Len(l.kept) : SubSeq(l.kept, 1, Len(l.kept))[i] = l.kept[i]
      BY <1>3, <3>1, SubSeqProperties
    <3>3. \A i \in 1 .. Len(l.kept) : SubSeq(l.read, 1, Len(l.kept))[i] = l.read[i]
      BY <1>3, <3>1, SubSeqProperties
    <3> QED BY <2>3, <3>2, <3>3
  <2>5. n = 0 \/ Len(l.kept) = Len(l.read)
    BY <1>1, <1>2, <1>3, <2>3
  <2>6. Len(new.kept) <= Len(new.read)
    BY <1>1, <1>3, <1>7, <1>9, <2>3
  <2>7. \A i \in 1 .. Len(new.kept) : new.kept[i] = new.read[i]
    <3> TAKE i \in 1 .. Len(new.kept)
    <3>1. i \in 1 .. Len(l.kept) + n /\ i \in 1 .. Len(l.read) + Len(chunk)
      BY <1>1, <1>3, <1>7, <2>3
    <3>2. CASE i <= Len(l.kept)
      <4>1. i \in 1 .. Len(l.kept) /\ i <= Len(l.read)
        BY <3>1, <3>2, <1>3, <2>3
      <4> QED BY <3>1, <3>2, <4>1, <1>8, <1>10, <2>4
    <3>3. CASE ~(i <= Len(l.kept))
      <4>1. Len(l.kept) = Len(l.read) /\ i - Len(l.kept) \in 1 .. n
        BY <3>1, <3>3, <2>5, <1>1, <1>3
      <4>2. new.kept[i] = fit[i - Len(l.kept)] /\ new.read[i] = chunk[i - Len(l.kept)]
        BY <3>1, <3>3, <4>1, <1>8, <1>10
      <4> QED BY <4>1, <4>2, <1>4
    <3> QED BY <3>2, <3>3
  <2>8. SubSeq(new.kept, 1, Len(new.kept)) = SubSeq(new.read, 1, Len(new.kept))
    <3>1. Len(new.kept) \in Nat /\ Len(new.read) \in Nat
      BY <1>7, <1>9 DEF ByteText
    <3>2. \A i \in 1 .. Len(new.kept) : new.kept[i] \in BOOLEAN /\ new.read[i] \in BOOLEAN
      BY <2>6, <3>1, <1>7, <1>9 DEF ByteText
    <3> QED BY <2>6, <2>7, <3>1, <3>2
  <2>9. new.discarded = 0 \/ Len(new.kept) = MaxLogBytes
    BY <1>1, <1>2, <1>3, <1>7, <1>11, <1>13, <2>2, <2>3
  <2> QED BY <2>6, <2>8, <2>9 DEF IsPrefix
<1> QED BY <1>5, <1>12, <1>13, <1>14 DEF Told, new

(* ----------------------- the processes of executions ------------------- *)

Places ==
    {"begin", "register", "wait", "terminate", "grace", "killed", "unregister",
     "unregistered", "join", "done"}
BuildStatuses ==
    {"none", "raised", "error", "refused", "succeeded", "failed", "timed_out", "cancelled"}
Continuations == {"none", "unregister", "unregistered"}
ProcessStates == {"none", "running", "ok", "bad"}
RunType == [at : Places, then : Continuations, status : BuildStatuses, reading : BOOLEAN,
            gaveUp : BOOLEAN]
ProcType == [state : ProcessStates, child : BOOLEAN, killed : BOOLEAN]

ProcessesTyped ==
    /\ executions \in Setups /\ cancelled \subseteq Executions
    /\ run \in [Executions -> RunType] /\ proc \in [Executions -> ProcType]
    /\ canceller \in [Executions -> {"none", "found", "grace"}]
    /\ registry \in [CommandIds -> Executions \cup {Nothing}]
    /\ pipe \in [Executions -> ByteText] /\ printed \in [Executions -> ByteText]
    /\ log \in [Executions -> LogType]

\* Where an execution goes after it has ended its process.
Continues(e) ==
    /\ run[e].status = "none" <=> run[e].at \in {"begin", "register", "wait"}
    /\ run[e].at \in {"terminate", "grace", "killed"} => run[e].then # "none"
    /\ run[e].at = "unregister" => run[e].then # "unregistered"

\* Past its last wait an execution has left a process only to SIGKILL.
LeavesNone(e) ==
    /\ run[e].at = "begin" => proc[e].state = "none"
    /\ run[e].at \in {"killed", "unregistered", "join", "done"} => ~Alive(e) \/ proc[e].killed

\* What was printed has been read or is in the pipe, until a reader is given up; a
\* reader that has stopped has left nothing, nor anybody who could print more.
ReadOrWaiting(e) ==
    /\ Told(log[e])
    /\ ~run[e].gaveUp => log[e].read \o pipe[e] = printed[e]
    /\ run[e].at = "done" /\ run[e].reading => run[e].gaveUp
    /\ e \notin executions.prints => pipe[e] = <<>> /\ ~proc[e].child
    /\ run[e].at = "begin" => pipe[e] = <<>> /\ ~proc[e].child
    /\ /\ ~run[e].reading /\ e \in executions.prints
       /\ run[e].at # "register" /\ run[e].status \notin {"error", "refused"}
       => pipe[e] = <<>> /\ ~Alive(e) /\ ~proc[e].child

\* The inductive invariant of the processes of builds.
ProcessesInv ==
    /\ ProcessesTyped /\ RegistryIsUnderWay
    /\ \A e \in DOMAIN executions.ids : Continues(e) /\ LeavesNone(e) /\ ReadOrWaiting(e)

\* The executions of a setup are executions, and their commands have ids.
LEMMA SetupTyped ==
    ASSUME ProcessesTyped, NEW e \in DOMAIN executions.ids
    PROVE  e \in Executions /\ executions.ids[e] \in CommandIds /\ e # Nothing
BY BuildProcessAssumption DEF ProcessesTyped

\* What a step does not touch of an execution stays as the invariant has it.
Untouched(e) ==
    /\ run'[e] = run[e] /\ proc'[e] = proc[e] /\ pipe'[e] = pipe[e]
    /\ printed'[e] = printed[e] /\ log'[e] = log[e]
Kept(e) == Continues(e) /\ LeavesNone(e) /\ ReadOrWaiting(e)
LEMMA UntouchedKept ==
    ASSUME NEW e, Kept(e), Untouched(e), executions' = executions
    PROVE  Kept(e)'
BY DEF Kept, Untouched, Continues, LeavesNone, ReadOrWaiting, Told, Alive

\* It is enough to look at the execution that a step is about.
LEMMA OneTouched ==
    ASSUME ProcessesInv, executions' = executions, NEW d \in DOMAIN executions.ids,
           ProcessesTyped', RegistryIsUnderWay', Kept(d)',
           \A e \in Executions \ {d} : Untouched(e)
    PROVE  ProcessesInv'
<1>1. \A e \in DOMAIN executions.ids : Kept(e)'
  <2> TAKE e \in DOMAIN executions.ids
  <2>1. Kept(e) /\ e \in Executions
    BY SetupTyped DEF ProcessesInv, Kept
  <2> QED BY <2>1, UntouchedKept
<1> QED BY <1>1 DEF ProcessesInv, Kept

\* What the registry has stays so where neither it nor what is under way changes.
LEMMA RegistryStays ==
    ASSUME ProcessesInv, executions' = executions, registry' = registry,
           \A e \in DOMAIN executions.ids :
              (/\ run[e].at \notin {"begin", "register", "join", "done"}
               /\ run[e].status # "refused")
              <=> (/\ run'[e].at \notin {"begin", "register", "join", "done"}
                   /\ run'[e].status # "refused")
    PROVE  RegistryIsUnderWay'
BY DEF ProcessesInv, RegistryIsUnderWay

\* It holds at first.
LEMMA ProcessesBegin == ProcessInit => ProcessesInv
<1> SUFFICES ASSUME ProcessInit PROVE ProcessesInv
  OBVIOUS
<1>1. EmptyLog \in LogType /\ <<>> \in ByteText
  BY DEF EmptyLog, LogType, ByteText
<1>2. ProcessesTyped
  BY <1>1 DEF ProcessInit, ProcessesTyped, RunType, ProcType, Places, BuildStatuses,
     Continuations, ProcessStates
<1>3. RegistryIsUnderWay
  BY <1>2, SetupTyped DEF ProcessInit, RegistryIsUnderWay
<1>4. Told(EmptyLog) /\ EmptyLog.read = <<>>
  BY BuildProcessAssumption DEF Told, EmptyLog, IsPrefix
<1>5. <<>> \o <<>> = <<>>
  OBVIOUS
<1>6. \A e \in DOMAIN executions.ids : Continues(e) /\ LeavesNone(e) /\ ReadOrWaiting(e)
  <2> TAKE e \in DOMAIN executions.ids
  <2>1. e \in Executions
    BY <1>2, SetupTyped
  <2>2. /\ run[e] = [at |-> "begin", then |-> "none", status |-> "none", reading |-> FALSE,
                     gaveUp |-> FALSE]
        /\ proc[e] = [state |-> "none", child |-> FALSE, killed |-> FALSE]
        /\ pipe[e] = <<>> /\ printed[e] = <<>> /\ log[e] = EmptyLog
    BY <2>1 DEF ProcessInit
  <2> QED BY <2>2, <1>4, <1>5 DEF Continues, LeavesNone, ReadOrWaiting, Alive
<1> QED BY <1>2, <1>3, <1>6 DEF ProcessesInv

\* Values of the fields, for steps that need no more than these.
LEMMA WhereRunsAre ==
    /\ {"register", "wait", "terminate", "grace", "killed", "unregister", "unregistered", "join",
        "done"} \subseteq Places
    /\ {"unregister", "unregistered"} \subseteq Places \cap Continuations
    /\ "none" \in Continuations
    /\ {"raised", "error", "refused", "succeeded", "failed", "timed_out", "cancelled"}
           \subseteq BuildStatuses
    /\ {"running", "ok", "bad"} \subseteq ProcessStates
    /\ \A then \in Continuations : then # "none" => then \in Places
BY DEF Places, Continuations, BuildStatuses, ProcessStates

\* Starting a process.
LEMMA StartKept ==
    ASSUME ProcessesInv, NEW d \in DOMAIN executions.ids, Start(d)
    PROVE  ProcessesInv'
<1>1. d \in Executions /\ executions.ids[d] \in CommandIds /\ d # Nothing /\ ProcessesTyped
  BY SetupTyped DEF ProcessesInv
<1>2. executions' = executions
  BY DEF Start
<1>3. Kept(d)
  BY DEF ProcessesInv, Kept
<1>4. ProcessesTyped'
  <2>1. run' \in [Executions -> RunType]
    <3>1. CASE run' = [run EXCEPT ![d].at = "done", ![d].status = "raised"]
      <4>1. [run EXCEPT ![d].at = "done"] \in [Executions -> RunType]
        BY <1>1, WhereRunsAre DEF ProcessesTyped, RunType
      <4> QED BY <1>1, <4>1, <3>1, WhereRunsAre DEF RunType
    <3>2. CASE run' = [run EXCEPT ![d].at = "register"]
      BY <1>1, WhereRunsAre, <3>2 DEF ProcessesTyped, RunType
    <3>3. CASE run' = [run EXCEPT ![d].at = "join", ![d].status = "error"]
      <4>1. [run EXCEPT ![d].at = "join"] \in [Executions -> RunType]
        BY <1>1, WhereRunsAre DEF ProcessesTyped, RunType
      <4> QED BY <1>1, <4>1, <3>3, WhereRunsAre DEF RunType
    <3> QED BY <3>1, <3>2, <3>3 DEF Start, Goto
  <2>2. proc' \in [Executions -> ProcType]
    BY <1>1, WhereRunsAre DEF ProcessesTyped, ProcType, Start, Goto, Output
  <2> QED BY <1>1, <2>1, <2>2 DEF ProcessesTyped, Start, Goto, Output
<1>5. \A e \in Executions \ {d} : Untouched(e)
  BY <1>1 DEF ProcessesTyped, Untouched, Start, Goto, Output
<1>6. RegistryIsUnderWay'
  <2>1. registry' = registry
    BY DEF Start
  <2>2. \A e \in DOMAIN executions.ids :
           (/\ run[e].at \notin {"begin", "register", "join", "done"}
            /\ run[e].status # "refused")
           <=> (/\ run'[e].at \notin {"begin", "register", "join", "done"}
                /\ run'[e].status # "refused")
    BY <1>1, <1>3, <1>5, SetupTyped DEF Kept, Continues, ProcessesTyped, RunType, Untouched, Start, Goto, Output
  <2> QED BY <1>2, <2>1, <2>2, RegistryStays
<1>7. Kept(d)'
  BY <1>1, <1>3 DEF Kept, Continues, LeavesNone, ReadOrWaiting, Told, Alive, ProcessesTyped, RunType,
     ProcType, Start, Goto, Output
<1> QED BY <1>2, <1>4, <1>5, <1>6, <1>7, OneTouched

\* Waiting for it.
LEMMA WaitKept ==
    ASSUME ProcessesInv, NEW d \in DOMAIN executions.ids, Wait(d)
    PROVE  ProcessesInv'
<1>1. d \in Executions /\ executions.ids[d] \in CommandIds /\ d # Nothing /\ ProcessesTyped
  BY SetupTyped DEF ProcessesInv
<1>2. executions' = executions
  BY DEF Wait
<1>3. Kept(d)
  BY DEF ProcessesInv, Kept
<1>4. ProcessesTyped'
  <2>1. run' \in [Executions -> RunType]
    <3>1. PICK st \in BuildStatuses :
             \/ run' = [run EXCEPT ![d].at = "unregister", ![d].status = st]
             \/ run' = [run EXCEPT ![d].at = "terminate", ![d].then = "unregister",
                                   ![d].status = st]
      <4>1. CASE ~Alive(d)
        BY <4>1, WhereRunsAre DEF Wait
      <4>2. CASE Alive(d)
        BY <4>2, WhereRunsAre DEF Wait, EndsAs
      <4> QED BY <4>1, <4>2
    <3> QED BY <1>1, WhereRunsAre, <3>1 DEF ProcessesTyped, RunType
  <2>2. proc' \in [Executions -> ProcType]
    BY <1>1, WhereRunsAre DEF ProcessesTyped, ProcType, Wait, EndsAs, Output, Alive
  <2> QED BY <1>1, <2>1, <2>2 DEF ProcessesTyped, Wait, EndsAs, Output, Alive
<1>5. \A e \in Executions \ {d} : Untouched(e)
  BY <1>1 DEF ProcessesTyped, Untouched, Wait, EndsAs, Output, Alive
<1>6. RegistryIsUnderWay'
  <2>1. registry' = registry
    BY DEF Wait
  <2>2. \A e \in DOMAIN executions.ids :
           (/\ run[e].at \notin {"begin", "register", "join", "done"}
            /\ run[e].status # "refused")
           <=> (/\ run'[e].at \notin {"begin", "register", "join", "done"}
                /\ run'[e].status # "refused")
    BY <1>1, <1>3, <1>5, SetupTyped DEF Kept, Continues, ProcessesTyped, RunType, Untouched, Wait, EndsAs, Output, Alive
  <2> QED BY <1>2, <2>1, <2>2, RegistryStays
<1>7. Kept(d)'
  BY <1>1, <1>3 DEF Kept, Continues, LeavesNone, ReadOrWaiting, Told, Alive, ProcessesTyped, RunType,
     ProcType, Wait, EndsAs, Output, Alive
<1> QED BY <1>2, <1>4, <1>5, <1>6, <1>7, OneTouched

\* Its end, if it wants to.
LEMMA TerminateKept ==
    ASSUME ProcessesInv, NEW d \in DOMAIN executions.ids, Terminate(d)
    PROVE  ProcessesInv'
<1>1. d \in Executions /\ executions.ids[d] \in CommandIds /\ d # Nothing /\ ProcessesTyped
  BY SetupTyped DEF ProcessesInv
<1>2. executions' = executions
  BY DEF Terminate
<1>3. Kept(d)
  BY DEF ProcessesInv, Kept
<1>4. ProcessesTyped'
  <2>1. run' \in [Executions -> RunType]
    <3>1. run[d].then \in Places
      BY <1>1, <1>3, WhereRunsAre DEF Terminate, Kept, Continues, ProcessesTyped, RunType
    <3>2. PICK at \in Places : run' = [run EXCEPT ![d].at = at]
      BY <3>1, WhereRunsAre DEF Terminate, Goto
    <3> QED BY <1>1, <3>2 DEF ProcessesTyped, RunType
  <2>2. proc' \in [Executions -> ProcType]
    BY <1>1, WhereRunsAre DEF ProcessesTyped, ProcType, Terminate, Goto, Output, Alive
  <2> QED BY <1>1, <2>1, <2>2 DEF ProcessesTyped, Terminate, Goto, Output, Alive
<1>5. \A e \in Executions \ {d} : Untouched(e)
  BY <1>1 DEF ProcessesTyped, Untouched, Terminate, Goto, Output, Alive
<1>6. RegistryIsUnderWay'
  <2>1. registry' = registry
    BY DEF Terminate
  <2>2. \A e \in DOMAIN executions.ids :
           (/\ run[e].at \notin {"begin", "register", "join", "done"}
            /\ run[e].status # "refused")
           <=> (/\ run'[e].at \notin {"begin", "register", "join", "done"}
                /\ run'[e].status # "refused")
    BY <1>1, <1>3, <1>5, SetupTyped DEF Kept, Continues, Continuations, ProcessesTyped, RunType, Untouched, Terminate, Goto, Output, Alive
  <2> QED BY <1>2, <2>1, <2>2, RegistryStays
<1>7. Kept(d)'
  BY <1>1, <1>3 DEF Kept, Continues, Continuations, LeavesNone, ReadOrWaiting, Told, Alive, ProcessesTyped, RunType,
     ProcType, Terminate, Goto, Output, Alive
<1> QED BY <1>2, <1>4, <1>5, <1>6, <1>7, OneTouched

\* Its end, if it is told to.
LEMMA GraceKept ==
    ASSUME ProcessesInv, NEW d \in DOMAIN executions.ids, Grace(d)
    PROVE  ProcessesInv'
<1>1. d \in Executions /\ executions.ids[d] \in CommandIds /\ d # Nothing /\ ProcessesTyped
  BY SetupTyped DEF ProcessesInv
<1>2. executions' = executions
  BY DEF Grace
<1>3. Kept(d)
  BY DEF ProcessesInv, Kept
<1>4. ProcessesTyped'
  <2>1. run' \in [Executions -> RunType]
    <3>1. run[d].then \in Places
      BY <1>1, <1>3, WhereRunsAre DEF Grace, Kept, Continues, ProcessesTyped, RunType
    <3>2. PICK at \in Places : run' = [run EXCEPT ![d].at = at]
      BY <3>1, WhereRunsAre DEF Grace, Goto
    <3> QED BY <1>1, <3>2 DEF ProcessesTyped, RunType
  <2>2. proc' \in [Executions -> ProcType]
    <3>1. proc' = proc \/ proc' = [proc EXCEPT ![d].killed = TRUE]
      BY DEF Grace, Kill
    <3>2. [proc EXCEPT ![d].killed = TRUE] \in [Executions -> ProcType]
      BY <1>1 DEF ProcessesTyped, ProcType
    <3> QED BY <1>1, <3>1, <3>2 DEF ProcessesTyped
  <2> QED BY <1>1, <2>1, <2>2 DEF ProcessesTyped, Grace, Goto, Kill, Output, Alive
<1>5. \A e \in Executions \ {d} : Untouched(e)
  BY <1>1 DEF ProcessesTyped, Untouched, Grace, Goto, Kill, Output, Alive
<1>6. RegistryIsUnderWay'
  <2>1. registry' = registry
    BY DEF Grace
  <2>2. \A e \in DOMAIN executions.ids :
           (/\ run[e].at \notin {"begin", "register", "join", "done"}
            /\ run[e].status # "refused")
           <=> (/\ run'[e].at \notin {"begin", "register", "join", "done"}
                /\ run'[e].status # "refused")
    BY <1>1, <1>3, <1>5, SetupTyped DEF Kept, Continues, Continuations, ProcessesTyped, RunType, Untouched, Grace, Goto, Kill, Output, Alive
  <2> QED BY <1>2, <2>1, <2>2, RegistryStays
<1>7. Kept(d)'
  <2>1. run[d] \in RunType /\ proc[d] \in ProcType
    BY <1>1 DEF ProcessesTyped
  <2>2. CASE Alive(d)
    <3>1. /\ run'[d].at = "killed" /\ run'[d].then = run[d].then
          /\ run'[d].status = run[d].status /\ run'[d].reading = run[d].reading
          /\ run'[d].gaveUp = run[d].gaveUp
      BY <1>1, <2>1, <2>2 DEF Grace, Goto, ProcessesTyped, RunType
    <3>2. proc'[d].killed /\ proc'[d].state = proc[d].state /\ proc'[d].child = proc[d].child
      BY <1>1, <2>1, <2>2 DEF Grace, Kill, ProcessesTyped, ProcType
    <3>3. /\ run[d].at = "grace" /\ UNCHANGED <<executions, pipe, printed, log>>
      BY DEF Grace, Output
    <3> QED BY <1>3, <2>2, <3>1, <3>2, <3>3 DEF Kept, Continues, LeavesNone, ReadOrWaiting, Told, Alive
  <2>3. CASE ~Alive(d)
    BY <1>1, <1>3, <2>1, <2>3 DEF Kept, Continues, Continuations, LeavesNone, ReadOrWaiting, Told,
       Alive, ProcessesTyped, RunType, Grace, Goto, Output
  <2> QED BY <2>2, <2>3
<1> QED BY <1>2, <1>4, <1>5, <1>6, <1>7, OneTouched

\* What is waited for after that.
LEMMA KilledKept ==
    ASSUME ProcessesInv, NEW d \in DOMAIN executions.ids, Killed(d)
    PROVE  ProcessesInv'
<1>1. d \in Executions /\ executions.ids[d] \in CommandIds /\ d # Nothing /\ ProcessesTyped
  BY SetupTyped DEF ProcessesInv
<1>2. executions' = executions
  BY DEF Killed
<1>3. Kept(d)
  BY DEF ProcessesInv, Kept
<1>4. ProcessesTyped'
  <2>1. run' \in [Executions -> RunType]
    <3>1. run[d].then \in Places
      BY <1>1, <1>3, WhereRunsAre DEF Killed, Kept, Continues, ProcessesTyped, RunType
    <3>2. PICK at \in Places : run' = [run EXCEPT ![d].at = at]
      BY <3>1, WhereRunsAre DEF Killed, Goto
    <3> QED BY <1>1, <3>2 DEF ProcessesTyped, RunType
  <2>2. proc' \in [Executions -> ProcType]
    BY <1>1, WhereRunsAre DEF ProcessesTyped, ProcType, Killed, Goto, Output
  <2> QED BY <1>1, <2>1, <2>2 DEF ProcessesTyped, Killed, Goto, Output
<1>5. \A e \in Executions \ {d} : Untouched(e)
  BY <1>1 DEF ProcessesTyped, Untouched, Killed, Goto, Output
<1>6. RegistryIsUnderWay'
  <2>1. registry' = registry
    BY DEF Killed
  <2>2. \A e \in DOMAIN executions.ids :
           (/\ run[e].at \notin {"begin", "register", "join", "done"}
            /\ run[e].status # "refused")
           <=> (/\ run'[e].at \notin {"begin", "register", "join", "done"}
                /\ run'[e].status # "refused")
    BY <1>1, <1>3, <1>5, SetupTyped DEF Kept, Continues, Continuations, ProcessesTyped, RunType, Untouched, Killed, Goto, Output
  <2> QED BY <1>2, <2>1, <2>2, RegistryStays
<1>7. Kept(d)'
  BY <1>1, <1>3 DEF Kept, Continues, Continuations, LeavesNone, ReadOrWaiting, Told, Alive, ProcessesTyped, RunType,
     ProcType, Killed, Goto, Output
<1> QED BY <1>2, <1>4, <1>5, <1>6, <1>7, OneTouched

\* The result.
LEMMA JoinKept ==
    ASSUME ProcessesInv, NEW d \in DOMAIN executions.ids, Join(d)
    PROVE  ProcessesInv'
<1>1. d \in Executions /\ executions.ids[d] \in CommandIds /\ d # Nothing /\ ProcessesTyped
  BY SetupTyped DEF ProcessesInv
<1>2. executions' = executions
  BY DEF Join
<1>3. Kept(d)
  BY DEF ProcessesInv, Kept
<1>4. ProcessesTyped'
  <2>1. run' \in [Executions -> RunType]
    <3>1. run' = [run EXCEPT ![d].at = "done", ![d].then = "none", ![d].gaveUp = run[d].reading]
      BY DEF Join
    <3>2. run[d].reading \in BOOLEAN
      BY <1>1 DEF ProcessesTyped, RunType
    <3>3. PICK b \in BOOLEAN : b = run[d].reading
      BY <3>2
    <3>4. [run EXCEPT ![d].at = "done", ![d].then = "none"] \in [Executions -> RunType]
      BY <1>1, WhereRunsAre DEF ProcessesTyped, RunType
    <3>5. [run EXCEPT ![d].at = "done", ![d].then = "none", ![d].gaveUp = b]
              \in [Executions -> RunType]
      BY <1>1, <3>4 DEF RunType
    <3> QED BY <3>1, <3>3, <3>5
  <2>2. proc' \in [Executions -> ProcType]
    BY <1>1, WhereRunsAre DEF ProcessesTyped, ProcType, Join, Output
  <2> QED BY <1>1, <2>1, <2>2 DEF ProcessesTyped, Join, Output
<1>5. \A e \in Executions \ {d} : Untouched(e)
  BY <1>1 DEF ProcessesTyped, Untouched, Join, Output
<1>6. RegistryIsUnderWay'
  <2>1. registry' = registry
    BY DEF Join
  <2>2. \A e \in DOMAIN executions.ids :
           (/\ run[e].at \notin {"begin", "register", "join", "done"}
            /\ run[e].status # "refused")
           <=> (/\ run'[e].at \notin {"begin", "register", "join", "done"}
                /\ run'[e].status # "refused")
    BY <1>1, <1>3, <1>5, SetupTyped DEF Kept, Continues, ProcessesTyped, RunType, Untouched, Join, Output
  <2> QED BY <1>2, <2>1, <2>2, RegistryStays
<1>7. Kept(d)'
  BY <1>1, <1>3 DEF Kept, Continues, LeavesNone, ReadOrWaiting, Told, Alive, ProcessesTyped, RunType,
     ProcType, Join, Output
<1> QED BY <1>2, <1>4, <1>5, <1>6, <1>7, OneTouched

\* The end of a reader.
LEMMA EndOfFileKept ==
    ASSUME ProcessesInv, NEW d \in DOMAIN executions.ids, EndOfFile(d)
    PROVE  ProcessesInv'
<1>1. d \in Executions /\ executions.ids[d] \in CommandIds /\ d # Nothing /\ ProcessesTyped
  BY SetupTyped DEF ProcessesInv
<1>2. executions' = executions
  BY DEF EndOfFile
<1>3. Kept(d)
  BY DEF ProcessesInv, Kept
<1>4. ProcessesTyped'
  <2>1. run' \in [Executions -> RunType]
    <3>1. run' = [run EXCEPT ![d].reading = FALSE]
      BY DEF EndOfFile
    <3>2. run[d].reading \in BOOLEAN
      BY <1>1 DEF ProcessesTyped, RunType
    <3> QED BY <1>1, WhereRunsAre, <3>1, <3>2 DEF ProcessesTyped, RunType
  <2>2. proc' \in [Executions -> ProcType]
    BY <1>1, WhereRunsAre DEF ProcessesTyped, ProcType, EndOfFile, Output, Alive
  <2> QED BY <1>1, <2>1, <2>2 DEF ProcessesTyped, EndOfFile, Output, Alive
<1>5. \A e \in Executions \ {d} : Untouched(e)
  BY <1>1 DEF ProcessesTyped, Untouched, EndOfFile, Output, Alive
<1>6. RegistryIsUnderWay'
  <2>1. registry' = registry
    BY DEF EndOfFile
  <2>2. \A e \in DOMAIN executions.ids :
           (/\ run[e].at \notin {"begin", "register", "join", "done"}
            /\ run[e].status # "refused")
           <=> (/\ run'[e].at \notin {"begin", "register", "join", "done"}
                /\ run'[e].status # "refused")
    BY <1>1, <1>3, <1>5, SetupTyped DEF Kept, Continues, ProcessesTyped, RunType, Untouched, EndOfFile, Output, Alive
  <2> QED BY <1>2, <2>1, <2>2, RegistryStays
<1>7. Kept(d)'
  BY <1>1, <1>3 DEF Kept, Continues, LeavesNone, ReadOrWaiting, Told, Alive, ProcessesTyped, RunType,
     ProcType, EndOfFile, Output, Alive
<1> QED BY <1>2, <1>4, <1>5, <1>6, <1>7, OneTouched

\* The end of a process, whatever it is of.
LEMMA ExitKept ==
    ASSUME ProcessesInv, NEW d \in DOMAIN executions.ids, Exit(d)
    PROVE  ProcessesInv'
<1>1. d \in Executions /\ executions.ids[d] \in CommandIds /\ d # Nothing /\ ProcessesTyped
  BY SetupTyped DEF ProcessesInv
<1>2. executions' = executions
  BY DEF Exit
<1>3. Kept(d)
  BY DEF ProcessesInv, Kept
<1>4. ProcessesTyped'
  <2>1. run' \in [Executions -> RunType]
    BY <1>1, WhereRunsAre DEF ProcessesTyped, RunType, Exit, Output, Alive
  <2>2. proc' \in [Executions -> ProcType]
    BY <1>1, WhereRunsAre DEF ProcessesTyped, ProcType, Exit, Output, Alive
  <2> QED BY <1>1, <2>1, <2>2 DEF ProcessesTyped, Exit, Output, Alive
<1>5. \A e \in Executions \ {d} : Untouched(e)
  BY <1>1 DEF ProcessesTyped, Untouched, Exit, Output, Alive
<1>6. RegistryIsUnderWay'
  <2>1. registry' = registry
    BY DEF Exit
  <2>2. \A e \in DOMAIN executions.ids :
           (/\ run[e].at \notin {"begin", "register", "join", "done"}
            /\ run[e].status # "refused")
           <=> (/\ run'[e].at \notin {"begin", "register", "join", "done"}
                /\ run'[e].status # "refused")
    BY <1>1, <1>3, <1>5, SetupTyped DEF Kept, Continues, ProcessesTyped, RunType, Untouched, Exit, Output, Alive
  <2> QED BY <1>2, <2>1, <2>2, RegistryStays
<1>7. Kept(d)'
  BY <1>1, <1>3 DEF Kept, Continues, LeavesNone, ReadOrWaiting, Told, Alive, ProcessesTyped, RunType,
     ProcType, Exit, Output, Alive
<1> QED BY <1>2, <1>4, <1>5, <1>6, <1>7, OneTouched

\* The end of its child.
LEMMA ChildExitsKept ==
    ASSUME ProcessesInv, NEW d \in DOMAIN executions.ids, ChildExits(d)
    PROVE  ProcessesInv'
<1>1. d \in Executions /\ executions.ids[d] \in CommandIds /\ d # Nothing /\ ProcessesTyped
  BY SetupTyped DEF ProcessesInv
<1>2. executions' = executions
  BY DEF ChildExits
<1>3. Kept(d)
  BY DEF ProcessesInv, Kept
<1>4. ProcessesTyped'
  <2>1. run' \in [Executions -> RunType]
    BY <1>1, WhereRunsAre DEF ProcessesTyped, RunType, ChildExits, Output
  <2>2. proc' \in [Executions -> ProcType]
    BY <1>1, WhereRunsAre DEF ProcessesTyped, ProcType, ChildExits, Output
  <2> QED BY <1>1, <2>1, <2>2 DEF ProcessesTyped, ChildExits, Output
<1>5. \A e \in Executions \ {d} : Untouched(e)
  BY <1>1 DEF ProcessesTyped, Untouched, ChildExits, Output
<1>6. RegistryIsUnderWay'
  <2>1. registry' = registry
    BY DEF ChildExits
  <2>2. \A e \in DOMAIN executions.ids :
           (/\ run[e].at \notin {"begin", "register", "join", "done"}
            /\ run[e].status # "refused")
           <=> (/\ run'[e].at \notin {"begin", "register", "join", "done"}
                /\ run'[e].status # "refused")
    BY <1>1, <1>3, <1>5, SetupTyped DEF Kept, Continues, ProcessesTyped, RunType, Untouched, ChildExits, Output
  <2> QED BY <1>2, <2>1, <2>2, RegistryStays
<1>7. Kept(d)'
  BY <1>1, <1>3 DEF Kept, Continues, LeavesNone, ReadOrWaiting, Told, Alive, ProcessesTyped, RunType,
     ProcType, ChildExits, Output
<1> QED BY <1>2, <1>4, <1>5, <1>6, <1>7, OneTouched

\* A token.
LEMMA CancelKept ==
    ASSUME ProcessesInv, NEW d \in DOMAIN executions.ids, Cancel(d)
    PROVE  ProcessesInv'
<1>1. d \in Executions /\ executions.ids[d] \in CommandIds /\ d # Nothing /\ ProcessesTyped
  BY SetupTyped DEF ProcessesInv
<1> DOMAIN executions.ids \subseteq Executions
  BY <1>1, SetupTyped
<1>2. executions' = executions
  BY DEF Cancel
<1>3. Kept(d)
  BY DEF ProcessesInv, Kept
<1>4. ProcessesTyped'
  <2>1. run' \in [Executions -> RunType]
    BY <1>1, WhereRunsAre DEF ProcessesTyped, RunType, Cancel, Output
  <2>2. proc' \in [Executions -> ProcType]
    BY <1>1, WhereRunsAre DEF ProcessesTyped, ProcType, Cancel, Output
  <2> QED BY <1>1, <2>1, <2>2 DEF ProcessesTyped, Cancel, Output
<1>5. \A e \in Executions \ {d} : Untouched(e)
  BY <1>1 DEF ProcessesTyped, Untouched, Cancel, Output
<1>6. RegistryIsUnderWay'
  <2>1. registry' = registry
    BY DEF Cancel
  <2>2. \A e \in DOMAIN executions.ids :
           (/\ run[e].at \notin {"begin", "register", "join", "done"}
            /\ run[e].status # "refused")
           <=> (/\ run'[e].at \notin {"begin", "register", "join", "done"}
                /\ run'[e].status # "refused")
    BY <1>1, <1>3, <1>5, SetupTyped DEF Kept, Continues, ProcessesTyped, RunType, Untouched, Cancel, Output
  <2> QED BY <1>2, <2>1, <2>2, RegistryStays
<1>7. Kept(d)'
  BY <1>1, <1>3 DEF Kept, Continues, LeavesNone, ReadOrWaiting, Told, Alive, ProcessesTyped, RunType,
     ProcType, Cancel, Output
<1> QED BY <1>2, <1>4, <1>5, <1>6, <1>7, OneTouched

\* Who looks a process up, ...
LEMMA FindProcessKept ==
    ASSUME ProcessesInv, NEW d \in DOMAIN executions.ids, FindProcess(d)
    PROVE  ProcessesInv'
<1>1. d \in Executions /\ executions.ids[d] \in CommandIds /\ d # Nothing /\ ProcessesTyped
  BY SetupTyped DEF ProcessesInv
<1>2. executions' = executions
  BY DEF FindProcess
<1>3. Kept(d)
  BY DEF ProcessesInv, Kept
<1>4. ProcessesTyped'
  <2>1. run' \in [Executions -> RunType]
    BY <1>1, WhereRunsAre DEF ProcessesTyped, RunType, FindProcess, Output
  <2>2. proc' \in [Executions -> ProcType]
    BY <1>1, WhereRunsAre DEF ProcessesTyped, ProcType, FindProcess, Output
  <2> QED BY <1>1, <2>1, <2>2 DEF ProcessesTyped, FindProcess, Output
<1>5. \A e \in Executions \ {d} : Untouched(e)
  BY <1>1 DEF ProcessesTyped, Untouched, FindProcess, Output
<1>6. RegistryIsUnderWay'
  <2>1. registry' = registry
    BY DEF FindProcess
  <2>2. \A e \in DOMAIN executions.ids :
           (/\ run[e].at \notin {"begin", "register", "join", "done"}
            /\ run[e].status # "refused")
           <=> (/\ run'[e].at \notin {"begin", "register", "join", "done"}
                /\ run'[e].status # "refused")
    BY <1>1, <1>3, <1>5, SetupTyped DEF Kept, Continues, ProcessesTyped, RunType, Untouched, FindProcess, Output
  <2> QED BY <1>2, <2>1, <2>2, RegistryStays
<1>7. Kept(d)'
  BY <1>1, <1>3 DEF Kept, Continues, LeavesNone, ReadOrWaiting, Told, Alive, ProcessesTyped, RunType,
     ProcType, FindProcess, Output
<1> QED BY <1>2, <1>4, <1>5, <1>6, <1>7, OneTouched

\* ... asks it to end, ...
LEMMA CancellerTerminatesKept ==
    ASSUME ProcessesInv, NEW d \in DOMAIN executions.ids, CancellerTerminates(d)
    PROVE  ProcessesInv'
<1>1. d \in Executions /\ executions.ids[d] \in CommandIds /\ d # Nothing /\ ProcessesTyped
  BY SetupTyped DEF ProcessesInv
<1>2. executions' = executions
  BY DEF CancellerTerminates
<1>3. Kept(d)
  BY DEF ProcessesInv, Kept
<1>4. ProcessesTyped'
  <2>1. run' \in [Executions -> RunType]
    BY <1>1, WhereRunsAre DEF ProcessesTyped, RunType, CancellerTerminates, Output, Alive
  <2>2. proc' \in [Executions -> ProcType]
    BY <1>1, WhereRunsAre DEF ProcessesTyped, ProcType, CancellerTerminates, Output, Alive
  <2> QED BY <1>1, <2>1, <2>2 DEF ProcessesTyped, CancellerTerminates, Output, Alive
<1>5. \A e \in Executions \ {d} : Untouched(e)
  BY <1>1 DEF ProcessesTyped, Untouched, CancellerTerminates, Output, Alive
<1>6. RegistryIsUnderWay'
  <2>1. registry' = registry
    BY DEF CancellerTerminates
  <2>2. \A e \in DOMAIN executions.ids :
           (/\ run[e].at \notin {"begin", "register", "join", "done"}
            /\ run[e].status # "refused")
           <=> (/\ run'[e].at \notin {"begin", "register", "join", "done"}
                /\ run'[e].status # "refused")
    BY <1>1, <1>3, <1>5, SetupTyped DEF Kept, Continues, ProcessesTyped, RunType, Untouched, CancellerTerminates, Output, Alive
  <2> QED BY <1>2, <2>1, <2>2, RegistryStays
<1>7. Kept(d)'
  BY <1>1, <1>3 DEF Kept, Continues, LeavesNone, ReadOrWaiting, Told, Alive, ProcessesTyped, RunType,
     ProcType, CancellerTerminates, Output, Alive
<1> QED BY <1>2, <1>4, <1>5, <1>6, <1>7, OneTouched

\* ... and ends it.
LEMMA CancellerKillsKept ==
    ASSUME ProcessesInv, NEW d \in DOMAIN executions.ids, CancellerKills(d)
    PROVE  ProcessesInv'
<1>1. d \in Executions /\ executions.ids[d] \in CommandIds /\ d # Nothing /\ ProcessesTyped
  BY SetupTyped DEF ProcessesInv
<1>2. executions' = executions
  BY DEF CancellerKills
<1>3. Kept(d)
  BY DEF ProcessesInv, Kept
<1>4. ProcessesTyped'
  <2>1. run' \in [Executions -> RunType]
    BY <1>1, WhereRunsAre DEF ProcessesTyped, RunType, CancellerKills, Kill, Output, Alive
  <2>2. proc' \in [Executions -> ProcType]
    <3>1. proc' = proc \/ proc' = [proc EXCEPT ![d].killed = TRUE]
      BY DEF CancellerKills, Kill
    <3>2. [proc EXCEPT ![d].killed = TRUE] \in [Executions -> ProcType]
      BY <1>1 DEF ProcessesTyped, ProcType
    <3> QED BY <1>1, <3>1, <3>2 DEF ProcessesTyped
  <2> QED BY <1>1, <2>1, <2>2 DEF ProcessesTyped, CancellerKills, Kill, Output, Alive
<1>5. \A e \in Executions \ {d} : Untouched(e)
  BY <1>1 DEF ProcessesTyped, Untouched, CancellerKills, Kill, Output, Alive
<1>6. RegistryIsUnderWay'
  <2>1. registry' = registry
    BY DEF CancellerKills
  <2>2. \A e \in DOMAIN executions.ids :
           (/\ run[e].at \notin {"begin", "register", "join", "done"}
            /\ run[e].status # "refused")
           <=> (/\ run'[e].at \notin {"begin", "register", "join", "done"}
                /\ run'[e].status # "refused")
    BY <1>1, <1>3, <1>5, SetupTyped DEF Kept, Continues, ProcessesTyped, RunType, Untouched, CancellerKills, Kill, Output, Alive
  <2> QED BY <1>2, <2>1, <2>2, RegistryStays
<1>7. Kept(d)'
  BY <1>1, <1>3 DEF Kept, Continues, LeavesNone, ReadOrWaiting, Told, Alive, ProcessesTyped, RunType,
     ProcType, CancellerKills, Kill, Output, Alive
<1> QED BY <1>2, <1>4, <1>5, <1>6, <1>7, OneTouched

\* An id that is free, or taken.
LEMMA RegisterKept ==
    ASSUME ProcessesInv, NEW d \in DOMAIN executions.ids, Register(d)
    PROVE  ProcessesInv'
<1> DEFINE id == executions.ids[d]
<1>1. d \in Executions /\ id \in CommandIds /\ d # Nothing /\ ProcessesTyped
  BY SetupTyped DEF ProcessesInv
<1>2. /\ executions' = executions /\ run[d].at = "register"
      /\ UNCHANGED <<cancelled, proc, canceller, pipe, printed, log>>
  BY DEF Register, Output
<1>3. Kept(d) /\ run[d] \in RunType
  BY <1>1 DEF ProcessesInv, Kept, ProcessesTyped
<1>4. RegistryIsUnderWay
  BY DEF ProcessesInv
<1>5. PICK reads \in BOOLEAN : reads = (d \in executions.prints)
  <2>1. CASE d \in executions.prints
    BY <2>1
  <2>2. CASE d \notin executions.prints
    <3>1. FALSE = (d \in executions.prints)
      BY <2>2
    <3> QED BY <3>1, Zenon
  <2> QED BY <2>1, <2>2
<1>6. CASE registry[id] # Nothing
  <2>1. registry' = registry /\ run' = [run EXCEPT ![d].at = "terminate",
                                        ![d].then = "unregister", ![d].status = "refused"]
    BY <1>6 DEF Register, EndsAs
  <2>2. run' \in [Executions -> RunType]
    <3>1. [run EXCEPT ![d].at = "terminate", ![d].then = "unregister"]
              \in [Executions -> RunType]
      BY <1>1, WhereRunsAre DEF ProcessesTyped, RunType
    <3>2. [run EXCEPT ![d].at = "terminate", ![d].then = "unregister", ![d].status = "refused"]
              \in [Executions -> RunType]
      BY <1>1, <3>1, WhereRunsAre DEF RunType
    <3> QED BY <2>1, <3>2
  <2>3. ProcessesTyped'
    BY <1>1, <1>2, <2>1, <2>2 DEF ProcessesTyped
  <2>4. \A e \in Executions \ {d} : Untouched(e)
    BY <1>1, <1>2, <2>1 DEF ProcessesTyped, Untouched
  <2>5. /\ run'[d].at = "terminate" /\ run'[d].then = "unregister"
        /\ run'[d].status = "refused" /\ run'[d].reading = run[d].reading
        /\ run'[d].gaveUp = run[d].gaveUp
    BY <1>1, <1>3, <2>1 DEF ProcessesTyped, RunType
  <2>6. RegistryIsUnderWay'
    <3>1. \A e \in DOMAIN executions.ids :
             (/\ run[e].at \notin {"begin", "register", "join", "done"}
              /\ run[e].status # "refused")
             <=> (/\ run'[e].at \notin {"begin", "register", "join", "done"}
                  /\ run'[e].status # "refused")
      BY <1>1, <1>2, <2>4, <2>5, SetupTyped DEF Untouched
    <3> QED BY <1>2, <2>1, <3>1, RegistryStays
  <2>7. Kept(d)'
    BY <1>2, <1>3, <2>5 DEF Kept, Continues, LeavesNone, ReadOrWaiting, Told, Alive
  <2> QED BY <1>2, <2>3, <2>4, <2>6, <2>7, OneTouched
<1>7. CASE registry[id] = Nothing
  <2>1. /\ registry' = [registry EXCEPT ![id] = d]
        /\ \/ run' = [run EXCEPT ![d].at = "wait", ![d].reading = reads]
           \/ run' = [run EXCEPT ![d].at = "terminate", ![d].then = "unregister",
                                 ![d].status = "error"]
    BY <1>5, <1>7 DEF Register, EndsAs
  <2>2. run' \in [Executions -> RunType]
    <3>1. [run EXCEPT ![d].at = "wait", ![d].reading = reads] \in [Executions -> RunType]
      BY <1>1, WhereRunsAre DEF ProcessesTyped, RunType
    <3>2. [run EXCEPT ![d].at = "terminate", ![d].then = "unregister"]
              \in [Executions -> RunType]
      BY <1>1, WhereRunsAre DEF ProcessesTyped, RunType
    <3>3. [run EXCEPT ![d].at = "terminate", ![d].then = "unregister", ![d].status = "error"]
              \in [Executions -> RunType]
      BY <1>1, <3>2, WhereRunsAre DEF RunType
    <3> QED BY <2>1, <3>1, <3>3
  <2>3. ProcessesTyped'
    BY <1>1, <1>2, <2>1, <2>2 DEF ProcessesTyped
  <2>4. \A e \in Executions \ {d} : Untouched(e)
    BY <1>1, <1>2, <2>1 DEF ProcessesTyped, Untouched
  <2>5. \/ /\ run'[d].at = "wait" /\ run'[d].status = run[d].status
           /\ run'[d].reading = reads
        \/ /\ run'[d].at = "terminate" /\ run'[d].then = "unregister"
           /\ run'[d].status = "error"
    BY <1>1, <1>3, <2>1 DEF ProcessesTyped, RunType
  <2>6. run'[d].gaveUp = run[d].gaveUp
    BY <1>1, <1>3, <2>1 DEF ProcessesTyped, RunType
  <2>7. RegistryIsUnderWay'
    <3>1. run[d].status = "none"
      BY <1>2, <1>3 DEF Kept, Continues
    <3>2. \A e \in DOMAIN executions.ids \ {d} :
             registry'[executions.ids[e]] = e <=>
                 /\ run'[e].at \notin {"begin", "register", "join", "done"}
                 /\ run'[e].status # "refused"
      <4> TAKE e \in DOMAIN executions.ids \ {d}
      <4>1. e \in Executions /\ executions.ids[e] \in CommandIds /\ e # Nothing
        BY <1>1, SetupTyped
      <4>2. run'[e] = run[e]
        BY <2>4, <4>1 DEF Untouched
      <4>3. registry'[executions.ids[e]] = e <=> registry[executions.ids[e]] = e
        BY <1>1, <1>7, <2>1, <4>1 DEF ProcessesTyped
      <4> QED BY <1>4, <4>2, <4>3 DEF RegistryIsUnderWay
    <3>3. registry'[id] = d
      BY <1>1, <2>1 DEF ProcessesTyped
    <3> QED BY <1>2, <2>5, <3>1, <3>2, <3>3 DEF RegistryIsUnderWay
  <2>8. Kept(d)'
    <3>1. CASE run'[d].at = "wait" /\ run'[d].status = run[d].status /\ run'[d].reading = reads
      BY <1>2, <1>3, <1>5, <2>6, <3>1 DEF Kept, Continues, LeavesNone, ReadOrWaiting, Told, Alive
    <3>2. CASE run'[d].at = "terminate" /\ run'[d].then = "unregister" /\ run'[d].status = "error"
      BY <1>2, <1>3, <2>6, <3>2 DEF Kept, Continues, LeavesNone, ReadOrWaiting, Told, Alive
    <3> QED BY <2>5, <3>1, <3>2
  <2> QED BY <1>2, <2>3, <2>4, <2>7, <2>8, OneTouched
<1> QED BY <1>6, <1>7

\* An execution that gives up its place in the registry, where it has it.
LEMMA UnregisteredKept ==
    ASSUME ProcessesInv, NEW d \in DOMAIN executions.ids,
           run[d].at \in {"unregister", "unregistered"}, ~Alive(d) \/ proc[d].killed,
           registry' = Unregistered(d), Goto(d, "join"),
           UNCHANGED <<executions, cancelled, proc, canceller, Output>>
    PROVE  ProcessesInv'
<1> DEFINE id == executions.ids[d]
<1>1. d \in Executions /\ id \in CommandIds /\ d # Nothing /\ ProcessesTyped
  BY SetupTyped DEF ProcessesInv
<1>2. executions' = executions /\ UNCHANGED <<cancelled, proc, canceller, pipe, printed, log>>
  BY DEF Output
<1>3. Kept(d) /\ run[d] \in RunType /\ RegistryIsUnderWay
  BY <1>1 DEF ProcessesInv, Kept, ProcessesTyped
<1>4. run' \in [Executions -> RunType]
  BY <1>1, WhereRunsAre DEF Goto, ProcessesTyped, RunType
<1>5. registry' = [registry EXCEPT ![id] = IF registry[id] = d THEN Nothing ELSE registry[id]]
  BY DEF Unregistered
<1>6. registry' \in [CommandIds -> Executions \cup {Nothing}]
  BY <1>1, <1>5 DEF ProcessesTyped
<1>7. ProcessesTyped'
  BY <1>1, <1>2, <1>4, <1>6 DEF ProcessesTyped
<1>8. \A e \in Executions \ {d} : Untouched(e)
  BY <1>1, <1>2 DEF Goto, ProcessesTyped, Untouched
<1>9. /\ run'[d].at = "join" /\ run'[d].status = run[d].status
      /\ run'[d].reading = run[d].reading /\ run'[d].gaveUp = run[d].gaveUp
  BY <1>1, <1>3 DEF Goto, ProcessesTyped, RunType
<1>10. RegistryIsUnderWay'
  <2>1. \A e \in DOMAIN executions.ids \ {d} :
           registry'[executions.ids[e]] = e <=>
               /\ run'[e].at \notin {"begin", "register", "join", "done"}
               /\ run'[e].status # "refused"
    <3> TAKE e \in DOMAIN executions.ids \ {d}
    <3>1. e \in Executions /\ executions.ids[e] \in CommandIds /\ e # Nothing
      BY <1>1, SetupTyped
    <3>2. run'[e] = run[e]
      BY <1>8, <3>1 DEF Untouched
    <3>3. registry'[executions.ids[e]] = e <=> registry[executions.ids[e]] = e
      BY <1>1, <1>5, <3>1 DEF ProcessesTyped
    <3> QED BY <1>3, <3>2, <3>3 DEF RegistryIsUnderWay
  <2>2. registry'[id] # d
    BY <1>1, <1>5 DEF ProcessesTyped
  <2> QED BY <1>2, <1>9, <2>1, <2>2 DEF RegistryIsUnderWay
<1>11. Kept(d)'
  BY <1>2, <1>3, <1>9 DEF Kept, Continues, LeavesNone, ReadOrWaiting, Told, Alive
<1> QED BY <1>2, <1>7, <1>8, <1>10, <1>11, OneTouched

\* The `finally'.
LEMMA UnregisterKept ==
    ASSUME ProcessesInv, NEW d \in DOMAIN executions.ids, Unregister(d)
    PROVE  ProcessesInv'
<1>1. d \in Executions /\ executions.ids[d] \in CommandIds /\ d # Nothing /\ ProcessesTyped
  BY SetupTyped DEF ProcessesInv
<1>2. /\ executions' = executions /\ run[d].at = "unregister"
      /\ UNCHANGED <<cancelled, proc, canceller, pipe, printed, log>>
  BY DEF Unregister, Output
<1>3. Kept(d) /\ run[d] \in RunType
  BY <1>1 DEF ProcessesInv, Kept, ProcessesTyped
<1>4. CASE Alive(d) /\ run[d].then # "unregistered"
  <2>1. /\ registry' = registry
        /\ run' = [run EXCEPT ![d].at = "terminate", ![d].then = "unregistered"]
    BY <1>4 DEF Unregister
  <2>2. run' \in [Executions -> RunType]
    BY <1>1, <2>1, WhereRunsAre DEF ProcessesTyped, RunType
  <2>3. ProcessesTyped'
    BY <1>1, <1>2, <2>1, <2>2 DEF ProcessesTyped
  <2>4. \A e \in Executions \ {d} : Untouched(e)
    BY <1>1, <1>2, <2>1 DEF ProcessesTyped, Untouched
  <2>5. /\ run'[d].at = "terminate" /\ run'[d].then = "unregistered"
        /\ run'[d].status = run[d].status /\ run'[d].reading = run[d].reading
        /\ run'[d].gaveUp = run[d].gaveUp
    BY <1>1, <1>3, <2>1 DEF ProcessesTyped, RunType
  <2>6. RegistryIsUnderWay'
    <3>1. \A e \in DOMAIN executions.ids :
             (/\ run[e].at \notin {"begin", "register", "join", "done"}
              /\ run[e].status # "refused")
             <=> (/\ run'[e].at \notin {"begin", "register", "join", "done"}
                  /\ run'[e].status # "refused")
      BY <1>1, <1>2, <2>4, <2>5, SetupTyped DEF Untouched
    <3> QED BY <1>2, <2>1, <3>1, RegistryStays
  <2>7. Kept(d)'
    BY <1>2, <1>3, <2>5 DEF Kept, Continues, LeavesNone, ReadOrWaiting, Told, Alive
  <2> QED BY <1>2, <2>3, <2>4, <2>6, <2>7, OneTouched
<1>5. CASE ~(Alive(d) /\ run[d].then # "unregistered")
  <2>1. ~Alive(d)
    BY <1>2, <1>3, <1>5 DEF Kept, Continues
  <2>2. registry' = Unregistered(d) /\ Goto(d, "join")
    BY <1>5 DEF Unregister
  <2>3. UNCHANGED <<executions, cancelled, proc, canceller, Output>>
    BY DEF Unregister
  <2> QED BY <1>2, <2>1, <2>2, <2>3, UnregisteredKept
<1> QED BY <1>4, <1>5
LEMMA UnregisterLateKept ==
    ASSUME ProcessesInv, NEW d \in DOMAIN executions.ids, UnregisterLate(d)
    PROVE  ProcessesInv'
<1>1. LeavesNone(d) /\ run[d].at = "unregistered"
  BY DEF ProcessesInv, UnregisterLate
<1>2. ~Alive(d) \/ proc[d].killed
  BY <1>1 DEF LeavesNone
<1> QED BY <1>1, <1>2, UnregisteredKept DEF UnregisterLate

\* What is printed waits in the pipe.
LEMMA PrintChunkKept ==
    ASSUME ProcessesInv, NEW d \in DOMAIN executions.ids, PrintChunk(d)
    PROVE  ProcessesInv'
<1>1. d \in Executions /\ executions.ids[d] \in CommandIds /\ d # Nothing /\ ProcessesTyped
  BY SetupTyped DEF ProcessesInv
<1>2. /\ executions' = executions /\ d \in executions.prints
      /\ Alive(d) \/ proc[d].child
      /\ UNCHANGED <<cancelled, run, proc, canceller, registry, log>>
  BY DEF PrintChunk
<1>3. Kept(d) /\ log[d] \in LogType /\ pipe[d] \in ByteText /\ printed[d] \in ByteText
  BY <1>1 DEF ProcessesInv, Kept, ProcessesTyped
<1>4. PICK w \in Widths : /\ printed' = [printed EXCEPT ![d] = @ \o Character(w)]
                          /\ pipe' = [pipe EXCEPT ![d] = @ \o Character(w)]
  BY DEF PrintChunk
<1>5. Character(w) \in ByteText
  <2>1. w \in Nat
    BY BuildProcessAssumption
  <2>2. Character(w) \in [1 .. w -> BOOLEAN]
    BY Zenon DEF Character
  <2> QED BY <2>1, <2>2, SeqDef, Zenon DEF ByteText
<1>6. /\ printed'[d] = printed[d] \o Character(w) /\ pipe'[d] = pipe[d] \o Character(w)
      /\ printed'[d] \in ByteText /\ pipe'[d] \in ByteText
  BY <1>1, <1>3, <1>4, <1>5, ConcatProperties DEF ProcessesTyped, ByteText
<1>7. ProcessesTyped'
  <2>1. printed' \in [Executions -> ByteText] /\ pipe' \in [Executions -> ByteText]
    BY <1>1, <1>4, <1>6 DEF ProcessesTyped
  <2> QED BY <1>1, <1>2, <2>1 DEF ProcessesTyped
<1>8. \A e \in Executions \ {d} : Untouched(e)
  BY <1>1, <1>2, <1>4 DEF ProcessesTyped, Untouched
<1>9. RegistryIsUnderWay'
  BY <1>2 DEF ProcessesInv, RegistryIsUnderWay
<1>10. Kept(d)'
  <2>1. log[d].read \in ByteText
    BY <1>3 DEF LogType
  <2>2. log[d].read \o (pipe[d] \o Character(w)) = (log[d].read \o pipe[d]) \o Character(w)
    BY <1>3, <1>5, <2>1, TextsAppend
  <2>3. ~run[d].gaveUp => log[d].read \o pipe'[d] = printed'[d]
    BY <1>3, <1>6, <2>2 DEF Kept, ReadOrWaiting
  <2>4. run[d].at # "begin"
    BY <1>2, <1>3 DEF Kept, LeavesNone, ReadOrWaiting, Alive
  <2>5. ReadOrWaiting(d)'
    BY <1>2, <1>3, <2>3, <2>4 DEF Kept, ReadOrWaiting, Told, Alive
  <2> QED BY <1>2, <1>3, <2>5 DEF Kept, Continues, LeavesNone, Alive
<1> QED BY <1>2, <1>7, <1>8, <1>9, <1>10, OneTouched

\* A chunk goes from the pipe to the buffer.
LEMMA ReadChunkKept ==
    ASSUME ProcessesInv, NEW d \in DOMAIN executions.ids, ReadChunk(d)
    PROVE  ProcessesInv'
<1>1. d \in Executions /\ executions.ids[d] \in CommandIds /\ d # Nothing /\ ProcessesTyped
  BY SetupTyped DEF ProcessesInv
<1>2. /\ executions' = executions /\ run[d].reading /\ pipe[d] # <<>>
      /\ UNCHANGED <<cancelled, run, proc, canceller, registry, printed>>
  BY DEF ReadChunk
<1>3. Kept(d) /\ log[d] \in LogType /\ pipe[d] \in ByteText /\ printed[d] \in ByteText
  BY <1>1 DEF ProcessesInv, Kept, ProcessesTyped
<1>4. PICK n \in 1 .. Len(pipe[d]) :
          /\ log' = IF run[d].at = "done" THEN log
                    ELSE [log EXCEPT ![d] = Appended(@, SubSeq(pipe[d], 1, n))]
          /\ pipe' = [pipe EXCEPT ![d] = SubSeq(@, n + 1, Len(@))]
  BY DEF ReadChunk
<1> DEFINE chunk == SubSeq(pipe[d], 1, n)
           rest == SubSeq(pipe[d], n + 1, Len(pipe[d]))
<1>5. /\ chunk \in ByteText /\ rest \in ByteText /\ chunk \o rest = pipe[d]
  <2>1. PICK q \in Seq(BOOLEAN) : q = pipe[d]
    BY <1>3 DEF ByteText
  <2>2. /\ SubSeq(q, 1, n) \in Seq(BOOLEAN) /\ SubSeq(q, n + 1, Len(q)) \in Seq(BOOLEAN)
        /\ SubSeq(q, 1, n) \o SubSeq(q, n + 1, Len(q)) = q
    BY <2>1
  <2> QED BY <2>1, <2>2 DEF ByteText
<1>6. log[d].read \in ByteText /\ Told(log[d])
  BY <1>3 DEF LogType, Kept, ReadOrWaiting
<1>7. /\ Appended(log[d], chunk) \in LogType /\ Told(Appended(log[d], chunk))
      /\ Appended(log[d], chunk).read = log[d].read \o chunk
  BY <1>3, <1>5, <1>6, AppendedTold
<1> HIDE DEF chunk, rest
<1>8. (log[d].read \o chunk) \o rest = log[d].read \o pipe[d]
  <2>1. (log[d].read \o chunk) \o rest = log[d].read \o (chunk \o rest)
    BY <1>5, <1>6, TextsAppend
  <2> QED BY <1>5, <2>1
<1>9. /\ pipe' = [pipe EXCEPT ![d] = rest]
      /\ run[d].at = "done" => log' = log
      /\ run[d].at # "done" => log' = [log EXCEPT ![d] = Appended(log[d], chunk)]
  BY <1>4 DEF chunk, rest
<1>10. pipe'[d] = rest /\ (run[d].at # "done" => log'[d] = Appended(log[d], chunk))
  BY <1>1, <1>9 DEF ProcessesTyped
<1>11. ProcessesTyped'
  <2>1. pipe' \in [Executions -> ByteText]
    BY <1>1, <1>5, <1>9 DEF ProcessesTyped
  <2>2. log' \in [Executions -> LogType]
    BY <1>1, <1>7, <1>9 DEF ProcessesTyped
  <2> QED BY <1>1, <1>2, <2>1, <2>2 DEF ProcessesTyped
<1>12. \A e \in Executions \ {d} : Untouched(e)
  BY <1>1, <1>2, <1>9 DEF ProcessesTyped, Untouched
<1>13. RegistryIsUnderWay'
  BY <1>2 DEF ProcessesInv, RegistryIsUnderWay
<1>14. Kept(d)'
  <2>1. Told(log'[d])
    BY <1>6, <1>7, <1>9, <1>10
  <2>2. ~run[d].gaveUp => log'[d].read \o pipe'[d] = printed[d]
    <3>1. run[d].at = "done" => run[d].gaveUp
      BY <1>2, <1>3 DEF Kept, ReadOrWaiting
    <3> QED BY <1>3, <1>7, <1>8, <1>10, <3>1 DEF Kept, ReadOrWaiting
  <2>3. d \in executions.prints /\ run[d].at # "begin"
    BY <1>2, <1>3 DEF Kept, ReadOrWaiting
  <2>4. ReadOrWaiting(d)'
    <3>1. Told(log[d])'
      BY <2>1 DEF Told
    <3> QED BY <1>2, <1>3, <2>2, <2>3, <3>1 DEF Kept, ReadOrWaiting, Alive
  <2> QED BY <1>2, <1>3, <2>4 DEF Kept, Continues, LeavesNone, Alive
<1> QED BY <1>2, <1>11, <1>12, <1>13, <1>14, OneTouched

\* Every step keeps the invariant.
LEMMA ProcessesStep == ProcessesInv /\ [ProcessNext]_buildProcessVars => ProcessesInv'
<1> SUFFICES ASSUME ProcessesInv, [ProcessNext]_buildProcessVars PROVE ProcessesInv'
  OBVIOUS
<1>1. CASE ProcessNext
  <2>1. PICK d \in DOMAIN executions.ids :
           \/ ExecutionStep(d)
           \/ ReadChunk(d) \/ EndOfFile(d) \/ PrintChunk(d) \/ Exit(d) \/ ChildExits(d)
           \/ Cancel(d) \/ FindProcess(d) \/ CancellerTerminates(d) \/ CancellerKills(d)
    BY <1>1 DEF ProcessNext
  <2>2. CASE ExecutionStep(d)
    BY <2>2, StartKept, RegisterKept, WaitKept, TerminateKept, GraceKept, KilledKept,
       UnregisterKept, UnregisterLateKept, JoinKept DEF ExecutionStep
  <2> QED BY <2>1, <2>2, ReadChunkKept, EndOfFileKept, PrintChunkKept, ExitKept, ChildExitsKept,
             CancelKept, FindProcessKept, CancellerTerminatesKept, CancellerKillsKept
<1>2. CASE UNCHANGED buildProcessVars
  BY <1>2 DEF buildProcessVars, ProcessesInv, ProcessesTyped, RegistryIsUnderWay, Continues,
     LeavesNone, ReadOrWaiting, Told, Alive
<1> QED BY <1>1, <1>2

\* The invariant says what ProcessesAccounted does.
LEMMA ProcessesTell == ProcessesInv => ProcessesAccounted
<1> SUFFICES ASSUME ProcessesInv PROVE ProcessesAccounted
  OBVIOUS
<1>1. ASSUME NEW e \in DOMAIN executions.ids
      PROVE  /\ e \in Executions /\ Kept(e) /\ run[e] \in RunType /\ proc[e] \in ProcType
             /\ log[e] \in LogType /\ pipe[e] \in ByteText
  BY SetupTyped DEF ProcessesInv, Kept, ProcessesTyped
<1>2. ProcessTypeOK
  BY <1>1 DEF ProcessesInv, ProcessesTyped, ProcessTypeOK, Kept, Continues, RunType, ProcType, Places,
     ProcessStates
<1>3. NoProcessLeft
  BY <1>1 DEF NoProcessLeft, Kept, LeavesNone
<1>4. OutputIsTold
  <2> SUFFICES ASSUME NEW e \in DOMAIN executions.ids
               PROVE  /\ Told(log[e])
                      /\ /\ run[e].at = "done" /\ ~run[e].gaveUp
                         /\ run[e].status \notin {"error", "refused"}
                         => log[e].read = printed[e]
    BY DEF OutputIsTold, Told
  <2>1. Told(log[e]) /\ log[e].read \in ByteText
    BY <1>1 DEF Kept, ReadOrWaiting, LogType
  <2>2. ASSUME run[e].at = "done", ~run[e].gaveUp, run[e].status \notin {"error", "refused"}
        PROVE  log[e].read = printed[e]
    <3>1. pipe[e] = <<>> /\ log[e].read \o pipe[e] = printed[e]
      BY <1>1, <2>2 DEF Kept, ReadOrWaiting
    <3>2. log[e].read \o <<>> = log[e].read
      BY <2>1, ConcatEmptySeq DEF ByteText
    <3> QED BY <3>1, <3>2
  <2> QED BY <2>1, <2>2
<1> QED BY <1>2, <1>3, <1>4 DEF ProcessesAccounted, ProcessesInv

\* Whatever executions run beside one another, under whatever ids, cancellations and
\* signals: the registry has each process that is under way and none that is done
\* with, an execution leaves no process that SIGKILL was not sent to, and of what is
\* printed each byte is kept, counted as discarded or left to a reader that was
\* given up (execute_resolved_command, ProcessRegistry, BoundedTextBuffer).
THEOREM ProcessesAreAccounted == ProcessSpec => []ProcessesAccounted
BY ProcessesBegin, ProcessesStep, ProcessesTell, PTL DEF ProcessSpec

(* ---------------------------- the repair loop -------------------------- *)

Phases == {"building", "repairing", "starting_app", "verifying"}
Summaries == SUBSET (Complaints \cup {"limit", "silent"} \cup Critical)
PageErrors == SUBSET UNION {page.errors : page \in Pages}
Fingerprints == [phase : Phases, summary : Summaries, errors : PageErrors]

\* What a step of the loop goes by.
RepairTyped ==
    /\ RepairTypeOK /\ seen \in Seq(Fingerprints)
    /\ session = "none" => doing \in {"create", "over"}
    /\ session = "open" <=> doing \in {"build", "start", "verify", "diagnose"}
    /\ session = "closed" => doing = "over"
    /\ ending = "none" <=> doing # "over"
    /\ SessionClosedAtTheEnd

\* Each attempt but the last has failed once, and only a failure leaves a command
\* behind; the server that a success has seen is of this or of an earlier attempt.
FailuresCounted ==
    /\ doing \in {"create", "build", "start", "verify"} => Len(seen) = attempt - 1
    /\ doing = "diagnose" => Len(seen) = attempt /\ attempt < MaxAttempts
    /\ doing = "over" => Len(seen) \in {attempt - 1, attempt}
    /\ strays <= Len(seen) /\ serving <= attempt
    /\ doing = "verify" => serving # 0
    /\ SuccessWithoutFailure

\* The loop goes on only while no failure was met MaxRepeated times; that of the
\* first build alone has another phase than those of later ones.
RepeatsCounted ==
    /\ \A f \in Fingerprints : Occurrences(f, seen) <= MaxRepeated
    /\ doing # "over" => \A f \in Fingerprints : Occurrences(f, seen) < MaxRepeated
    /\ \A i \in DOMAIN seen : /\ seen[i].phase = "building" => i = 1
                              /\ seen[i].phase = "repairing" => i # 1

\* The inductive invariant of the repair loop.
RepairInv == RepairTyped /\ FailuresCounted /\ RepeatsCounted

\* The sequence of failures, with one more.
LEMMA FailureAppended ==
    ASSUME NEW s \in Seq(Fingerprints), NEW f \in Fingerprints
    PROVE  /\ Append(s, f) \in Seq(Fingerprints) /\ Len(s) \in Nat
           /\ Len(Append(s, f)) = Len(s) + 1
           /\ DOMAIN s = 1 .. Len(s) /\ DOMAIN Append(s, f) = 1 .. Len(s) + 1
           /\ \A i \in 1 .. Len(s) : Append(s, f)[i] = s[i]
           /\ Append(s, f)[Len(s) + 1] = f
OBVIOUS

\* One more failure counts once.
LEMMA OccurrencesAppended ==
    ASSUME NEW s \in Seq(Fingerprints), NEW f \in Fingerprints, NEW g \in Fingerprints
    PROVE  /\ Occurrences(g, s) \in Nat
           /\ Occurrences(g, Append(s, f)) = Occurrences(g, s) + (IF g = f THEN 1 ELSE 0)
<1> DEFINE before == {i \in DOMAIN s : s[i] = g}
           after == {i \in DOMAIN Append(s, f) : Append(s, f)[i] = g}
<1>1. /\ Len(s) \in Nat /\ DOMAIN s = 1 .. Len(s) /\ DOMAIN Append(s, f) = 1 .. Len(s) + 1
      /\ \A i \in 1 .. Len(s) : Append(s, f)[i] = s[i]
      /\ Append(s, f)[Len(s) + 1] = f
  BY FailureAppended
<1>2. IsFiniteSet(before)
  <2>1. IsFiniteSet(1 .. Len(s))
    BY <1>1, FS_Interval
  <2> QED BY <1>1, <2>1, FS_Subset
<1>3. Len(s) + 1 \notin before
  BY <1>1
<1>4. after = IF g = f THEN before \cup {Len(s) + 1} ELSE before
  BY <1>1
<1>5. Cardinality(before) \in Nat
  BY <1>2, FS_CardinalityType
<1>6. Cardinality(before \cup {Len(s) + 1}) = Cardinality(before) + 1
  <2> HIDE DEF before
  <2> QED BY <1>2, <1>3, FS_AddElement
<1> HIDE DEF before, after
<1>7. Cardinality(after) = Cardinality(before) + (IF g = f THEN 1 ELSE 0)
  BY <1>4, <1>5, <1>6
<1> QED BY <1>5, <1>7 DEF Occurrences, before, after

\* A failure keeps the invariant, whatever failed, while the attempt is the same.
LEMMA FailureKept ==
    ASSUME RepairInv, doing \in {"build", "start", "verify"},
           NEW phase \in Phases, NEW summary \in Summaries, NEW errors \in PageErrors,
           phase = "building" => attempt = 1, phase = "repairing" => attempt # 1,
           Failed([phase |-> phase, summary |-> summary, errors |-> errors]),
           strays' \in {strays, strays + 1}, command' \in 1 .. BuildCommands,
           serving' \in {serving, 0},
           UNCHANGED <<setup, attempt, files, proposed>>
    PROVE  RepairInv'
<1> DEFINE f == [phase |-> phase, summary |-> summary, errors |-> errors \ {"network"}]
<1>1. f \in Fingerprints /\ f.phase = phase
  BY DEF Fingerprints, PageErrors
<1>2. Fingerprint([phase |-> phase, summary |-> summary, errors |-> errors]) = f
  BY DEF Fingerprint
<1> HIDE DEF f
<1>3. seen' = Append(seen, f)
  BY <1>2 DEF Failed
<1>4. /\ seen \in Seq(Fingerprints) /\ Len(seen) = attempt - 1 /\ session = "open"
      /\ ending = "none" /\ held = PartsOf(setup.runtime)
      /\ held \subseteq {"volume", "container", "session"}
  BY DEF RepairInv, RepairTyped, RepairTypeOK, SessionClosedAtTheEnd, FailuresCounted
<1>5. /\ attempt \in 1 .. MaxAttempts /\ MaxAttempts \in Nat \ {0} /\ MaxRepeated \in Nat \ {0}
      /\ strays \in Nat /\ strays <= attempt - 1 /\ serving \in Nat /\ serving <= attempt
  <2>1. /\ attempt \in 1 .. MaxAttempts /\ strays \in 0 .. MaxAttempts
        /\ serving \in 0 .. MaxAttempts
    BY DEF RepairInv, RepairTyped, RepairTypeOK
  <2>2. strays <= attempt - 1 /\ serving <= attempt
    BY <1>4 DEF RepairInv, FailuresCounted
  <2> QED BY <2>1, <2>2, RepairLoopAssumption
<1>6. seen' \in Seq(Fingerprints) /\ Len(seen') = attempt
  <2>1. Append(seen, f) \in Seq(Fingerprints) /\ Len(Append(seen, f)) = Len(seen) + 1
    BY <1>1, <1>4, FailureAppended
  <2> QED BY <1>3, <1>4, <1>5, <2>1
<1>7. \/ doing' = "over" /\ session' = "closed" /\ ending' \in {"failure", "raised"}
         /\ held' \subseteq held
      \/ /\ doing' = "diagnose" /\ session' = "open" /\ ending' = "none" /\ attempt # MaxAttempts
         /\ held' = held
         /\ ~(Occurrences(f, seen') >= MaxRepeated)
  <2>1. IF Occurrences(f, seen') >= MaxRepeated \/ attempt = MaxAttempts
        THEN End("failure")
        ELSE doing' = "diagnose" /\ UNCHANGED <<session, held, ending>>
    BY <1>2 DEF Failed
  <2> QED BY <1>4, <2>1 DEF End, Remains
<1>8. RepairTyped'
  <2>1. strays' \in 0 .. MaxAttempts /\ serving' \in 0 .. MaxAttempts
    BY <1>5
  <2>2. RepairTypeOK'
    BY <1>4, <1>5, <1>6, <1>7, <2>1 DEF RepairInv, RepairTyped, RepairTypeOK
  <2>3. SessionClosedAtTheEnd'
    BY <1>4, <1>7 DEF SessionClosedAtTheEnd
  <2> QED BY <1>6, <1>7, <2>2, <2>3 DEF RepairTyped
<1>9. FailuresCounted'
  <2>1. strays' <= attempt /\ serving' <= attempt
    BY <1>5
  <2> QED BY <1>5, <1>6, <1>7, <2>1 DEF FailuresCounted, SuccessWithoutFailure
<1>10. RepeatsCounted'
  <2>1. ASSUME NEW g \in Fingerprints
        PROVE  /\ Occurrences(g, seen') \in Nat /\ Occurrences(g, seen') <= MaxRepeated
               /\ g # f => Occurrences(g, seen') < MaxRepeated
    <3>1. Occurrences(g, seen) \in Nat /\ Occurrences(g, seen) < MaxRepeated
      BY <1>1, <1>4, OccurrencesAppended DEF RepairInv, RepeatsCounted
    <3>2. Occurrences(g, seen') = Occurrences(g, seen) + (IF g = f THEN 1 ELSE 0)
      BY <1>1, <1>3, <1>4, OccurrencesAppended
    <3> QED BY <1>5, <3>1, <3>2
  <2>2. doing' # "over" => \A g \in Fingerprints : Occurrences(g, seen') < MaxRepeated
    BY <1>1, <1>5, <1>7, <2>1
  <2>3. \A i \in DOMAIN seen' : /\ seen'[i].phase = "building" => i = 1
                                /\ seen'[i].phase = "repairing" => i # 1
    <3> TAKE i \in DOMAIN seen'
    <3>1. CASE i = attempt
      <4>1. seen'[i] = f
        BY <1>1, <1>3, <1>4, <1>5, <3>1, FailureAppended
      <4> QED BY <1>1, <3>1, <4>1
    <3>2. CASE i # attempt
      <4>1. i \in DOMAIN seen /\ seen'[i] = seen[i]
        BY <1>1, <1>3, <1>4, <1>5, <3>2, FailureAppended
      <4> QED BY <4>1 DEF RepairInv, RepeatsCounted
    <3> QED BY <3>1, <3>2
  <2> QED BY <2>1, <2>2, <2>3 DEF RepeatsCounted
<1> QED BY <1>8, <1>9, <1>10 DEF RepairInv

\* A step that records no failure keeps what is counted of them.
LEMMA NothingRepeated ==
    ASSUME RepairInv, doing # "over", UNCHANGED seen
    PROVE  RepeatsCounted'
BY DEF RepairInv, RepeatsCounted

\* What the numbers of the loop are.
LEMMA RepairNumbers ==
    ASSUME RepairInv
    PROVE  /\ attempt \in Nat /\ 1 <= attempt /\ attempt <= MaxAttempts
           /\ MaxAttempts \in Nat \ {0} /\ MaxRepeated \in Nat \ {0} /\ BuildCommands \in Nat \ {0}
           /\ strays \in Nat /\ serving \in Nat /\ Len(seen) \in Nat
           /\ strays <= MaxAttempts /\ serving <= MaxAttempts
           /\ command \in 1 .. BuildCommands
<1>1. /\ attempt \in 1 .. MaxAttempts /\ strays \in 0 .. MaxAttempts
      /\ serving \in 0 .. MaxAttempts /\ command \in 1 .. BuildCommands
      /\ seen \in Seq(Fingerprints)
  BY DEF RepairInv, RepairTyped, RepairTypeOK
<1> QED BY <1>1, RepairLoopAssumption

\* The end of the loop keeps the invariant, where a success has seen its page.
LEMMA EndKept ==
    ASSUME RepairInv, doing # "over", NEW how \in {"success", "failure", "raised"}, End(how),
           how = "success" => /\ evidence'.phase = "verifying" /\ evidence'.errors = {}
                              /\ Len(seen) = attempt - 1 /\ serving # 0,
           session = "none" => how = "raised",
           UNCHANGED <<setup, attempt, command, serving, strays, seen, files, proposed>>
    PROVE  RepairInv'
<1>1. /\ doing' = "over" /\ ending' \in {how, "raised"}
      /\ session' = "closed" \/ (session' = "none" /\ ending' = "raised")
      /\ held' \subseteq held
  BY DEF End, Remains, RepairInv, RepairTyped, RepairTypeOK
<1>2. RepairTyped'
  BY <1>1 DEF RepairInv, RepairTyped, RepairTypeOK, SessionClosedAtTheEnd
<1>3. FailuresCounted'
  <2>1. doing \in {"create", "build", "start", "verify", "diagnose"}
    BY DEF RepairInv, RepairTyped, RepairTypeOK
  <2>2. Len(seen) \in {attempt - 1, attempt}
    BY <2>1 DEF RepairInv, FailuresCounted
  <2> QED BY <1>1, <2>2 DEF RepairInv, FailuresCounted, SuccessWithoutFailure
<1>4. RepeatsCounted'
  BY NothingRepeated
<1> QED BY <1>2, <1>3, <1>4 DEF RepairInv

\* What is raised ends the loop and closes the session.
LEMMA RaisedKeeps == ASSUME RepairInv, Raised PROVE RepairInv'
BY EndKept DEF Raised

\* The session is made part by part.
LEMMA MakePartKeeps == ASSUME RepairInv, MakePart PROVE RepairInv'
<1>1. ending = "none" /\ session = "none" /\ doing = "create"
  BY DEF MakePart, RepairInv, RepairTyped, RepairTypeOK
<1>2. held' \subseteq {"volume", "container", "session"}
  <2>1. setup.runtime \in Runtimes /\ held \subseteq {"volume", "container", "session"}
    BY DEF RepairInv, RepairTyped, RepairTypeOK
  <2>2. PartsOf(setup.runtime) \subseteq {"volume", "container", "session"}
    BY <2>1 DEF PartsOf, Runtimes
  <2>3. PICK part \in PartsOf(setup.runtime) \ held : held' = held \cup {part}
    BY DEF MakePart
  <2> QED BY <2>1, <2>2, <2>3
<1>3. RepairTyped'
  BY <1>1, <1>2 DEF MakePart, RepairInv, RepairTyped, RepairTypeOK, SessionClosedAtTheEnd
<1>4. FailuresCounted'
  BY <1>1 DEF MakePart, RepairInv, FailuresCounted, SuccessWithoutFailure
<1>5. RepeatsCounted'
  BY <1>1, NothingRepeated DEF MakePart
<1> QED BY <1>3, <1>4, <1>5 DEF RepairInv

\* The session is opened before the first attempt.
LEMMA CreateSessionKeeps == ASSUME RepairInv, CreateSession PROVE RepairInv'
<1>1. ending = "none"
  BY DEF CreateSession, RepairInv, RepairTyped
<1>2. RepairTyped' /\ FailuresCounted'
  BY <1>1 DEF CreateSession, RepairInv, RepairTyped, RepairTypeOK, SessionClosedAtTheEnd, FailuresCounted,
              SuccessWithoutFailure
<1>3. RepeatsCounted'
  BY NothingRepeated DEF CreateSession
<1> QED BY <1>2, <1>3 DEF RepairInv

\* A command of the build that succeeds.
LEMMA CommandRanKeeps == ASSUME RepairInv, CommandRan PROVE RepairInv'
<1>1. ending = "none" /\ doing = "build" /\ doing' \in {"build", "start"}
  BY DEF CommandRan, RepairInv, RepairTyped
<1>2. command' \in 1 .. BuildCommands
  BY RepairNumbers DEF CommandRan
<1>3. RepairTyped'
  BY <1>1, <1>2 DEF CommandRan, RepairInv, RepairTyped, RepairTypeOK, SessionClosedAtTheEnd
<1>4. FailuresCounted'
  BY <1>1 DEF CommandRan, RepairInv, FailuresCounted, SuccessWithoutFailure
<1>5. RepeatsCounted'
  BY NothingRepeated DEF CommandRan
<1> QED BY <1>3, <1>4, <1>5 DEF RepairInv

\* A command that fails, or that runs into its time limit.
LEMMA CommandFailedKeeps == ASSUME RepairInv, CommandFailed PROVE RepairInv'
<1>1. /\ BuildPhase \in Phases
      /\ BuildPhase = "building" => attempt = 1
      /\ BuildPhase = "repairing" => attempt # 1
  BY DEF BuildPhase, Phases
<1>2. {} \in PageErrors
  BY DEF PageErrors
<1>3. command' \in 1 .. BuildCommands
  BY RepairNumbers DEF CommandFailed
<1>4. doing = "build" /\ UNCHANGED <<setup, attempt, serving, files, proposed>>
  BY DEF CommandFailed
<1>5. CASE /\ \E t \in Complaints :
                 Failed([phase |-> BuildPhase, summary |-> {t}, errors |-> {}])
           /\ UNCHANGED strays
  <2>1. PICK t \in Complaints : Failed([phase |-> BuildPhase, summary |-> {t}, errors |-> {}])
    BY <1>5
  <2>2. {t} \in Summaries
    BY DEF Summaries
  <2> QED BY <1>1, <1>2, <1>3, <1>4, <1>5, <2>1, <2>2, FailureKept
<1>6. CASE /\ Failed([phase |-> BuildPhase, summary |-> {"limit"}, errors |-> {}])
           /\ TimesOut
  <2>1. {"limit"} \in Summaries
    BY DEF Summaries
  <2>2. strays' \in {strays, strays + 1}
    BY <1>6, RepairNumbers DEF TimesOut
  <2> QED BY <1>1, <1>2, <1>3, <1>4, <1>6, <2>1, <2>2, FailureKept
<1> QED BY <1>5, <1>6 DEF CommandFailed

\* A server answers: that of this attempt, or the one that holds the port.
LEMMA ServerReadyKeeps == ASSUME RepairInv, ServerReady PROVE RepairInv'
<1>1. ending = "none" /\ doing = "start" /\ doing' = "verify"
  BY DEF ServerReady, RepairInv, RepairTyped
<1>2. serving' \in 0 .. MaxAttempts /\ serving' # 0 /\ serving' <= attempt
  BY RepairNumbers DEF ServerReady, RepairInv, FailuresCounted
<1>3. RepairTyped'
  BY <1>1, <1>2 DEF ServerReady, RepairInv, RepairTyped, RepairTypeOK, SessionClosedAtTheEnd
<1>4. FailuresCounted'
  BY <1>1, <1>2 DEF ServerReady, RepairInv, FailuresCounted, SuccessWithoutFailure
<1>5. RepeatsCounted'
  BY NothingRepeated DEF ServerReady
<1> QED BY <1>3, <1>4, <1>5 DEF RepairInv

\* No server answers.
LEMMA ServerSilentKeeps == ASSUME RepairInv, ServerSilent PROVE RepairInv'
<1>1. "starting_app" \in Phases /\ {"silent"} \in Summaries /\ {} \in PageErrors
  BY DEF Phases, Summaries, PageErrors
<1>2. command' \in 1 .. BuildCommands
  BY RepairNumbers DEF ServerSilent
<1>3. strays' \in {strays, strays + 1} /\ serving' \in {serving, 0}
  BY DEF ServerSilent
<1> QED BY <1>1, <1>2, <1>3, FailureKept DEF ServerSilent

\* The page is as it should be.
LEMMA VerifyPassedKeeps == ASSUME RepairInv, VerifyPassed PROVE RepairInv'
<1>1. /\ doing = "verify" /\ End("success")
      /\ UNCHANGED <<setup, attempt, command, serving, strays, seen, files, proposed>>
  BY DEF VerifyPassed
<1>2. PICK page \in Pages :
        /\ Passed(page)
        /\ evidence' = [phase |-> "verifying", summary |-> {}, errors |-> page.errors]
  BY DEF VerifyPassed
<1>3. evidence'.phase = "verifying" /\ evidence'.errors = {}
  BY <1>2 DEF Passed
<1>4. Len(seen) = attempt - 1 /\ serving # 0
  BY <1>1 DEF RepairInv, FailuresCounted
<1>5. session # "none"
  BY <1>1 DEF RepairInv, RepairTyped
<1> QED BY <1>1, <1>3, <1>4, <1>5, EndKept

\* The page is not as it should be.
LEMMA VerifyFailedKeeps == ASSUME RepairInv, VerifyFailed PROVE RepairInv'
<1>1. /\ doing = "verify"
      /\ UNCHANGED <<setup, attempt, command, serving, strays, files, proposed>>
  BY DEF VerifyFailed
<1>2. PICK page \in Pages :
        Failed([phase |-> "verifying", summary |-> NotFound(page), errors |-> page.errors])
  BY DEF VerifyFailed
<1>3. "verifying" \in Phases /\ NotFound(page) \in Summaries
  BY DEF Phases, Summaries, NotFound
<1>4. page.errors \in PageErrors
  BY DEF PageErrors
<1>5. command' \in 1 .. BuildCommands /\ strays' \in {strays, strays + 1}
  BY <1>1, RepairNumbers
<1> QED BY <1>1, <1>2, <1>3, <1>4, <1>5, FailureKept

\* The look at the page raises.
LEMMA VerifyRaisesKeeps == ASSUME RepairInv, VerifyRaises PROVE RepairInv'
BY EndKept DEF VerifyRaises

\* The diagnosis: another attempt, or the end.
LEMMA DiagnoseKeeps == ASSUME RepairInv, Diagnose PROVE RepairInv'
<1>1. /\ doing = "diagnose" /\ UNCHANGED <<setup, command, serving, strays, evidence, seen, files>>
  BY DEF Diagnose
<1>2. \/ NextAttempt /\ proposed' \in {proposed, attempt}
      \/ \E how \in {"failure", "raised"} : End(how) /\ UNCHANGED <<attempt, proposed>>
  BY DEF Diagnose
<1>3. CASE NextAttempt /\ proposed' \in {proposed, attempt}
  <2>1. /\ Len(seen) = attempt /\ attempt < MaxAttempts /\ session = "open" /\ ending = "none"
        /\ strays <= Len(seen) /\ serving <= attempt
    BY <1>1 DEF RepairInv, RepairTyped, FailuresCounted
  <2>2. proposed \in 0 .. MaxAttempts
    BY DEF RepairInv, RepairTyped, RepairTypeOK
  <2>3. /\ doing' = "build" /\ attempt' = attempt + 1 /\ attempt' \in 1 .. MaxAttempts
        /\ session' = session /\ held' = held /\ ending' = ending /\ proposed' \in 0 .. MaxAttempts
    BY <1>3, <2>1, <2>2, RepairNumbers DEF NextAttempt
  <2>4. RepairTyped'
    BY <1>1, <2>1, <2>3 DEF RepairInv, RepairTyped, RepairTypeOK, SessionClosedAtTheEnd
  <2>5. FailuresCounted'
    BY <1>1, <2>1, <2>3, RepairNumbers DEF FailuresCounted, SuccessWithoutFailure
  <2>6. RepeatsCounted'
    BY <1>1, NothingRepeated
  <2> QED BY <2>4, <2>5, <2>6 DEF RepairInv
<1>4. ASSUME NEW how \in {"failure", "raised"}, End(how), UNCHANGED <<attempt, proposed>>
      PROVE  RepairInv'
  <2>1. session # "none"
    BY <1>1 DEF RepairInv, RepairTyped
  <2> QED BY <1>1, <1>4, <2>1, EndKept
<1> QED BY <1>2, <1>3, <1>4

\* The loop begins with no failure.
LEMMA RepairBegins == RepairInit => RepairInv
<1> SUFFICES ASSUME RepairInit PROVE RepairInv
  OBVIOUS
<1>1. seen = <<>> /\ seen \in Seq(Fingerprints) /\ Len(seen) = 0 /\ DOMAIN seen = {}
  BY DEF RepairInit
<1>2. /\ 1 \in 1 .. MaxAttempts /\ 1 \in 1 .. BuildCommands /\ 0 \in 0 .. MaxAttempts
      /\ 0 <= MaxAttempts /\ MaxRepeated \in Nat \ {0}
  BY RepairLoopAssumption
<1>3. setup \in [runtime : Runtimes, app : Applications,
                 keys : SUBSET {"openrouter", "groq", "huggingface"}]
  BY DEF RepairInit
<1>4. RepairTyped
  BY <1>1, <1>2, <1>3 DEF RepairTyped, RepairTypeOK, RepairInit, SessionClosedAtTheEnd
<1>5. FailuresCounted
  BY <1>1 DEF FailuresCounted, SuccessWithoutFailure, RepairInit
<1>6. \A f \in Fingerprints : Occurrences(f, seen) = 0
  <2> TAKE f \in Fingerprints
  <2>1. {i \in DOMAIN seen : seen[i] = f} = {}
    BY <1>1
  <2> QED BY <2>1, FS_EmptySet DEF Occurrences
<1>7. RepeatsCounted
  BY <1>1, <1>2, <1>6 DEF RepeatsCounted
<1> QED BY <1>4, <1>5, <1>7 DEF RepairInv

\* Each step keeps the invariant.
LEMMA RepairSteps == RepairInv /\ [RepairNext]_repairVars => RepairInv'
<1> SUFFICES ASSUME RepairInv, [RepairNext]_repairVars PROVE RepairInv'
  OBVIOUS
<1>1. CASE RepairNext
  BY <1>1, MakePartKeeps, CreateSessionKeeps, CommandRanKeeps, CommandFailedKeeps, ServerReadyKeeps,
     ServerSilentKeeps, VerifyPassedKeeps, VerifyFailedKeeps, VerifyRaisesKeeps,
     DiagnoseKeeps, RaisedKeeps DEF RepairNext, RepairStep
<1>2. CASE UNCHANGED repairVars
  <2>1. RepairTyped'
    BY <1>2 DEF repairVars, RepairInv, RepairTyped, RepairTypeOK, SessionClosedAtTheEnd
  <2>2. FailuresCounted'
    BY <1>2 DEF repairVars, RepairInv, FailuresCounted, SuccessWithoutFailure
  <2>3. RepeatsCounted'
    BY <1>2 DEF repairVars, RepairInv, RepeatsCounted
  <2> QED BY <2>1, <2>2, <2>3 DEF RepairInv
<1> QED BY <1>1, <1>2

\* The failures of one fingerprint, and one more, are at most one too many.
LEMMA FewOccurrences ==
    ASSUME RepairInv, NEW f \in Fingerprints
    PROVE  LET same == {j \in DOMAIN seen : seen[j] = f}
           IN /\ IsFiniteSet(same) /\ IsFiniteSet(same \cup {1})
              /\ Cardinality(same) <= MaxRepeated
              /\ Cardinality(same \cup {1}) <= MaxRepeated + 1
              /\ Cardinality(same \cup {1}) \in Nat
<1> DEFINE same == {j \in DOMAIN seen : seen[j] = f}
<1>1. seen \in Seq(Fingerprints) /\ DOMAIN seen = 1 .. Len(seen) /\ Len(seen) \in Nat
  BY DEF RepairInv, RepairTyped
<1>2. IsFiniteSet(same)
  <2>1. IsFiniteSet(1 .. Len(seen))
    BY <1>1, FS_Interval
  <2> QED BY <1>1, <2>1, FS_Subset
<1>3. Cardinality(same) <= MaxRepeated
  BY DEF RepairInv, RepeatsCounted, Occurrences
<1> HIDE DEF same
<1>4. IsFiniteSet(same \cup {1}) /\ Cardinality(same \cup {1}) \in Nat
      /\ Cardinality(same) \in Nat
      /\ Cardinality(same \cup {1}) \in {Cardinality(same), Cardinality(same) + 1}
  <2>1. Cardinality(same) \in Nat /\ IsFiniteSet(same \cup {1})
    BY <1>2, FS_CardinalityType, FS_AddElement
  <2>2. Cardinality(same \cup {1}) \in {Cardinality(same), Cardinality(same) + 1}
    <3>1. CASE 1 \in same
      <4>1. same \cup {1} = same
        BY <3>1
      <4> QED BY <4>1
    <3>2. CASE 1 \notin same
      BY <1>2, <3>2, FS_AddElement
    <3> QED BY <3>1, <3>2
  <2> QED BY <2>1, <2>2
<1>5. Cardinality(same \cup {1}) <= MaxRepeated + 1
  BY <1>3, <1>4, RepairNumbers
<1> QED BY <1>2, <1>3, <1>4, <1>5 DEF same

\* No failure is met more often than the limit: what an attempt names "repairing"
\* only the first can name "building".
LEMMA RepeatsAreBounded == RepairInv => RepeatsBounded
<1> SUFFICES ASSUME RepairInv, NEW i \in DOMAIN seen
             PROVE  Cardinality({j \in DOMAIN seen : Met(seen[j], seen[i])})
                      <= MaxRepeated
                         + (IF seen[i].phase \in {"building", "repairing"} THEN 1 ELSE 0)
  BY DEF RepeatsBounded
<1> DEFINE met == {j \in DOMAIN seen : Met(seen[j], seen[i])}
           g == [phase |-> "repairing", summary |-> seen[i].summary, errors |-> seen[i].errors]
<1>1. \A j \in DOMAIN seen : seen[j] \in Fingerprints
  BY DEF RepairInv, RepairTyped
<1>2. MaxRepeated \in Nat
  BY RepairNumbers
<1>3. CASE seen[i].phase \notin {"building", "repairing"}
  <2> DEFINE same == {j \in DOMAIN seen : seen[j] = seen[i]}
  <2>1. met \subseteq same
    <3> SUFFICES ASSUME NEW j \in DOMAIN seen, Met(seen[j], seen[i]) PROVE seen[j] = seen[i]
      OBVIOUS
    <3>1. seen[j].phase = seen[i].phase
      BY <1>3 DEF Met
    <3> QED BY <1>1, <3>1 DEF Met, Fingerprints
  <2>2. IsFiniteSet(same) /\ Cardinality(same) <= MaxRepeated
    BY <1>1, FewOccurrences
  <2> HIDE DEF met, same
  <2>3. Cardinality(met) <= Cardinality(same) /\ Cardinality(met) \in Nat
        /\ Cardinality(same) \in Nat
    <3>1. IsFiniteSet(met) /\ Cardinality(met) <= Cardinality(same)
      BY <2>1, <2>2, FS_Subset
    <3> QED BY <2>2, <3>1, FS_CardinalityType
  <2>4. Cardinality(met) <= MaxRepeated
    BY <1>2, <2>2, <2>3
  <2> QED BY <1>2, <1>3, <2>4 DEF met
<1>4. \A j \in DOMAIN seen : seen[j].phase = "building" => j = 1
  BY DEF RepairInv, RepeatsCounted
<1>5. CASE seen[i].phase \in {"building", "repairing"}
  <2> DEFINE same == {j \in DOMAIN seen : seen[j] = g}
  <2>1. g \in Fingerprints
    BY <1>1 DEF Fingerprints, Phases
  <2>2. met \subseteq same \cup {1}
    <3> HIDE DEF g
    <3> SUFFICES ASSUME NEW j \in DOMAIN seen, Met(seen[j], seen[i]), j # 1 PROVE seen[j] = g
      OBVIOUS
    <3>1. seen[j].phase # "building"
      BY <1>4
    <3>2. seen[j].phase = "repairing"
      <4>1. \/ seen[j].phase = seen[i].phase
            \/ seen[j].phase \in {"building", "repairing"}
        BY DEF Met
      <4> QED BY <1>5, <3>1, <4>1
    <3> QED BY <1>1, <3>2 DEF Met, Fingerprints, g
  <2>3. IsFiniteSet(same \cup {1}) /\ Cardinality(same \cup {1}) <= MaxRepeated + 1
        /\ Cardinality(same \cup {1}) \in Nat
    BY <2>1, FewOccurrences
  <2> HIDE DEF met, same
  <2>4. Cardinality(met) <= Cardinality(same \cup {1}) /\ Cardinality(met) \in Nat
    <3>1. IsFiniteSet(met) /\ Cardinality(met) <= Cardinality(same \cup {1})
      BY <2>2, <2>3, FS_Subset
    <3> QED BY <3>1, FS_CardinalityType
  <2>5. Cardinality(met) <= MaxRepeated + 1
    BY <1>2, <2>3, <2>4
  <2> QED BY <1>2, <1>5, <2>5 DEF met
<1> QED BY <1>3, <1>5

\* The invariant tells all that the loop promises.
LEMMA RepairTells == RepairInv => RepairIsHonest
<1> SUFFICES ASSUME RepairInv PROVE RepairIsHonest
  OBVIOUS
<1>1. RepairTypeOK /\ SessionClosedAtTheEnd
  BY DEF RepairInv, RepairTyped
<1>2. SuccessWithoutFailure
  BY DEF RepairInv, FailuresCounted
<1> QED BY <1>1, <1>2, RepeatsAreBounded DEF RepairIsHonest

\* However builds fail, servers answer and models repair: the loop is within its
\* limits, meets no failure more often than it may, claims no success it has not seen
\* and asks for the end of every session it was given, wherever the making of one or
\* an attempt raises (execute, _check_repeated_failure, _diagnose_and_repair).
THEOREM RepairStaysHonest == RepairSpec => []RepairIsHonest
BY RepairBegins, RepairSteps, RepairTells, PTL DEF RepairSpec

(* -------------------- the stages of a task: TaskPipeline --------------- *)

\* What prepare_operation makes of an operation.
Change == [op : Operation, before : Contents, after : Contents, changed : BOOLEAN]

\* The paths of the snapshots.
SavedPaths == {p \in Paths : saved[p] # Unsaved}
\* Where no snapshot is there, where a transaction is at work, and where its
\* patch has been accepted.
Undone == {"none", "begun", "prepared", "failed"}
Underway == {"begun", "prepared", "saved", "verified", "restoring"}
InOrder == {"prepared", "saved", "verified", "restoring", "applied", "rolled_back", "broken"}

\* No path is written twice.
Apart(ops) ==
    \A i, j \in DOMAIN ops :
        /\ i # j => ops[i].path # ops[j].path
        /\ ops[j].kind = "rename" => ops[i].path # ops[j].to
        /\ i # j /\ ops[i].kind = "rename" /\ ops[j].kind = "rename" => ops[i].to # ops[j].to

\* The types, of the variables PipelineTypeOK leaves out too.
TaskTyped ==
    /\ PipelineTypeOK /\ request \in TaskRequest
    /\ worked \in BOOLEAN /\ told \in BOOLEAN /\ late \in BOOLEAN /\ attempted \in BOOLEAN
    /\ savedAt \in Nat /\ savedAt <= edits /\ backupAt \in Nat /\ backupAt <= edits
    /\ prepared \in Seq(Change) /\ backup \in [DOMAIN backup -> Contents]

\* What the stage, the status and the transaction say of one another.
StagesFollow ==
    /\ tx \in Underway => stage = "application" /\ ~worked
    /\ tx # "none" => stage \in {"application", "build", "rollback", "ended"} /\ ~request.dry
    /\ (stage = "application" /\ worked) \/ stage = "build" => request.dry \/ tx = "applied"
    /\ status = "running" <=> stage # "ended"
    /\ status = "succeeded" => ~request.dry /\ tx = "applied"
    /\ attempted <=> status \in {"rolled_back", "rollback_failed"}
    /\ attempted => ~request.dry /\ DOMAIN backup # {}
    /\ stage = "rollback" => ~request.dry /\ DOMAIN backup # {}
    /\ status \in {"cancelled", "timed_out"} => ~WantsRollback("any")

\* The backup is of what was to be backed up.
BackedUp == DOMAIN backup = ToBackUp

\* The patch keeps to the plan, and the backup holds what is planned; a required
\* one is there whenever the task may have touched a file.
PlanIsFollowed ==
    /\ stage \in {"validation", "analysis", "planning", "backup"} => patch = <<>>
    /\ stage = "generation" /\ ~worked => patch = <<>>
    /\ listed # {} => Sources(patch) \subseteq listed \cup request.targets
    /\ stage \in {"validation", "analysis", "planning"} => DOMAIN backup = {}
    /\ DOMAIN backup # {} => BackedUp
    /\ edits = backupAt => \A p \in DOMAIN backup : backup[p] = others[p]
    /\ request.backup = "required" =>
          \/ stage \in {"validation", "analysis", "planning"} \/ (stage = "backup" /\ ~worked)
          \/ stage = "ended" /\ tx = "none"
          \/ BackedUp

\* How far the transaction is, of a patch that was accepted.
TransactionFollows ==
    /\ tx \in InOrder =>
          /\ Len(prepared) = Len(patch) /\ Apart(patch)
          /\ \A i \in DOMAIN prepared : prepared[i].op = patch[i]
    /\ \A i \in DOMAIN prepared :
          /\ prepared[i].changed <=> prepared[i].before # prepared[i].after
          /\ prepared[i].op.kind = "rename" /\ prepared[i].changed => prepared[i].after = Absent
    /\ tx \in Undone => done = 0
    /\ tx = "verified" => done < Len(prepared) /\ Current.changed
    /\ tx = "applied" => done = Len(prepared)

\* What the task has marked, the snapshots and the backup hold.
MarksAreSaved ==
    /\ tx \in Undone => SavedPaths = {} /\ (~attempted => Marked = {})
    /\ ~attempted => Marked \subseteq SavedPaths
    /\ SavedPaths \subseteq Touched
    /\ Marked \subseteq Touched \cup DOMAIN backup
    /\ edits = savedAt => \A p \in SavedPaths : saved[p] = others[p]
    /\ tx \in {"saved", "verified"} => Touched \subseteq SavedPaths
    /\ tx = "rolled_back" /\ ~attempted /\ edits = savedAt => Marked = {}
    /\ status = "rolled_back" /\ edits = backupAt => Marked \subseteq Uncovered

\* An operation that wrote over what it was prepared for, and one in place.
Verified(c) == c.changed /\ ~(c.op.kind = "create" /\ c.op.lenient) => saved[c.op.path] = c.before
InPlace(c) ==
    /\ repo[c.op.path] = c.after
    /\ c.op.kind = "rename" /\ c.changed => repo[c.op.to] = c.before
\* While nobody else edits, what is done is in place and the rest is untouched.
OperationsAreDone ==
    /\ tx \in {"saved", "verified"} /\ edits = savedAt =>
          \A i \in DOMAIN prepared : i > done => repo[prepared[i].op.path] = saved[prepared[i].op.path]
    /\ tx \in {"saved", "verified", "applied"} /\ edits = savedAt =>
          \A i \in DOMAIN prepared : i <= done => Verified(prepared[i])
    /\ tx = "verified" /\ edits = savedAt => Verified(Current)
    /\ tx \in {"prepared", "saved", "verified"} /\ edits = 0 =>
          \A i \in DOMAIN prepared : i > done => repo[prepared[i].op.path] = prepared[i].before
    /\ tx \in {"saved", "verified", "applied"} /\ edits = 0 /\ ~attempted =>
          \A i \in DOMAIN prepared : i <= done => InPlace(prepared[i])

AllPassed ==
    Len(results) = Len(Commands) /\ \A i \in DOMAIN results : results[i] = "succeeded"
\* Results are skipped only after a cancellation or a failure, and a build that
\* has ended without a failure has all of them.
BuildIsHonest ==
    /\ process = "unbegun" => results = <<>>
    /\ process \in {"starting", "running"} => InSequence
    /\ (\E i \in DOMAIN results : results[i] = "skipped")
          => told \/ \E i \in DOMAIN results : results[i] \in Failures
    /\ \A i \in DOMAIN results : results[i] = "dry_run" => request.dry
    /\ stage = "build" /\ worked /\ request.build = "required" =>
          Len(results) = Len(Commands) /\ \A i \in DOMAIN results : results[i] \notin Failures
    /\ status = "succeeded" /\ request.build = "required" => AllPassed

\* Together they are inductive.
TaskInv ==
    /\ TaskTyped
    /\ StagesFollow
    /\ PlanIsFollowed
    /\ TransactionFollows
    /\ MarksAreSaved
    /\ OperationsAreDone
    /\ BuildIsHonest

\* A backup that is there has paths.
LEMMA BackupHasPaths ==
    ASSUME NEW b, b \in [DOMAIN b -> Contents]
    PROVE  b # NoBackup <=> DOMAIN b # {}
BY DEF NoBackup

\* A step that leaves files and the patch alone keeps what is said of them.
LEMMA FilesLeftAlone ==
    ASSUME TaskInv, UNCHANGED <<patchVars, request, plan, listed, backup, backupAt, attempted>>,
           status' = "rolled_back" => status = "rolled_back"
    PROVE  TransactionFollows' /\ MarksAreSaved' /\ OperationsAreDone'
<1>1. TransactionFollows'
  BY DEF TaskInv, TransactionFollows, patchVars, Current
<1>2. MarksAreSaved'
  BY DEF TaskInv, MarksAreSaved, patchVars, Marked, Touched, SavedPaths, Uncovered, ToBackUp
<1>3. OperationsAreDone'
  BY DEF TaskInv, OperationsAreDone, patchVars, Verified, InPlace, Current
<1> QED BY <1>1, <1>2, <1>3

\* What a stage raises ends the task or begins its rollback.
LEMMA RaiseKeeps ==
    ASSUME TaskInv, stage \in StageNames, NEW e \in {"cancelled", "timed_out", "error"}, Raise(e),
           stage = "application" => tx \notin Underway,
           UNCHANGED <<patchVars, buildVars, context, told, late>>
    PROVE  TaskInv'
<1>1. /\ status = "running" /\ ~attempted /\ stage \notin {"rollback", "ended"}
      /\ backup \in [DOMAIN backup -> Contents]
  BY DEF TaskInv, TaskTyped, StagesFollow, StageNames, Stages
<1>2. \/ /\ WantsRollback(stage) /\ stage' = "rollback" /\ status' = status
         /\ ~request.dry /\ DOMAIN backup # {}
      \/ /\ ~WantsRollback(stage) /\ stage' = "ended"
         /\ status' \in {"cancelled", "timed_out", "failed"}
  <2>1. WantsRollback(stage) => ~request.dry /\ DOMAIN backup # {}
    BY <1>1, BackupHasPaths DEF WantsRollback
  <2> QED BY <2>1 DEF Raise, PlainStatus
<1>3. UNCHANGED <<worked, attempted, request, plan, listed, backup, backupAt>>
  BY DEF Raise, context
<1>4. TransactionFollows' /\ MarksAreSaved' /\ OperationsAreDone'
  BY <1>2, <1>3, FilesLeftAlone
<1>5. TaskTyped'
  BY <1>1, <1>2, <1>3 DEF TaskInv, TaskTyped, PipelineTypeOK, patchVars, buildVars
<1>6. StagesFollow'
  <2>1. (tx' # "none" => ~request.dry) /\ tx' \notin Underway
    BY DEF TaskInv, StagesFollow, patchVars
  <2>2. ~WantsRollback(stage) => ~WantsRollback("any")
    BY DEF WantsRollback
  <2>3. WantsRollback("any")' = WantsRollback("any")
    BY <1>3 DEF WantsRollback
  <2> QED BY <1>1, <1>2, <1>3, <2>1, <2>2, <2>3 DEF StagesFollow
<1>7. PlanIsFollowed'
  <2>1. tx = "none" \/ stage \in {"application", "build"}
    BY <1>1 DEF TaskInv, StagesFollow
  <2>2. BackedUp' = BackedUp
    BY <1>3 DEF BackedUp, ToBackUp
  <2> QED BY <1>1, <1>2, <1>3, <2>1, <2>2 DEF TaskInv, PlanIsFollowed, patchVars, Sources
<1>8. BuildIsHonest'
  BY <1>1, <1>2, <1>3 DEF TaskInv, BuildIsHonest, buildVars, InSequence, AllPassed
<1> QED BY <1>4, <1>5, <1>6, <1>7, <1>8 DEF TaskInv

\* A stage that has done its work.
LEMMA WorkDoneKeeps ==
    ASSUME TaskInv, stage \in StageNames, WorkDone,
           UNCHANGED <<patchVars, buildVars, context, told, late>>,
           stage = "application" => request.dry \/ tx = "applied",
           stage = "backup" /\ request.backup = "required" => BackedUp,
           stage # "generation",
           stage = "build" /\ request.build = "required" =>
              Len(results) = Len(Commands) /\ \A i \in DOMAIN results : results[i] \notin Failures
    PROVE  TaskInv'
<1>1. /\ worked' = TRUE /\ UNCHANGED <<stage, status, attempted, restored>>
      /\ UNCHANGED <<request, plan, listed, backup, backupAt>>
  BY DEF WorkDone, context
<1>2. TransactionFollows' /\ MarksAreSaved' /\ OperationsAreDone'
  BY <1>1, FilesLeftAlone
<1>3. TaskTyped'
  BY <1>1 DEF TaskInv, TaskTyped, PipelineTypeOK, patchVars, buildVars
<1>4. StagesFollow'
  <2>1. tx \notin Underway
    BY DEF TaskInv, StagesFollow, Underway
  <2> QED BY <1>1, <2>1 DEF TaskInv, StagesFollow, patchVars, WantsRollback
<1>5. PlanIsFollowed'
  <2>1. BackedUp' = BackedUp
    BY <1>1 DEF BackedUp, ToBackUp
  <2> QED BY <1>1, <2>1 DEF TaskInv, PlanIsFollowed, patchVars, Sources
<1>6. BuildIsHonest'
  BY <1>1 DEF TaskInv, BuildIsHonest, buildVars, InSequence, AllPassed
<1> QED BY <1>2, <1>3, <1>4, <1>5, <1>6 DEF TaskInv

\* An interrupted stage.
LEMMA InterruptKeeps == ASSUME TaskInv, Interrupt PROVE TaskInv'
<1>1. tx \notin Underway
  BY DEF TaskInv, StagesFollow, Interrupt, Underway
<1> QED BY <1>1, RaiseKeeps DEF Interrupt

\* From one stage to the next.
LEMMA NextStageKeeps == ASSUME TaskInv, NextStage PROVE TaskInv'
<1>1. /\ stage \in StageNames /\ worked /\ ~told /\ ~late
      /\ UNCHANGED <<patchVars, buildVars, request, plan, listed, backup, backupAt, attempted, told, late>>
  BY DEF NextStage, Interrupted, context
<1>2. status = "running" /\ ~attempted
  BY <1>1 DEF TaskInv, StagesFollow, StageNames, Stages
<1>3. BackedUp' = BackedUp
  BY <1>1 DEF BackedUp, ToBackUp
<1>4. CASE stage = "build"
  <2>1. /\ stage' = "ended" /\ worked' = worked
        /\ status' = IF request.dry THEN "dry_run" ELSE "succeeded"
    BY <1>4 DEF NextStage
  <2>2. TransactionFollows' /\ MarksAreSaved' /\ OperationsAreDone'
    BY <1>1, <2>1, FilesLeftAlone
  <2>3. TaskTyped'
    BY <1>1, <2>1 DEF TaskInv, TaskTyped, PipelineTypeOK, patchVars, buildVars
  <2>4. StagesFollow'
    BY <1>1, <1>2, <1>4, <2>1 DEF TaskInv, StagesFollow, patchVars, WantsRollback
  <2>5. PlanIsFollowed'
    BY <1>1, <1>3, <1>4, <2>1 DEF TaskInv, PlanIsFollowed, patchVars, Sources
  <2>6. BuildIsHonest'
    <3>1. ASSUME status' = "succeeded", request.build = "required" PROVE AllPassed
      <4>1. ~request.dry
        BY <2>1, <3>1
      <4>2. /\ Len(results) = Len(Commands)
            /\ \A i \in DOMAIN results : results[i] \notin Failures
        BY <1>1, <1>4, <3>1 DEF TaskInv, BuildIsHonest
      <4>3. \A i \in DOMAIN results : results[i] # "skipped" /\ results[i] # "dry_run"
        BY <1>1, <4>1, <4>2 DEF TaskInv, BuildIsHonest
      <4>4. \A i \in DOMAIN results : results[i] \in CommandStatus
        BY DEF TaskInv, TaskTyped, PipelineTypeOK
      <4> QED BY <4>2, <4>3, <4>4 DEF AllPassed, CommandStatus
    <3> QED BY <1>1, <2>1, <3>1 DEF TaskInv, BuildIsHonest, buildVars, InSequence, AllPassed
  <2> QED BY <2>2, <2>3, <2>4, <2>5, <2>6 DEF TaskInv
<1>5. CASE stage # "build"
  <2>1. worked' = FALSE /\ status' = status
    BY <1>5 DEF NextStage
  <2>2. \/ stage = "validation" /\ stage' = "analysis"
        \/ stage = "analysis" /\ stage' = "planning"
        \/ stage = "planning" /\ stage' = "backup"
        \/ stage = "backup" /\ stage' = "generation"
        \/ stage = "generation" /\ stage' = "checking"
        \/ stage = "checking" /\ stage' = "application"
        \/ stage = "application" /\ stage' = "build"
    <3>1. PICK i \in 1 .. 7 : Stages[i] = stage /\ stage' = Stages[i + 1]
      BY <1>5 DEF NextStage, Stages
    <3> QED BY <3>1 DEF Stages
  <2>3. TransactionFollows' /\ MarksAreSaved' /\ OperationsAreDone'
    BY <1>1, <2>1, FilesLeftAlone
  <2>4. TaskTyped'
    <3>1. stage' \in StageNames
      BY <2>2 DEF StageNames, Stages
    <3> QED BY <1>1, <2>1, <3>1 DEF TaskInv, TaskTyped, PipelineTypeOK, patchVars, buildVars
  <2>5. StagesFollow'
    BY <1>1, <1>2, <2>1, <2>2 DEF TaskInv, StagesFollow, patchVars
  <2>6. PlanIsFollowed'
    BY <1>1, <1>3, <2>1, <2>2 DEF TaskInv, PlanIsFollowed, patchVars, Sources
  <2>7. BuildIsHonest'
    BY <1>1, <1>2, <2>1 DEF TaskInv, BuildIsHonest, buildVars, InSequence, AllPassed
  <2> QED BY <2>3, <2>4, <2>5, <2>6, <2>7 DEF TaskInv
<1> QED BY <1>4, <1>5

\* The validation and the analysis.
LEMMA StudyKeeps == ASSUME TaskInv, Study PROVE TaskInv'
<1>1. /\ stage \in {"validation", "analysis"} /\ stage \in StageNames
      /\ WorkDone \/ Raise("error")
      /\ UNCHANGED <<patchVars, buildVars, context, told, late>>
  BY DEF Study, CheckRequest, Analyze, Works, At, Unchanged, context, StageNames, Stages
<1> QED BY <1>1, RaiseKeeps, WorkDoneKeeps

\* Where a stage may be, and what is so there.
LEMMA EarlyStages ==
    ASSUME TaskInv, stage \in {"validation", "analysis", "planning", "backup", "generation", "checking"}
    PROVE  /\ stage \in StageNames /\ status = "running" /\ ~attempted /\ tx = "none"
           /\ SavedPaths = {} /\ Marked = {}
<1>1. stage \in StageNames
  BY DEF StageNames, Stages
<1>2. status = "running" /\ ~attempted /\ tx = "none"
  BY DEF TaskInv, StagesFollow
<1> QED BY <1>1, <1>2 DEF TaskInv, MarksAreSaved, Undone

\* The plan.
LEMMA MakePlanKeeps == ASSUME TaskInv, MakePlan PROVE TaskInv'
<1>1. stage = "planning" /\ UNCHANGED <<patchVars, buildVars, request, backup, backupAt, told, late>>
  BY DEF MakePlan, Works, At, Unchanged
<1>2. /\ stage \in StageNames /\ status = "running" /\ ~attempted /\ tx = "none"
      /\ SavedPaths = {} /\ Marked = {}
  BY <1>1, EarlyStages
<1>3. CASE Raise("error") /\ UNCHANGED <<plan, listed>>
  BY <1>1, <1>2, <1>3, RaiseKeeps DEF context
<1>4. CASE WorkDone /\ CreatePlan
  <2>1. /\ plan' \subseteq Paths /\ listed' \in {plan', {}}
        /\ worked' = TRUE /\ UNCHANGED <<stage, status, attempted>>
    BY <1>4 DEF CreatePlan, ExtractedPaths, WorkDone
  <2>2. patch = <<>> /\ DOMAIN backup = {}
    BY <1>1 DEF TaskInv, PlanIsFollowed
  <2>3. TaskTyped'
    BY <1>1, <2>1 DEF TaskInv, TaskTyped, PipelineTypeOK, patchVars, buildVars
  <2>4. StagesFollow'
    BY <1>1, <1>2, <2>1 DEF TaskInv, StagesFollow, patchVars
  <2>5. PlanIsFollowed'
    BY <1>1, <2>1, <2>2 DEF TaskInv, PlanIsFollowed, patchVars, Sources
  <2>6. TransactionFollows'
    BY <1>1 DEF TaskInv, TransactionFollows, patchVars, Current
  <2>7. MarksAreSaved'
    <3>1. SavedPaths' = {} /\ Marked' = {}
      BY <1>1, <1>2 DEF SavedPaths, Marked, patchVars
    <3> QED BY <1>1, <1>2, <2>1, <3>1 DEF MarksAreSaved, patchVars
  <2>8. OperationsAreDone'
    BY <1>1, <2>1 DEF TaskInv, OperationsAreDone, patchVars, Verified, InPlace, Current
  <2>9. BuildIsHonest'
    BY <1>1, <1>2, <2>1 DEF TaskInv, BuildIsHonest, buildVars, InSequence, AllPassed
  <2> QED BY <2>3, <2>4, <2>5, <2>6, <2>7, <2>8, <2>9 DEF TaskInv
<1> QED BY <1>3, <1>4 DEF MakePlan

\* The backup.
LEMMA MakeBackupKeeps == ASSUME TaskInv, MakeBackup PROVE TaskInv'
<1>1. /\ stage = "backup" /\ UNCHANGED <<patchVars, buildVars, request, plan, listed, told, late>>
  BY DEF MakeBackup, At, Unchanged
<1>2. /\ stage \in StageNames /\ status = "running" /\ ~attempted /\ tx = "none"
      /\ SavedPaths = {} /\ Marked = {}
  BY <1>1, EarlyStages
<1>3. \/ CreateBackup /\ WorkDone
      \/ WorkDone /\ request.backup # "required" /\ UNCHANGED <<backup, backupAt>>
      \/ Raise("error") /\ UNCHANGED <<backup, backupAt>>
  BY DEF MakeBackup, Forgoes
<1>4. CASE WorkDone /\ request.backup # "required" /\ UNCHANGED <<backup, backupAt>>
  BY <1>1, <1>2, <1>4, WorkDoneKeeps DEF context
<1>5. CASE Raise("error") /\ UNCHANGED <<backup, backupAt>>
  BY <1>1, <1>2, <1>5, RaiseKeeps DEF context
<1>6. CASE CreateBackup /\ WorkDone
  <2>1. /\ worked' = TRUE /\ UNCHANGED <<stage, status, attempted>>
        /\ ToBackUp # {} /\ backup' = [p \in ToBackUp |-> repo[p]] /\ backupAt' = edits
    BY <1>6 DEF CreateBackup, WorkDone
  <2>2. /\ ToBackUp \subseteq Paths /\ ToBackUp' = ToBackUp /\ repo \in [Paths -> Contents]
        /\ \A p \in Paths : repo[p] = others[p]
    BY <1>1, <1>2 DEF TaskInv, TaskTyped, PipelineTypeOK, TaskRequest, ToBackUp, Marked
  <2>3. DOMAIN backup' = ToBackUp /\ backup' \in [ToBackUp -> Contents] /\ BackedUp'
    BY <2>1, <2>2 DEF BackedUp
  <2>4. TaskTyped'
    <3>1. backupAt' \in Nat /\ backupAt' <= edits'
      BY <1>1, <2>1, PatchAssumption DEF TaskInv, TaskTyped, PipelineTypeOK, patchVars
    <3>2. \A p \in DOMAIN backup' : backup'[p] \in Contents
      BY <2>3
    <3> QED BY <1>1, <2>1, <2>2, <2>3, <3>1, <3>2
            DEF TaskInv, TaskTyped, PipelineTypeOK, patchVars, buildVars
  <2>5. StagesFollow'
    BY <1>1, <1>2, <2>1 DEF TaskInv, StagesFollow, patchVars
  <2>6. PlanIsFollowed'
    <3>1. \A p \in DOMAIN backup' : backup'[p] = others'[p]
      BY <1>1, <2>1, <2>2, <2>3 DEF patchVars
    <3> QED BY <1>1, <2>1, <2>3, <3>1 DEF TaskInv, PlanIsFollowed, patchVars, Sources
  <2>7. TransactionFollows'
    BY <1>1 DEF TaskInv, TransactionFollows, patchVars, Current
  <2>8. MarksAreSaved'
    <3>1. SavedPaths' = {} /\ Marked' = {}
      BY <1>1, <1>2 DEF SavedPaths, Marked, patchVars
    <3> QED BY <1>1, <1>2, <2>1, <3>1 DEF MarksAreSaved, patchVars
  <2>9. OperationsAreDone'
    BY <1>1, <2>1 DEF TaskInv, OperationsAreDone, patchVars, Verified, InPlace, Current
  <2>10. BuildIsHonest'
    BY <1>1, <1>2, <2>1 DEF TaskInv, BuildIsHonest, buildVars, InSequence, AllPassed
  <2> QED BY <2>4, <2>5, <2>6, <2>7, <2>8, <2>9, <2>10 DEF TaskInv
<1> QED BY <1>3, <1>4, <1>5, <1>6

\* The patch.
LEMMA GeneratePatchKeeps == ASSUME TaskInv, GeneratePatch PROVE TaskInv'
<1>1. /\ stage = "generation"
      /\ UNCHANGED <<repo, others, edits, prepared, saved, savedAt, done, tx, buildVars,
                     context, told, late>>
  BY DEF GeneratePatch, Works, At
<1>2. /\ stage \in StageNames /\ status = "running" /\ ~attempted /\ tx = "none"
      /\ SavedPaths = {} /\ Marked = {}
  BY <1>1, EarlyStages
<1>3. CASE Raise("error") /\ UNCHANGED patch
  BY <1>1, <1>2, <1>3, RaiseKeeps DEF patchVars
<1>4. CASE ObtainPatch /\ WorkDone
  <2>1. /\ worked' = TRUE /\ UNCHANGED <<stage, status, attempted>>
        /\ UNCHANGED <<request, plan, listed, backup, backupAt>>
    BY <1>1, <1>4 DEF WorkDone, context
  <2>2. patch' \in Seq(Operation)
    BY <1>4, PatchesAssumption DEF ObtainPatch
  <2>3. listed # {} => Sources(patch') \subseteq listed \cup request.targets
    BY <1>4 DEF ObtainPatch, Given, Generated, Sources, TaskInv, TaskTyped, PipelineTypeOK
  <2>4. TaskTyped'
    BY <1>1, <2>1, <2>2 DEF TaskInv, TaskTyped, PipelineTypeOK, buildVars
  <2>5. StagesFollow'
    BY <1>1, <1>2, <2>1 DEF TaskInv, StagesFollow
  <2>6. PlanIsFollowed'
    <3>1. Sources(patch)' = Sources(patch') /\ BackedUp' = BackedUp
      BY <2>1 DEF BackedUp, ToBackUp, Sources
    <3> QED BY <1>1, <2>1, <2>3, <3>1 DEF TaskInv, PlanIsFollowed
  <2>7. TransactionFollows'
    BY <1>1, <1>2 DEF TaskInv, TransactionFollows, InOrder
  <2>8. MarksAreSaved'
    <3>1. SavedPaths' = {} /\ Marked' = {}
      BY <1>1, <1>2 DEF SavedPaths, Marked
    <3> QED BY <1>1, <1>2, <2>1, <3>1 DEF MarksAreSaved
  <2>9. OperationsAreDone'
    BY <1>1, <1>2, <2>1 DEF TaskInv, OperationsAreDone
  <2>10. BuildIsHonest'
    BY <1>1, <1>2, <2>1 DEF TaskInv, BuildIsHonest, buildVars, InSequence, AllPassed
  <2> QED BY <2>4, <2>5, <2>6, <2>7, <2>8, <2>9, <2>10 DEF TaskInv
<1> QED BY <1>3, <1>4 DEF GeneratePatch

\* The dry run of the patch.
LEMMA CheckPatchKeeps == ASSUME TaskInv, CheckPatch PROVE TaskInv'
<1>1. /\ stage = "checking" /\ stage \in StageNames
      /\ WorkDone \/ Raise("error")
      /\ UNCHANGED <<patchVars, buildVars, context, told, late>>
  BY DEF CheckPatch, Works, At, Unchanged, context, StageNames, Stages
<1> QED BY <1>1, RaiseKeeps, WorkDoneKeeps

\* The transaction begins.
LEMMA BeginApplyKeeps == ASSUME TaskInv, BeginApply PROVE TaskInv'
<1>1. /\ stage = "application" /\ stage \in StageNames /\ tx = "none" /\ ~worked
      /\ UNCHANGED <<repo, others, edits, patch, prepared, saved, savedAt, done, buildVars,
                     request, plan, listed, backup, backupAt, told, late>>
  BY DEF BeginApply, Works, At, StageNames, Stages, context
<1>2. status = "running" /\ ~attempted
  BY <1>1 DEF TaskInv, StagesFollow
<1>3. CASE request.dry
  BY <1>1, <1>3, WorkDoneKeeps DEF BeginApply, patchVars, context
<1>4. CASE ~request.dry
  <2>1. tx' = "begun" /\ UNCHANGED <<stage, worked, status, attempted>>
    BY <1>4 DEF BeginApply, control
  <2>2. TaskTyped'
    BY <1>1, <2>1 DEF TaskInv, TaskTyped, PipelineTypeOK, buildVars
  <2>3. StagesFollow'
    BY <1>1, <1>2, <1>4, <2>1 DEF TaskInv, StagesFollow
  <2>4. PlanIsFollowed'
    <3>1. BackedUp' = BackedUp
      BY <1>1 DEF BackedUp, ToBackUp
    <3> QED BY <1>1, <2>1, <3>1 DEF TaskInv, PlanIsFollowed, Sources
  <2>5. TransactionFollows'
    BY <1>1, <2>1 DEF TaskInv, TransactionFollows, InOrder, Undone
  <2>6. MarksAreSaved'
    <3>1. SavedPaths = {} /\ Marked = {}
      BY <1>1, <1>2 DEF TaskInv, MarksAreSaved, Undone
    <3>2. SavedPaths' = {} /\ Marked' = {}
      BY <1>1, <3>1 DEF SavedPaths, Marked
    <3> QED BY <1>2, <2>1, <3>2 DEF MarksAreSaved
  <2>7. OperationsAreDone'
    BY <2>1 DEF OperationsAreDone
  <2>8. BuildIsHonest'
    BY <1>1, <2>1 DEF TaskInv, BuildIsHonest, buildVars, InSequence, AllPassed
  <2> QED BY <2>2, <2>3, <2>4, <2>5, <2>6, <2>7, <2>8 DEF TaskInv
<1> QED BY <1>3, <1>4

\* Steps of the transaction: what is around it is as it was.
LEMMA ApplyLeavesAlone ==
    ASSUME TaskInv, Apply, tx' \in InOrder \cup {"failed"}
    PROVE  /\ stage = "application" /\ tx # "none" /\ status = "running" /\ ~attempted
           /\ UNCHANGED <<others, edits, patch, buildVars, request, plan, listed, backup, backupAt, stage,
                          worked, status, attempted, told, late>>
           /\ StagesFollow' /\ PlanIsFollowed' /\ BuildIsHonest'
<1>1. /\ stage = "application" /\ tx \notin {"none", "applied"}
      /\ UNCHANGED <<others, edits, patch, buildVars, request, plan, listed, backup, backupAt, stage,
                     worked, status, attempted, told, late>>
  BY DEF Apply, PatchStep, PrepareRequest, SaveSnapshots, VerifyOperation, CommitOperation,
         CommitFails, FinishPatch, RestoreSnapshots, context, control
<1>2. status = "running" /\ ~attempted /\ ~request.dry /\ ~worked
  BY <1>1 DEF TaskInv, StagesFollow
<1>3. StagesFollow'
  BY <1>1, <1>2 DEF TaskInv, StagesFollow
<1>4. PlanIsFollowed'
  <2>1. BackedUp' = BackedUp
    BY <1>1 DEF BackedUp, ToBackUp
  <2> QED BY <1>1, <2>1 DEF TaskInv, PlanIsFollowed, Sources
<1>5. BuildIsHonest'
  BY <1>1 DEF TaskInv, BuildIsHonest, buildVars, InSequence, AllPassed
<1> QED BY <1>1, <1>2, <1>3, <1>4, <1>5

\* Paths that are claimed once are written once.
LEMMA ClaimedOnce ==
    ASSUME NEW ops \in Seq(Operation), Consistent(ops)
    PROVE  Apart(ops)
<1> DEFINE renames == {i \in DOMAIN ops : ops[i].kind = "rename"}
           source == [i \in DOMAIN ops |-> ops[i].path]
           destination == [i \in renames |-> ops[i].to]
<1>1. /\ DOMAIN ops = 1 .. Len(ops) /\ Len(ops) \in Nat
      /\ IsFiniteSet(DOMAIN ops) /\ Cardinality(DOMAIN ops) = Len(ops)
  <2>1. DOMAIN ops = 1 .. Len(ops) /\ Len(ops) \in Nat
    OBVIOUS
  <2>2. IsFiniteSet(1 .. Len(ops)) /\ Cardinality(1 .. Len(ops)) = Len(ops)
    BY <2>1, FS_Interval
  <2> QED BY <2>1, <2>2
<1>2. \A i, j \in DOMAIN ops : i # j => ops[i].path # ops[j].path
  <2>1. source \in Surjection(DOMAIN ops, Sources(ops))
    BY DEF Surjection, Sources
  <2>2. IsFiniteSet(Sources(ops)) /\ Cardinality(DOMAIN ops) = Cardinality(Sources(ops))
    BY <1>1, <2>1, FS_Surjection DEF Consistent
  <2>3. source \in Injection(DOMAIN ops, Sources(ops))
    BY <1>1, <2>1, <2>2, FS_SurjSameCardinalityImpliesInj
  <2> QED BY <2>3 DEF Injection, IsInjective
<1>3. \A i, j \in renames : i # j => ops[i].to # ops[j].to
  <2>1. IsFiniteSet(renames)
    BY <1>1, FS_Subset
  <2>2. destination \in Surjection(renames, Destinations(ops))
    BY DEF Surjection, Destinations
  <2>3. IsFiniteSet(Destinations(ops)) /\ Cardinality(renames) = Cardinality(Destinations(ops))
    BY <2>1, <2>2, FS_Surjection DEF Consistent
  <2> HIDE DEF renames
  <2>4. destination \in Injection(renames, Destinations(ops))
    BY <2>1, <2>2, <2>3, FS_SurjSameCardinalityImpliesInj
  <2> QED BY <2>4 DEF Injection, IsInjective
<1>4. \A i, j \in DOMAIN ops : ops[j].kind = "rename" => ops[i].path # ops[j].to
  BY DEF Consistent, Sources, Destinations
<1> QED BY <1>2, <1>3, <1>4 DEF Apart

\* What prepare_operation makes of an operation.
LEMMA PreparedIs ==
    ASSUME NEW o \in Operation, NEW fs \in [Paths -> Contents]
    PROVE  /\ Prepared(o, fs) \in Change /\ Prepared(o, fs).op = o
           /\ Prepared(o, fs).before = fs[o.path]
           /\ Prepared(o, fs).changed <=> Prepared(o, fs).before # Prepared(o, fs).after
           /\ o.kind = "rename" /\ Prepared(o, fs).changed => Prepared(o, fs).after = Absent
<1> DEFINE before == fs[o.path]
           after == CASE Skipped(o, fs) -> before
                      [] o.kind \in {"delete", "rename"} -> Absent
                      [] OTHER -> o.text
<1>1. before \in Contents /\ after \in Contents
  BY DEF Operation, Contents
<1>2. o.kind = "rename" /\ before # after => after = Absent
  OBVIOUS
<1>3. Prepared(o, fs) = [op |-> o, before |-> before, after |-> after,
                            changed |-> before # after]
  BY DEF Prepared
<1> HIDE DEF before, after
<1>4. Prepared(o, fs) \in Change
  BY <1>1, <1>3 DEF Change
<1>5. /\ Prepared(o, fs).op = o /\ Prepared(o, fs).before = before
      /\ Prepared(o, fs).after = after
      /\ Prepared(o, fs).changed = (before # after)
  BY <1>3
<1>6. Prepared(o, fs).before = fs[o.path]
  BY <1>5 DEF before
<1> QED BY <1>2, <1>4, <1>5, <1>6

\* The operations are prepared.
LEMMA PrepareRequestKeeps ==
    ASSUME TaskInv, Apply, PrepareRequest PROVE TaskInv'
<1>1. /\ tx = "begun" /\ tx' \in {"prepared", "failed"}
      /\ UNCHANGED <<repo, others, edits, patch, saved, savedAt, done>>
  BY DEF PrepareRequest
<1>2. /\ status = "running" /\ ~attempted
      /\ UNCHANGED <<buildVars, request, plan, listed, backup, backupAt, stage, worked, status,
                     attempted, told, late>>
      /\ StagesFollow' /\ PlanIsFollowed' /\ BuildIsHonest'
  BY <1>1, ApplyLeavesAlone DEF InOrder
<1>3. done = 0 /\ SavedPaths = {} /\ Marked = {}
  BY <1>1, <1>2 DEF TaskInv, TransactionFollows, MarksAreSaved, Undone
<1>4. MarksAreSaved'
  <2>1. SavedPaths' = {} /\ Marked' = {}
    BY <1>1, <1>3 DEF SavedPaths, Marked
  <2> QED BY <1>1, <1>2, <2>1 DEF MarksAreSaved
<1>5. CASE tx' = "failed" /\ prepared' = prepared
  <2>1. TaskTyped'
    BY <1>1, <1>2, <1>5 DEF TaskInv, TaskTyped, PipelineTypeOK, buildVars
  <2>2. TransactionFollows'
    BY <1>1, <1>3, <1>5 DEF TaskInv, TransactionFollows, InOrder
  <2>3. OperationsAreDone'
    BY <1>5 DEF OperationsAreDone
  <2> QED BY <1>2, <1>4, <2>1, <2>2, <2>3 DEF TaskInv
<1>6. CASE /\ tx' = "prepared" /\ Applicable(patch, repo)
           /\ prepared' = [i \in DOMAIN patch |-> Prepared(patch[i], repo)]
  <2>1. repo \in [Paths -> Contents] /\ patch \in Seq(Operation)
    BY DEF TaskInv, TaskTyped, PipelineTypeOK
  <2>2. /\ DOMAIN patch = 1 .. Len(patch) /\ Len(patch) \in Nat
        /\ \A i \in DOMAIN patch : patch[i] \in Operation
    BY <2>1
  <2>3. \A i \in DOMAIN patch :
           /\ prepared'[i] \in Change /\ prepared'[i].op = patch[i]
           /\ prepared'[i].before = repo[patch[i].path]
           /\ prepared'[i].changed <=> prepared'[i].before # prepared'[i].after
           /\ prepared'[i].op.kind = "rename" /\ prepared'[i].changed
                 => prepared'[i].after = Absent
    BY <1>6, <2>1, <2>2, PreparedIs
  <2>4. DOMAIN prepared' = DOMAIN patch /\ prepared' \in Seq(Change) /\ Len(prepared') = Len(patch)
    BY <1>6, <2>2, <2>3
  <2>5. TaskTyped'
    <3>1. done' \in 0 .. Len(prepared')
      BY <1>1, <1>3, <2>2, <2>4
    <3>2. \A i \in DOMAIN prepared' :
             prepared'[i] \in [op : Operation, before : Contents, after : Contents,
                               changed : BOOLEAN]
      BY <2>3, <2>4 DEF Change
    <3> QED BY <1>1, <1>2, <2>4, <3>1, <3>2 DEF TaskInv, TaskTyped, PipelineTypeOK, buildVars
  <2>6. TransactionFollows'
    <3>1. Apart(patch)
      BY <1>6, <2>1, ClaimedOnce DEF Applicable
    <3> QED BY <1>1, <1>3, <1>6, <2>3, <2>4, <3>1 DEF TransactionFollows, Apart
  <2>7. OperationsAreDone'
    BY <1>1, <1>3, <1>6, <2>3, <2>4 DEF OperationsAreDone
  <2> QED BY <1>2, <1>4, <2>5, <2>6, <2>7 DEF TaskInv
<1> QED BY <1>5, <1>6 DEF PrepareRequest

\* Where the operations are when a transaction is under way.
LEMMA OperationsAre ==
    ASSUME TaskInv, tx \in InOrder
    PROVE  /\ DOMAIN prepared = DOMAIN patch /\ DOMAIN prepared = 1 .. Len(prepared)
           /\ Len(prepared) \in Nat /\ done \in 0 .. Len(prepared) /\ edits \in Nat
           /\ \A i \in DOMAIN prepared :
                 /\ prepared[i] \in Change /\ prepared[i].op = patch[i]
                 /\ prepared[i].op.path \in Touched /\ prepared[i].op.path \in Paths
                 /\ prepared[i].op.to \in Paths
                 /\ prepared[i].op.kind = "rename" => prepared[i].op.to \in Touched
<1>1. /\ patch \in Seq(Operation) /\ prepared \in Seq(Change) /\ done \in 0 .. Len(prepared)
      /\ edits \in 0 .. MaxEdits /\ Len(prepared) = Len(patch)
      /\ \A i \in DOMAIN prepared : prepared[i].op = patch[i]
  BY DEF TaskInv, TaskTyped, PipelineTypeOK, TransactionFollows
<1>2. /\ DOMAIN prepared = DOMAIN patch /\ DOMAIN prepared = 1 .. Len(prepared)
      /\ Len(prepared) \in Nat /\ edits \in Nat
      /\ \A i \in DOMAIN prepared : prepared[i] \in Change /\ patch[i] \in Operation
  BY <1>1, PatchAssumption
<1>3. ASSUME NEW i \in DOMAIN prepared
      PROVE  /\ patch[i].path \in Touched
             /\ patch[i].kind = "rename" => patch[i].to \in Touched
  BY <1>2 DEF Touched, Sources, Destinations
<1> QED BY <1>1, <1>2, <1>3 DEF Operation

\* The files are saved.
LEMMA SaveSnapshotsKeeps ==
    ASSUME TaskInv, Apply, SaveSnapshots PROVE TaskInv'
<1>1. /\ tx = "prepared" /\ savedAt' = edits
      /\ UNCHANGED <<repo, others, edits, patch, prepared, done>>
  BY DEF SaveSnapshots
<1>2. PICK some \in SUBSET Touched :
         /\ saved' = [p \in Paths |-> IF p \in some THEN repo[p] ELSE Unsaved]
         /\ tx' = IF some = Touched THEN "saved" ELSE "restoring"
  BY DEF SaveSnapshots
<1>3. /\ status = "running" /\ ~attempted
      /\ UNCHANGED <<buildVars, request, plan, listed, backup, backupAt, stage, worked, status,
                     attempted, told, late>>
      /\ StagesFollow' /\ PlanIsFollowed' /\ BuildIsHonest'
  BY <1>2, ApplyLeavesAlone DEF InOrder
<1>4. done = 0 /\ Marked = {}
  BY <1>1, <1>3 DEF TaskInv, TransactionFollows, MarksAreSaved, Undone
<1>5. /\ DOMAIN prepared = 1 .. Len(prepared) /\ Len(prepared) \in Nat /\ edits \in Nat
      /\ \A i \in DOMAIN prepared : prepared[i].op.path \in Touched /\ prepared[i].op.path \in Paths
  BY <1>1, OperationsAre DEF InOrder
<1>6. repo \in [Paths -> Contents] /\ \A p \in Paths : repo[p] = others[p] /\ repo[p] # Unsaved
  BY <1>4, PatchAssumption DEF TaskInv, TaskTyped, PipelineTypeOK, Marked
<1>7. Touched \subseteq Paths
  <2>1. patch \in Seq(Operation)
    BY DEF TaskInv, TaskTyped, PipelineTypeOK
  <2>2. \A i \in DOMAIN patch : patch[i] \in Operation
    BY <2>1
  <2>3. \A i \in DOMAIN patch : patch[i].path \in Paths /\ patch[i].to \in Paths
    BY <2>2 DEF Operation
  <2> QED BY <2>3 DEF Touched, Sources, Destinations
<1>8. SavedPaths' = some /\ Marked' = {} /\ Touched' = Touched
  BY <1>1, <1>2, <1>4, <1>6, <1>7 DEF SavedPaths, Marked, Touched
<1>9. \A p \in some : saved'[p] = repo[p]
  BY <1>2, <1>7
<1>10. TaskTyped'
  <2>1. saved' \in [Paths -> Contents \cup {Unsaved}]
    BY <1>2, <1>6
  <2>2. savedAt' \in Nat /\ savedAt' <= edits'
    BY <1>1, <1>5
  <2> QED BY <1>1, <1>2, <1>3, <2>1, <2>2 DEF TaskInv, TaskTyped, PipelineTypeOK, buildVars
<1>11. TransactionFollows'
  BY <1>1, <1>2, <1>4 DEF TaskInv, TransactionFollows, InOrder, Undone
<1>12. MarksAreSaved'
  BY <1>1, <1>2, <1>3, <1>6, <1>7, <1>8, <1>9 DEF MarksAreSaved, Undone
<1>13. OperationsAreDone'
  <2>1. tx' = "saved" => \A i \in DOMAIN prepared :
                            repo[prepared[i].op.path] = saved'[prepared[i].op.path]
    BY <1>2, <1>5, <1>9
  <2>2. edits = 0 => \A i \in DOMAIN prepared :
                        i > done => repo[prepared[i].op.path] = prepared[i].before
    BY <1>1 DEF TaskInv, OperationsAreDone
  <2>3. \A i \in DOMAIN prepared : ~(i <= done)
    BY <1>4, <1>5
  <2>4. tx' \in {"saved", "restoring"}
    BY <1>2
  <2> QED BY <1>1, <2>1, <2>2, <2>3, <2>4 DEF OperationsAreDone
<1> QED BY <1>3, <1>10, <1>11, <1>12, <1>13 DEF TaskInv

\* A step that only moves the transaction keeps the types.
LEMMA TransactionTyped ==
    ASSUME TaskInv, UNCHANGED <<buildVars, request, plan, listed, backup, backupAt, stage, worked, status,
                                attempted, told, late>>,
           UNCHANGED <<others, edits, patch, prepared, saved, savedAt>>,
           repo' \in [Paths -> Contents], done' \in 0 .. Len(prepared),
           tx' \in {"saved", "verified", "restoring", "applied", "rolled_back", "broken"}
    PROVE  TaskTyped'
BY DEF TaskInv, TaskTyped, PipelineTypeOK, buildVars

\* The marks, when no file changes.
LEMMA MarksStay ==
    ASSUME TaskInv, tx \in {"saved", "verified"}, tx' \in {"saved", "verified", "restoring", "applied"},
           UNCHANGED <<repo, others, edits, patch, saved, savedAt>>,
           UNCHANGED <<request, plan, listed, backup, backupAt, status, attempted>>
    PROVE  MarksAreSaved'
BY DEF TaskInv, MarksAreSaved, Marked, Touched, SavedPaths, Undone, Uncovered, ToBackUp

\* An operation is verified, or found to do nothing.
LEMMA VerifyOperationKeeps ==
    ASSUME TaskInv, Apply, VerifyOperation PROVE TaskInv'
<1>1. /\ tx = "saved" /\ done < Len(prepared) /\ tx' \in {"saved", "verified", "restoring"}
      /\ UNCHANGED <<repo, others, edits, patch, prepared, saved, savedAt>>
  BY DEF VerifyOperation
<1>2. /\ status = "running" /\ ~attempted
      /\ UNCHANGED <<buildVars, request, plan, listed, backup, backupAt, stage, worked, status,
                     attempted, told, late>>
      /\ StagesFollow' /\ PlanIsFollowed' /\ BuildIsHonest'
  BY <1>1, ApplyLeavesAlone DEF InOrder
<1>3. /\ DOMAIN prepared = 1 .. Len(prepared) /\ Len(prepared) \in Nat /\ edits \in Nat
      /\ done \in 0 .. Len(prepared) /\ done + 1 \in DOMAIN prepared
      /\ Current = prepared[done + 1]
  BY <1>1, OperationsAre DEF InOrder, Current
<1>4. repo \in [Paths -> Contents]
  BY DEF TaskInv, TaskTyped, PipelineTypeOK
<1>5. MarksAreSaved'
  BY <1>1, <1>2, MarksStay
<1>6. /\ edits = savedAt => \A i \in DOMAIN prepared :
                               i > done => repo[prepared[i].op.path] = saved[prepared[i].op.path]
      /\ edits = savedAt => \A i \in DOMAIN prepared : i <= done => Verified(prepared[i])
      /\ edits = 0 => \A i \in DOMAIN prepared :
                         i > done => repo[prepared[i].op.path] = prepared[i].before
      /\ edits = 0 => \A i \in DOMAIN prepared : i <= done => InPlace(prepared[i])
  BY <1>1, <1>2 DEF TaskInv, OperationsAreDone
<1>7. CASE ~Current.changed /\ done' = done + 1 /\ tx' = tx
  <2>1. done' \in 0 .. Len(prepared) /\ done' \in DOMAIN prepared
    BY <1>3, <1>7
  <2>2. TaskTyped'
    BY <1>1, <1>2, <1>4, <2>1, TransactionTyped
  <2>3. TransactionFollows'
    BY <1>1, <1>7 DEF TaskInv, TransactionFollows, InOrder, Undone
  <2>4. \A i \in DOMAIN prepared :
           /\ (Verified(prepared[i]))' <=> Verified(prepared[i])
           /\ (InPlace(prepared[i]))' <=> InPlace(prepared[i])
    BY <1>1 DEF Verified, InPlace
  <2>5. Verified(prepared[done'])
    BY <1>3, <1>7 DEF Verified
  <2>6. edits = 0 => InPlace(prepared[done'])
    <3>1. prepared[done'].before = prepared[done'].after
      BY <1>3, <1>7 DEF TaskInv, TransactionFollows
    <3>2. edits = 0 => repo[prepared[done'].op.path] = prepared[done'].before
      BY <1>3, <1>6, <1>7
    <3> QED BY <1>3, <1>7, <3>1, <3>2 DEF InPlace
  <2>7. \A i \in DOMAIN prepared : /\ i > done' => i > done
                                   /\ i <= done' => i <= done \/ i = done'
    BY <1>3, <1>7
  <2>8. \A i \in DOMAIN prepared : i <= done' /\ edits = savedAt => (Verified(prepared[i]))'
    BY <1>6, <2>4, <2>5, <2>7
  <2>9. \A i \in DOMAIN prepared : i <= done' /\ edits = 0 => (InPlace(prepared[i]))'
    BY <1>6, <2>4, <2>6, <2>7
  <2>10. OperationsAreDone'
    BY <1>1, <1>6, <1>7, <2>7, <2>8, <2>9 DEF OperationsAreDone
  <2> QED BY <1>2, <1>5, <2>2, <2>3, <2>10 DEF TaskInv
<1>8. CASE /\ Current.changed /\ done' = done
           /\ tx' = IF Unmoved(Current) THEN "verified" ELSE "restoring"
  <2>1. TaskTyped'
    BY <1>1, <1>2, <1>3, <1>4, <1>8, TransactionTyped
  <2>2. TransactionFollows'
    BY <1>1, <1>8 DEF TaskInv, TransactionFollows, InOrder, Undone, Current
  <2>3. /\ Verified(Current)' <=> Verified(Current)
        /\ \A i \in DOMAIN prepared :
              /\ (Verified(prepared[i]))' <=> Verified(prepared[i])
              /\ (InPlace(prepared[i]))' <=> InPlace(prepared[i])
    BY <1>1, <1>8 DEF Verified, InPlace, Current
  <2>4. tx' = "verified" /\ edits = savedAt => Verified(Current)
    <3>1. edits = savedAt => repo[Current.op.path] = saved[Current.op.path]
      BY <1>3, <1>6
    <3>2. tx' = "verified" => Unmoved(Current)
      BY <1>8
    <3> QED BY <3>1, <3>2 DEF Unmoved, Verified
  <2>5. OperationsAreDone'
    BY <1>1, <1>6, <1>8, <2>3, <2>4 DEF OperationsAreDone
  <2> QED BY <1>2, <1>5, <2>1, <2>2, <2>5 DEF TaskInv
<1> QED BY <1>7, <1>8 DEF VerifyOperation

\* What a committed operation changes.
LEMMA CommittedIs ==
    ASSUME TaskInv, tx = "verified", NEW fs, fs = Committed(Current, repo)
    PROVE  /\ done + 1 \in DOMAIN prepared /\ Current = prepared[done + 1]
           /\ fs \in [Paths -> Contents]
           /\ fs[Current.op.path] = Current.after
           /\ Current.op.kind = "rename" => fs[Current.op.to] = repo[Current.op.path]
           /\ \A p \in Paths :
                 /\ p # Current.op.path
                 /\ Current.op.kind = "rename" => p # Current.op.to
                 => fs[p] = repo[p]
<1>1. /\ DOMAIN prepared = DOMAIN patch /\ DOMAIN prepared = 1 .. Len(prepared)
      /\ Len(prepared) \in Nat /\ done \in 0 .. Len(prepared)
      /\ \A i \in DOMAIN prepared :
            /\ prepared[i] \in Change /\ prepared[i].op = patch[i]
            /\ prepared[i].op.path \in Paths /\ prepared[i].op.to \in Paths
  BY OperationsAre DEF InOrder
<1>2. done < Len(prepared) /\ Current.changed /\ Apart(patch)
  BY DEF TaskInv, TransactionFollows, InOrder
<1>3. done + 1 \in DOMAIN prepared /\ Current = prepared[done + 1]
  BY <1>1, <1>2 DEF Current
<1>4. Current.op.kind = "rename" => Current.after = Absent /\ Current.op.path # Current.op.to
  BY <1>1, <1>2, <1>3 DEF TaskInv, TransactionFollows, Apart
<1>5. repo \in [Paths -> Contents] /\ Current.after \in Contents /\ Absent \in Contents
      /\ Current.op.path \in Paths /\ Current.op.to \in Paths
  BY <1>1, <1>3 DEF TaskInv, TaskTyped, PipelineTypeOK, Change, Contents
<1>6. CASE Current.op.kind = "rename"
  <2>1. fs = [repo EXCEPT ![Current.op.to] = repo[Current.op.path], ![Current.op.path] = Absent]
    BY <1>6 DEF Committed
  <2> QED BY <1>3, <1>4, <1>5, <1>6, <2>1
<1>7. CASE Current.op.kind # "rename"
  <2>1. fs = [repo EXCEPT ![Current.op.path] = Current.after]
    BY <1>7 DEF Committed
  <2> QED BY <1>3, <1>5, <1>7, <2>1
<1> QED BY <1>6, <1>7

\* An operation is committed.
LEMMA CommitOperationKeeps ==
    ASSUME TaskInv, Apply, CommitOperation PROVE TaskInv'
<1>1. /\ tx = "verified" /\ repo' = Committed(Current, repo) /\ done' = done + 1 /\ tx' = "saved"
      /\ UNCHANGED <<others, edits, patch, prepared, saved, savedAt>>
  BY DEF CommitOperation
<1>2. /\ status = "running" /\ ~attempted
      /\ UNCHANGED <<buildVars, request, plan, listed, backup, backupAt, stage, worked, status,
                     attempted, told, late>>
      /\ StagesFollow' /\ PlanIsFollowed' /\ BuildIsHonest'
  BY <1>1, ApplyLeavesAlone DEF InOrder
<1>3. /\ DOMAIN prepared = DOMAIN patch /\ DOMAIN prepared = 1 .. Len(prepared)
      /\ Len(prepared) \in Nat /\ done \in 0 .. Len(prepared) /\ edits \in Nat
      /\ \A i \in DOMAIN prepared :
            /\ prepared[i] \in Change /\ prepared[i].op = patch[i]
            /\ prepared[i].op.path \in Touched /\ prepared[i].op.path \in Paths
            /\ prepared[i].op.to \in Paths
            /\ prepared[i].op.kind = "rename" => prepared[i].op.to \in Touched
  BY <1>1, OperationsAre DEF InOrder
<1>4. /\ done + 1 \in DOMAIN prepared /\ Current = prepared[done + 1]
      /\ repo' \in [Paths -> Contents]
      /\ repo'[Current.op.path] = Current.after
      /\ Current.op.kind = "rename" => repo'[Current.op.to] = repo[Current.op.path]
      /\ \A p \in Paths :
            /\ p # Current.op.path
            /\ Current.op.kind = "rename" => p # Current.op.to
            => repo'[p] = repo[p]
  BY <1>1, CommittedIs
<1>5. done' \in 0 .. Len(prepared) /\ done' \in DOMAIN prepared /\ Current = prepared[done']
  BY <1>1, <1>3, <1>4
<1>6. \A i \in DOMAIN prepared : i # done' =>
         /\ repo'[prepared[i].op.path] = repo[prepared[i].op.path]
         /\ prepared[i].op.kind = "rename" =>
               repo'[prepared[i].op.to] = repo[prepared[i].op.to]
  <2> SUFFICES ASSUME NEW i \in DOMAIN prepared, i # done'
               PROVE  /\ repo'[prepared[i].op.path] = repo[prepared[i].op.path]
                      /\ prepared[i].op.kind = "rename" =>
                            repo'[prepared[i].op.to] = repo[prepared[i].op.to]
    OBVIOUS
  <2>1. Apart(patch)
    BY <1>1 DEF TaskInv, TransactionFollows, InOrder
  <2>2. /\ prepared[i].op = patch[i] /\ Current.op = patch[done']
        /\ i \in DOMAIN patch /\ done' \in DOMAIN patch
        /\ patch[i].path \in Paths /\ patch[i].to \in Paths
    BY <1>3, <1>5
  <2>3. /\ patch[i].path # Current.op.path
        /\ Current.op.kind = "rename" => patch[i].path # Current.op.to
        /\ patch[i].kind = "rename" =>
              /\ patch[i].to # Current.op.path
              /\ Current.op.kind = "rename" => patch[i].to # Current.op.to
    BY <2>1, <2>2 DEF Apart
  <2> QED BY <1>4, <2>2, <2>3
<1>7. TaskTyped'
  BY <1>1, <1>2, <1>4, <1>5, TransactionTyped
<1>8. TransactionFollows'
  BY <1>1 DEF TaskInv, TransactionFollows, InOrder, Undone
<1>9. MarksAreSaved'
  <2>1. SavedPaths' = SavedPaths /\ Touched' = Touched /\ Touched \subseteq SavedPaths
    BY <1>1 DEF SavedPaths, Touched, TaskInv, MarksAreSaved
  <2>2. Marked' \subseteq Marked \cup Touched
    <3> SUFFICES ASSUME NEW p \in Paths, p \notin Touched PROVE repo'[p] = repo[p]
      BY <1>1 DEF Marked
    <3> QED BY <1>3, <1>4
  <2>3. Marked \subseteq SavedPaths /\ Marked \subseteq Touched \cup DOMAIN backup
    BY <1>2 DEF TaskInv, MarksAreSaved
  <2>4. edits = savedAt => \A p \in SavedPaths : saved[p] = others[p]
    BY DEF TaskInv, MarksAreSaved
  <2>5. SavedPaths \subseteq Touched
    BY DEF TaskInv, MarksAreSaved
  <2> QED BY <1>1, <1>2, <2>1, <2>2, <2>3, <2>4, <2>5 DEF MarksAreSaved, Undone
<1>10. OperationsAreDone'
  <2>1. /\ edits = savedAt => \A i \in DOMAIN prepared :
                                 i > done => repo[prepared[i].op.path] = saved[prepared[i].op.path]
        /\ edits = savedAt => \A i \in DOMAIN prepared : i <= done => Verified(prepared[i])
        /\ edits = savedAt => Verified(Current)
        /\ edits = 0 => \A i \in DOMAIN prepared :
                           i > done => repo[prepared[i].op.path] = prepared[i].before
        /\ edits = 0 => \A i \in DOMAIN prepared : i <= done => InPlace(prepared[i])
    BY <1>1, <1>2 DEF TaskInv, OperationsAreDone
  <2>2. \A i \in DOMAIN prepared : /\ i > done' => i > done /\ i # done'
                                   /\ i <= done' => (i <= done /\ i # done') \/ i = done'
                                   /\ i = done' => i > done
    BY <1>1, <1>3
  <2>3. edits = savedAt => \A i \in DOMAIN prepared :
                              i > done' => repo'[prepared[i].op.path] = saved[prepared[i].op.path]
    BY <1>6, <2>1, <2>2
  <2>4. edits = 0 => \A i \in DOMAIN prepared :
                        i > done' => repo'[prepared[i].op.path] = prepared[i].before
    BY <1>6, <2>1, <2>2
  <2>5. \A i \in DOMAIN prepared : i <= done' /\ edits = savedAt => Verified(prepared[i])'
    <3>1. \A i \in DOMAIN prepared : i <= done' /\ edits = savedAt => Verified(prepared[i])
      BY <1>5, <2>1, <2>2
    <3>2. \A i \in DOMAIN prepared : Verified(prepared[i])' <=> Verified(prepared[i])
      BY <1>1 DEF Verified
    <3> QED BY <3>1, <3>2
  <2>6. \A i \in DOMAIN prepared : i <= done' /\ edits = 0 => InPlace(prepared[i])'
    <3> SUFFICES ASSUME NEW i \in DOMAIN prepared, i <= done', edits = 0
                 PROVE  /\ repo'[prepared[i].op.path] = prepared[i].after
                        /\ prepared[i].op.kind = "rename" /\ prepared[i].changed
                              => repo'[prepared[i].op.to] = prepared[i].before
      BY <1>1 DEF InPlace
    <3>1. CASE i = done'
      <4>1. repo[Current.op.path] = Current.before
        BY <1>5, <2>1, <2>2
      <4> QED BY <1>4, <1>5, <3>1, <4>1
    <3>2. CASE i <= done /\ i # done'
      <4>1. InPlace(prepared[i])
        BY <2>1, <3>2
      <4> QED BY <1>6, <3>2, <4>1 DEF InPlace
    <3> QED BY <2>2, <3>1, <3>2
  <2> QED BY <1>1, <2>3, <2>4, <2>5, <2>6 DEF OperationsAreDone
<1> QED BY <1>2, <1>7, <1>8, <1>9, <1>10 DEF TaskInv

\* The file system refuses.
LEMMA CommitFailsKeeps ==
    ASSUME TaskInv, Apply, CommitFails PROVE TaskInv'
<1>1. /\ tx = "verified" /\ tx' = "restoring"
      /\ UNCHANGED <<repo, others, edits, patch, prepared, saved, savedAt, done>>
  BY DEF CommitFails
<1>2. /\ UNCHANGED <<buildVars, request, plan, listed, backup, backupAt, stage, worked, status,
                     attempted, told, late>>
      /\ StagesFollow' /\ PlanIsFollowed' /\ BuildIsHonest'
  BY <1>1, ApplyLeavesAlone DEF InOrder
<1>3. repo \in [Paths -> Contents] /\ done \in 0 .. Len(prepared)
  BY DEF TaskInv, TaskTyped, PipelineTypeOK
<1>4. TaskTyped'
  BY <1>1, <1>2, <1>3, TransactionTyped
<1>5. TransactionFollows'
  BY <1>1 DEF TaskInv, TransactionFollows, InOrder, Undone
<1>6. MarksAreSaved'
  BY <1>1, <1>2, MarksStay
<1>7. OperationsAreDone'
  BY <1>1 DEF OperationsAreDone
<1> QED BY <1>2, <1>4, <1>5, <1>6, <1>7 DEF TaskInv

\* All operations are done.
LEMMA FinishPatchKeeps ==
    ASSUME TaskInv, Apply, FinishPatch PROVE TaskInv'
<1>1. /\ tx = "saved" /\ tx' = "applied" /\ done = Len(prepared)
      /\ UNCHANGED <<repo, others, edits, patch, prepared, saved, savedAt, done>>
  BY DEF FinishPatch
<1>2. /\ UNCHANGED <<buildVars, request, plan, listed, backup, backupAt, stage, worked, status,
                     attempted, told, late>>
      /\ StagesFollow' /\ PlanIsFollowed' /\ BuildIsHonest'
  BY <1>1, ApplyLeavesAlone DEF InOrder
<1>3. repo \in [Paths -> Contents] /\ done \in 0 .. Len(prepared)
  BY DEF TaskInv, TaskTyped, PipelineTypeOK
<1>4. TaskTyped'
  BY <1>1, <1>2, <1>3, TransactionTyped
<1>5. TransactionFollows'
  BY <1>1 DEF TaskInv, TransactionFollows, InOrder, Undone
<1>6. MarksAreSaved'
  BY <1>1, <1>2, MarksStay
<1>7. OperationsAreDone'
  BY <1>1, <1>2 DEF TaskInv, OperationsAreDone, Verified, InPlace
<1> QED BY <1>2, <1>4, <1>5, <1>6, <1>7 DEF TaskInv

\* What was saved is restored.
LEMMA RestoreSnapshotsKeeps ==
    ASSUME TaskInv, Apply, RestoreSnapshots PROVE TaskInv'
<1>1. /\ tx = "restoring" /\ UNCHANGED <<others, edits, patch, prepared, saved, savedAt, done>>
  BY DEF RestoreSnapshots
<1>2. PICK lost \in SUBSET SavedPaths :
         /\ repo' = [p \in Paths |-> IF saved[p] = Unsaved \/ p \in lost THEN repo[p] ELSE saved[p]]
         /\ tx' = IF lost = {} THEN "rolled_back" ELSE "broken"
  BY DEF RestoreSnapshots, SavedPaths
<1>3. /\ status = "running" /\ ~attempted
      /\ UNCHANGED <<buildVars, request, plan, listed, backup, backupAt, stage, worked, status,
                     attempted, told, late>>
      /\ StagesFollow' /\ PlanIsFollowed' /\ BuildIsHonest'
  BY <1>2, ApplyLeavesAlone DEF InOrder
<1>4. TaskTyped'
  <2>1. repo \in [Paths -> Contents] /\ saved \in [Paths -> Contents \cup {Unsaved}]
        /\ done \in 0 .. Len(prepared)
    BY DEF TaskInv, TaskTyped, PipelineTypeOK
  <2>2. repo' \in [Paths -> Contents]
    BY <1>2, <2>1
  <2> QED BY <1>1, <1>2, <1>3, <2>1, <2>2, TransactionTyped
<1>5. TransactionFollows'
  BY <1>1, <1>2 DEF TaskInv, TransactionFollows, InOrder, Undone
<1>6. MarksAreSaved'
  <2>1. SavedPaths' = SavedPaths /\ Touched' = Touched
    BY <1>1 DEF SavedPaths, Touched
  <2>2. /\ Marked \subseteq SavedPaths /\ SavedPaths \subseteq Touched
        /\ edits = savedAt => \A p \in SavedPaths : saved[p] = others[p]
    BY <1>3 DEF TaskInv, MarksAreSaved
  <2>3. Marked' \subseteq SavedPaths
    BY <1>1, <1>2, <2>2 DEF Marked, SavedPaths
  <2>4. lost = {} /\ edits = savedAt => Marked' = {}
    <3> SUFFICES ASSUME lost = {}, edits = savedAt, NEW p \in Paths PROVE repo'[p] = others[p]
      BY <1>1 DEF Marked
    <3>1. CASE p \in SavedPaths
      BY <1>2, <2>2, <3>1 DEF SavedPaths
    <3>2. CASE p \notin SavedPaths
      BY <1>2, <2>2, <3>2 DEF SavedPaths, Marked
    <3> QED BY <3>1, <3>2
  <2>5. tx' \in {"rolled_back", "broken"} /\ (tx' = "rolled_back" => lost = {})
    BY <1>2
  <2> QED BY <1>1, <1>3, <2>1, <2>2, <2>3, <2>4, <2>5 DEF MarksAreSaved, Undone
<1>7. OperationsAreDone'
  BY <1>2 DEF OperationsAreDone
<1> QED BY <1>3, <1>4, <1>5, <1>6, <1>7 DEF TaskInv

\* The transaction, whatever it does.
LEMMA ApplyKeeps == ASSUME TaskInv, Apply PROVE TaskInv'
BY PrepareRequestKeeps, SaveSnapshotsKeeps, VerifyOperationKeeps, CommitOperationKeeps,
   CommitFailsKeeps, FinishPatchKeeps, RestoreSnapshotsKeeps DEF Apply, PatchStep

\* What the transaction came to.
LEMMA EndApplyKeeps == ASSUME TaskInv, EndApply PROVE TaskInv'
<1>1. /\ stage = "application" /\ stage \in StageNames
      /\ (tx = "applied" /\ WorkDone) \/ Raise("error")
      /\ UNCHANGED <<patchVars, buildVars, context, told, late>>
      /\ tx \notin Underway
  BY DEF EndApply, At, StageNames, Stages, Underway
<1> QED BY <1>1, RaiseKeeps, WorkDoneKeeps

\* Some result of a sequence is this one.
SomeIs(s, one) == \E i \in DOMAIN s : s[i] = one

\* What follows a command that is not run.
LEMMA SkipIs ==
    ASSUME NEW s \in Seq(CommandStatus), Len(s) <= Len(Commands)
    PROVE  /\ Skip(s) \in Seq(CommandStatus) /\ Len(Skip(s)) = Len(Commands)
           /\ \A is \in CommandStatus \ {"skipped"} : SomeIs(Skip(s), is) <=> SomeIs(s, is)
<1> DEFINE n == Len(Commands) - Len(s)
           rest == [i \in 1 .. n |-> "skipped"]
<1>1. Len(s) \in Nat /\ Len(Commands) \in Nat /\ n \in Nat
  BY CommandsAssumption
<1>2. rest \in Seq(CommandStatus) /\ Len(rest) = n /\ \A i \in 1 .. n : rest[i] = "skipped"
  BY <1>1 DEF CommandStatus
<1>3. Skip(s) = s \o rest
  BY DEF Skip
<1> HIDE DEF n, rest
<1>4. /\ s \o rest \in Seq(CommandStatus) /\ Len(s \o rest) = Len(s) + n
      /\ \A i \in 1 .. Len(s) + n : (s \o rest)[i] = IF i <= Len(s) THEN s[i] ELSE rest[i - Len(s)]
  BY <1>1, <1>2, ConcatProperties
<1>5. Len(s) + n = Len(Commands)
  BY <1>1 DEF n
<1>6. DOMAIN s = 1 .. Len(s) /\ DOMAIN (s \o rest) = 1 .. Len(s) + n
  BY <1>4
<1>7. ASSUME NEW is \in CommandStatus \ {"skipped"}
      PROVE  SomeIs(s \o rest, is) <=> SomeIs(s, is)
  <2>1. ASSUME NEW i \in 1 .. Len(s) + n, (s \o rest)[i] = is
        PROVE  i \in 1 .. Len(s) /\ s[i] = is
    <3>1. CASE i <= Len(s)
      BY <1>1, <1>4, <2>1, <3>1
    <3>2. CASE ~(i <= Len(s))
      <4>1. i - Len(s) \in 1 .. n
        BY <1>1, <3>2
      <4>2. (s \o rest)[i] = "skipped"
        BY <1>2, <1>4, <3>2, <4>1
      <4> QED BY <2>1, <4>2
    <3> QED BY <3>1, <3>2
  <2>2. ASSUME NEW i \in 1 .. Len(s), s[i] = is
        PROVE  i \in 1 .. Len(s) + n /\ (s \o rest)[i] = is
    <3>1. i \in 1 .. Len(s) + n /\ i <= Len(s)
      BY <1>1
    <3> QED BY <1>4, <2>2, <3>1
  <2> QED BY <1>6, <2>1, <2>2 DEF SomeIs
<1> QED BY <1>3, <1>4, <1>5, <1>7

\* One more result.
LEMMA ResultAppended ==
    ASSUME NEW s \in Seq(CommandStatus), NEW is \in CommandStatus
    PROVE  /\ Append(s, is) \in Seq(CommandStatus) /\ Len(Append(s, is)) = Len(s) + 1
           /\ \A other : SomeIs(Append(s, is), other) <=> SomeIs(s, other) \/ other = is
<1>1. /\ Append(s, is) \in Seq(CommandStatus) /\ Len(Append(s, is)) = Len(s) + 1
      /\ Len(s) \in Nat /\ DOMAIN s = 1 .. Len(s) /\ DOMAIN Append(s, is) = 1 .. Len(s) + 1
      /\ \A i \in 1 .. Len(s) : Append(s, is)[i] = s[i]
      /\ Append(s, is)[Len(s) + 1] = is
  OBVIOUS
<1>2. \A i \in 1 .. Len(s) + 1 : i \in 1 .. Len(s) \/ i = Len(s) + 1
  BY <1>1
<1>3. 1 .. Len(s) \subseteq 1 .. Len(s) + 1 /\ Len(s) + 1 \in 1 .. Len(s) + 1
  BY <1>1
<1> QED BY <1>1, <1>2, <1>3 DEF SomeIs

\* The results so far are honest: what was skipped was so after a cancellation or a
\* failure, and nothing was only shown unless the task is a dry run.
Honest(s) ==
    /\ SomeIs(s, "skipped") => told \/ \E e \in Failures : SomeIs(s, e)
    /\ SomeIs(s, "dry_run") => request.dry

LEMMA HonestIs == BuildIsHonest => Honest(results)
BY DEF BuildIsHonest, Honest, SomeIs

\* Steps of a build.
LEMMA BuildMoves ==
    ASSUME TaskInv, stage = "build", ~worked,
           UNCHANGED <<patchVars, context, control, told, late>>,
           results' \in Seq(CommandStatus), Len(results') <= Len(Commands),
           process' \in {"none", "starting", "running", "raised"},
           process' \in {"starting", "running"} => Len(results') < Len(Commands),
           Honest(results')
    PROVE  TaskInv'
<1>1. UNCHANGED <<request, plan, listed, backup, backupAt, stage, worked, status, attempted>>
  BY DEF context, control
<1>2. status = "running"
  BY DEF TaskInv, StagesFollow
<1>3. TransactionFollows' /\ MarksAreSaved' /\ OperationsAreDone'
  BY <1>1, FilesLeftAlone
<1>4. TaskTyped'
  BY <1>1 DEF TaskInv, TaskTyped, PipelineTypeOK, patchVars
<1>5. StagesFollow'
  BY <1>1, <1>2 DEF TaskInv, StagesFollow, patchVars
<1>6. PlanIsFollowed'
  <2>1. BackedUp' = BackedUp
    BY <1>1 DEF BackedUp, ToBackUp
  <2> QED BY <1>1, <2>1 DEF TaskInv, PlanIsFollowed, patchVars, Sources
<1>7. BuildIsHonest'
  <2>1. \A i \in DOMAIN results' : results'[i] = "dry_run" => request'.dry
    BY <1>1 DEF Honest, SomeIs
  <2>2. (\E i \in DOMAIN results' : results'[i] = "skipped")
           => told' \/ \E i \in DOMAIN results' : results'[i] \in Failures
    BY DEF Honest, SomeIs
  <2>3. process' \in {"starting", "running"} => InSequence'
    BY DEF InSequence
  <2> QED BY <1>1, <1>2, <2>1, <2>2, <2>3 DEF BuildIsHonest
<1> QED BY <1>3, <1>4, <1>5, <1>6, <1>7 DEF TaskInv

\* What is recorded of a command.
LEMMA RecordKeeps ==
    ASSUME TaskInv, stage = "build", ~worked,
           UNCHANGED <<patchVars, context, control, told, late>>,
           Len(results) < Len(Commands), NEW is \in CommandStatus \ {"skipped"},
           is = "dry_run" => request.dry, NEW stop, Record(is, stop)
    PROVE  TaskInv'
<1> DEFINE new == Append(results, is)
<1>1. results \in Seq(CommandStatus) /\ Honest(results) /\ Len(results) \in Nat
      /\ Len(Commands) \in Nat
  BY HonestIs, CommandsAssumption DEF TaskInv, TaskTyped, PipelineTypeOK
<1>2. /\ new \in Seq(CommandStatus) /\ Len(new) <= Len(Commands)
      /\ \A other : SomeIs(new, other) <=> SomeIs(results, other) \/ other = is
  BY <1>1, ResultAppended
<1>3. Honest(new)
  BY <1>1, <1>2 DEF Honest
<1>4. process' = "none" /\ (results' = new \/ (results' = Skip(new) /\ is \in Failures))
  BY DEF Record
<1> HIDE DEF new
<1>5. CASE results' = new
  BY <1>2, <1>3, <1>4, <1>5, BuildMoves
<1>6. CASE results' = Skip(new) /\ is \in Failures
  <2>1. /\ Skip(new) \in Seq(CommandStatus) /\ Len(Skip(new)) <= Len(Commands)
        /\ \A other \in CommandStatus \ {"skipped"} :
              SomeIs(Skip(new), other) <=> SomeIs(new, other)
    BY <1>1, <1>2, SkipIs
  <2>2. SomeIs(Skip(new), is)
    BY <1>2, <2>1
  <2>3. SomeIs(Skip(new), "dry_run") => request.dry
    BY <1>3, <2>1 DEF Honest, CommandStatus
  <2>4. Honest(Skip(new))
    BY <1>6, <2>2, <2>3 DEF Honest
  <2> QED BY <1>4, <1>6, <2>1, <2>4, BuildMoves
<1> QED BY <1>4, <1>5, <1>6

\* A step of the commands.
LEMMA BuildStepKeeps == ASSUME TaskInv, BuildStep PROVE TaskInv'
<1>1. /\ stage = "build" /\ ~worked /\ UNCHANGED <<patchVars, context, control, told, late>>
  BY DEF BuildStep, At
<1>2. /\ results \in Seq(CommandStatus) /\ Honest(results) /\ Len(results) \in Nat
      /\ Len(results) <= Len(Commands) /\ Len(Commands) \in Nat
      /\ process \in {"starting", "running"} => Len(results) < Len(Commands)
  BY HonestIs, CommandsAssumption DEF TaskInv, TaskTyped, PipelineTypeOK, BuildIsHonest, InSequence
<1>3. CASE NextCommand(told)
  <2>1. CASE told /\ results' = Skip(results) /\ process' = process
    <3>1. /\ Skip(results) \in Seq(CommandStatus) /\ Len(Skip(results)) <= Len(Commands)
          /\ \A is \in CommandStatus \ {"skipped"} :
                SomeIs(Skip(results), is) <=> SomeIs(results, is)
      BY <1>2, SkipIs
    <3>2. Honest(Skip(results))
      <4>1. SomeIs(Skip(results), "dry_run") => SomeIs(results, "dry_run")
        BY <3>1 DEF CommandStatus
      <4> QED BY <1>2, <2>1, <4>1 DEF Honest
    <3>3. process' = "none"
      BY <1>3, <2>1 DEF NextCommand
    <3> QED BY <1>1, <2>1, <3>1, <3>2, <3>3, BuildMoves
  <2>2. CASE process' = "starting" /\ results' = results
    <3>1. Len(results) < Len(Commands)
      BY <1>3 DEF NextCommand, InSequence
    <3> QED BY <1>1, <1>2, <2>2, <3>1, BuildMoves
  <2> QED BY <1>3, <2>1, <2>2 DEF NextCommand
<1>4. CASE StartCommand(told, request.dry, request.stop)
  <2>1. process = "starting"
    BY <1>4 DEF StartCommand
  <2>2. CASE process' \in {"raised", "running"} /\ results' = results
    BY <1>1, <1>2, <2>1, <2>2, BuildMoves
  <2>3. CASE Record("error", request.stop)
    BY <1>1, <1>2, <2>1, <2>3, RecordKeeps DEF CommandStatus, Failures
  <2>4. CASE request.dry /\ Record("dry_run", request.stop)
    BY <1>1, <1>2, <2>1, <2>4, RecordKeeps DEF CommandStatus
  <2> QED BY <1>4, <2>2, <2>3, <2>4 DEF StartCommand
<1>5. CASE EndCommand(told, request.stop)
  <2>1. PICK is \in {"succeeded", "failed", "timed_out", "cancelled"} : Record(is, request.stop)
    BY <1>5 DEF EndCommand
  <2>2. process = "running" /\ is \in CommandStatus \ {"skipped"} /\ is # "dry_run"
    BY <1>5 DEF EndCommand, CommandStatus, Failures
  <2> QED BY <1>1, <1>2, <2>1, <2>2, RecordKeeps
<1> QED BY <1>3, <1>4, <1>5 DEF BuildStep

\* No build, and its beginning.
LEMMA SkipBuildKeeps == ASSUME TaskInv, SkipBuild PROVE TaskInv'
<1>1. stage = "build" /\ stage \in StageNames /\ request.build # "required"
  BY DEF SkipBuild, At, StageNames, Stages
<1> QED BY <1>1, WorkDoneKeeps DEF SkipBuild
LEMMA BeginBuildKeeps == ASSUME TaskInv, BeginBuild PROVE TaskInv'
<1>1. /\ stage = "build" /\ ~worked /\ process' = "none" /\ results' = results
      /\ UNCHANGED <<patchVars, context, control, told, late>>
  BY DEF BeginBuild, Works, At
<1>2. results \in Seq(CommandStatus) /\ Len(results) <= Len(Commands) /\ Honest(results)
  BY HonestIs DEF TaskInv, TaskTyped, PipelineTypeOK
<1> QED BY <1>1, <1>2, BuildMoves

\* The end of the build: a sequence without a failure has all its commands.
LEMMA EndBuildKeeps == ASSUME TaskInv, EndBuild PROVE TaskInv'
<1>1. /\ stage = "build" /\ stage \in StageNames
      /\ UNCHANGED <<patchVars, buildVars, context, told, late>>
  BY DEF EndBuild, At, StageNames, Stages
<1>2. CASE Raise("error")
  BY <1>1, <1>2, RaiseKeeps
<1>3. CASE WorkDone /\ request.build = "optional"
  BY <1>1, <1>3, WorkDoneKeeps
<1>4. CASE WorkDone /\ SequenceEnded /\ SequenceStatus(results) \notin Failures
  <2>1. Len(results) = Len(Commands)
    BY <1>4, CommandsAssumption DEF SequenceEnded, InSequence, TaskInv, TaskTyped, PipelineTypeOK
  <2>2. \A i \in DOMAIN results : results[i] \notin Failures
    <3> SUFFICES ASSUME NEW i \in DOMAIN results, results[i] \in Failures PROVE FALSE
      OBVIOUS
    <3>1. SequenceStatus(results) \in Failures
      BY DEF SequenceStatus, Failures
    <3> QED BY <1>4, <3>1
  <2> QED BY <1>1, <1>4, <2>1, <2>2, WorkDoneKeeps
<1> QED BY <1>2, <1>3, <1>4 DEF EndBuild, Forgiven

\* A rollback that is not attempted.
LEMMA RefuseRollbackKeeps == ASSUME TaskInv, RefuseRollback PROVE TaskInv'
<1>1. /\ stage = "rollback" /\ stage' = "ended" /\ status' = "failed"
      /\ UNCHANGED <<patchVars, buildVars, request, plan, listed, backup, backupAt, worked, attempted,
                     told, late>>
  BY DEF RefuseRollback, Unchanged, context
<1>2. /\ status = "running" /\ ~attempted /\ ~request.dry /\ DOMAIN backup # {}
      /\ BackedUp
  BY <1>1 DEF TaskInv, StagesFollow, PlanIsFollowed
<1>3. TransactionFollows' /\ MarksAreSaved' /\ OperationsAreDone'
  BY <1>1, FilesLeftAlone
<1>4. TaskTyped'
  BY <1>1 DEF TaskInv, TaskTyped, PipelineTypeOK, patchVars, buildVars
<1>5. StagesFollow'
  BY <1>1, <1>2 DEF TaskInv, StagesFollow, patchVars
<1>6. PlanIsFollowed'
  <2>1. BackedUp' = BackedUp
    BY <1>1 DEF BackedUp, ToBackUp
  <2> QED BY <1>1, <1>2, <2>1 DEF TaskInv, PlanIsFollowed, patchVars, Sources
<1>7. BuildIsHonest'
  BY <1>1 DEF TaskInv, BuildIsHonest, buildVars, InSequence, AllPassed
<1> QED BY <1>3, <1>4, <1>5, <1>6, <1>7 DEF TaskInv

\* What the task has touched and the backup does not hold is uncovered.
LEMMA TouchedIsCovered ==
    ASSUME TaskInv, BackedUp
    PROVE  (Touched \cap Paths) \ DOMAIN backup \subseteq Uncovered
<1>1. CASE listed # {}
  <2>1. /\ Sources(patch) \subseteq listed \cup request.targets
        /\ DOMAIN backup = listed /\ ToBackUp = listed
    BY <1>1 DEF TaskInv, PlanIsFollowed, BackedUp, ToBackUp
  <2> QED BY <1>1, <2>1 DEF Touched, Uncovered
<1>2. CASE listed = {}
  BY <1>2 DEF BackedUp, Uncovered
<1> QED BY <1>1, <1>2

\* A rollback.
LEMMA RollBackKeeps == ASSUME TaskInv, RollBack PROVE TaskInv'
<1>1. /\ stage = "rollback" /\ stage' = "ended" /\ attempted' = TRUE
      /\ UNCHANGED <<others, edits, patch, prepared, saved, savedAt, done, tx, buildVars,
                     request, plan, listed, backup, backupAt, worked, told, late>>
  BY DEF RollBack, context
<1>2. PICK part \in SUBSET DOMAIN backup :
         /\ repo' = [p \in Paths |-> IF p \in part THEN backup[p] ELSE repo[p]]
         /\ \/ part = DOMAIN backup /\ status' = "rolled_back"
            \/ status' = "rollback_failed"
  BY DEF RollBack, PutBack, Concluded
<1>3. /\ status = "running" /\ ~attempted /\ ~request.dry /\ DOMAIN backup # {} /\ BackedUp
  BY <1>1 DEF TaskInv, StagesFollow, PlanIsFollowed
<1>4. TaskTyped'
  <2>1. repo \in [Paths -> Contents] /\ backup \in [DOMAIN backup -> Contents]
    BY DEF TaskInv, TaskTyped, PipelineTypeOK
  <2>2. repo' \in [Paths -> Contents]
    BY <1>2, <2>1
  <2> QED BY <1>1, <1>2, <2>2 DEF TaskInv, TaskTyped, PipelineTypeOK, buildVars
<1>5. StagesFollow'
  BY <1>1, <1>2, <1>3 DEF TaskInv, StagesFollow
<1>6. PlanIsFollowed'
  <2>1. BackedUp' = BackedUp
    BY <1>1 DEF BackedUp, ToBackUp
  <2> QED BY <1>1, <1>3, <2>1 DEF TaskInv, PlanIsFollowed, Sources
<1>7. TransactionFollows'
  BY <1>1 DEF TaskInv, TransactionFollows, Current
<1>8. MarksAreSaved'
  <2>1. SavedPaths' = SavedPaths /\ Touched' = Touched /\ Uncovered' = Uncovered
    BY <1>1 DEF SavedPaths, Touched, Uncovered, ToBackUp
  <2>2. Marked' \subseteq Marked \cup DOMAIN backup
    BY <1>1, <1>2 DEF Marked
  <2>3. Marked \subseteq Touched \cup DOMAIN backup
    BY DEF TaskInv, MarksAreSaved
  <2>4. ASSUME status' = "rolled_back", edits = backupAt
        PROVE  Marked' \subseteq Uncovered
    <3>1. part = DOMAIN backup
      BY <1>2, <2>4
    <3>2. \A p \in DOMAIN backup : backup[p] = others[p]
      BY <2>4 DEF TaskInv, PlanIsFollowed
    <3>3. Marked' \cap DOMAIN backup = {}
      BY <1>1, <1>2, <3>1, <3>2 DEF Marked
    <3> QED BY <1>3, <2>2, <2>3, <2>4, <3>3, TouchedIsCovered DEF Marked
  <2> QED BY <1>1, <2>1, <2>2, <2>3, <2>4 DEF TaskInv, MarksAreSaved
<1>9. OperationsAreDone'
  <2>1. tx \notin {"prepared", "saved", "verified"}
    BY <1>1, <1>3 DEF TaskInv, StagesFollow, Underway
  <2> QED BY <1>1, <2>1 DEF TaskInv, OperationsAreDone, Verified
<1>10. BuildIsHonest'
  BY <1>1, <1>2 DEF TaskInv, BuildIsHonest, buildVars, InSequence, AllPassed
<1> QED BY <1>4, <1>5, <1>6, <1>7, <1>8, <1>9, <1>10 DEF TaskInv

\* The surroundings only tell the task to stop, or let its time pass, ...
LEMMA TellKeeps == ASSUME TaskInv, Tell \/ TimeOut PROVE TaskInv'
<1>1. /\ UNCHANGED <<patchVars, buildVars, context, control>>
      /\ UNCHANGED <<request, plan, listed, backup, backupAt, stage, worked, status, attempted>>
      /\ told' \in BOOLEAN /\ late' \in BOOLEAN /\ (told => told')
  BY DEF Tell, TimeOut, context, control, TaskInv, TaskTyped
<1>2. TransactionFollows' /\ MarksAreSaved' /\ OperationsAreDone'
  BY <1>1, FilesLeftAlone
<1>3. TaskTyped'
  BY <1>1 DEF TaskInv, TaskTyped, PipelineTypeOK, patchVars, buildVars
<1>4. StagesFollow'
  BY <1>1 DEF TaskInv, StagesFollow, patchVars, WantsRollback
<1>5. PlanIsFollowed'
  <2>1. BackedUp' = BackedUp
    BY <1>1 DEF BackedUp, ToBackUp
  <2> QED BY <1>1, <2>1 DEF TaskInv, PlanIsFollowed, patchVars, Sources
<1>6. BuildIsHonest'
  BY <1>1 DEF TaskInv, BuildIsHonest, buildVars, InSequence, AllPassed
<1> QED BY <1>2, <1>3, <1>4, <1>5, <1>6 DEF TaskInv

\* ... take or give back the id of a command, ...
LEMMA ClaimCommandKeeps == ASSUME TaskInv, ClaimCommand PROVE TaskInv'
<1>1. /\ UNCHANGED <<patchVars, context, control, told, late, results, process>>
      /\ UNCHANGED <<request, plan, listed, backup, backupAt, stage, worked, status, attempted>>
  BY DEF ClaimCommand, Claim, context, control
<1>2. TransactionFollows' /\ MarksAreSaved' /\ OperationsAreDone'
  BY <1>1, FilesLeftAlone
<1>3. TaskTyped'
  BY <1>1 DEF TaskInv, TaskTyped, PipelineTypeOK, patchVars
<1>4. StagesFollow'
  BY <1>1 DEF TaskInv, StagesFollow, patchVars, WantsRollback
<1>5. PlanIsFollowed'
  <2>1. BackedUp' = BackedUp
    BY <1>1 DEF BackedUp, ToBackUp
  <2> QED BY <1>1, <2>1 DEF TaskInv, PlanIsFollowed, patchVars, Sources
<1>6. BuildIsHonest'
  BY <1>1 DEF TaskInv, BuildIsHonest, InSequence, AllPassed
<1> QED BY <1>2, <1>3, <1>4, <1>5, <1>6 DEF TaskInv

\* ... or edit a file, which from then on is no work of the task.
LEMMA EditFileKeeps == ASSUME TaskInv, EditFile PROVE TaskInv'
<1>1. /\ UNCHANGED <<buildVars, context, control, told, late, patch, prepared, saved, savedAt,
                     done, tx>>
      /\ UNCHANGED <<request, plan, listed, backup, backupAt, stage, worked, status, attempted>>
  BY DEF EditFile, Edit, context, control
<1>2. PICK p \in Paths, c \in Contents :
         /\ edits < MaxEdits /\ edits' = edits + 1
         /\ repo' = [repo EXCEPT ![p] = c] /\ others' = [others EXCEPT ![p] = c]
  BY DEF EditFile, Edit
<1>3. /\ repo \in [Paths -> Contents] /\ others \in [Paths -> Contents]
      /\ edits \in Nat /\ savedAt \in Nat /\ backupAt \in Nat
      /\ savedAt <= edits /\ backupAt <= edits
  BY PatchAssumption DEF TaskInv, TaskTyped, PipelineTypeOK
<1>4. edits' \in 0 .. MaxEdits /\ edits' # savedAt' /\ edits' # backupAt' /\ edits' # 0
      /\ savedAt' <= edits' /\ backupAt' <= edits'
  BY <1>1, <1>2, <1>3, PatchAssumption
<1>5. Marked' \subseteq Marked
  BY <1>2, <1>3 DEF Marked
<1>6. TaskTyped'
  <2>1. repo' \in [Paths -> Contents] /\ others' \in [Paths -> Contents]
    BY <1>2, <1>3
  <2> QED BY <1>1, <1>4, <2>1 DEF TaskInv, TaskTyped, PipelineTypeOK, buildVars
<1>7. StagesFollow'
  BY <1>1 DEF TaskInv, StagesFollow, WantsRollback
<1>8. PlanIsFollowed'
  <2>1. BackedUp' = BackedUp
    BY <1>1 DEF BackedUp, ToBackUp
  <2> QED BY <1>1, <1>4, <2>1 DEF TaskInv, PlanIsFollowed, Sources
<1>9. TransactionFollows'
  BY <1>1 DEF TaskInv, TransactionFollows, Current
<1>10. MarksAreSaved'
  <2>1. SavedPaths' = SavedPaths /\ Touched' = Touched /\ Uncovered' = Uncovered
    BY <1>1 DEF SavedPaths, Touched, Uncovered, ToBackUp
  <2> QED BY <1>1, <1>4, <1>5, <2>1 DEF TaskInv, MarksAreSaved
<1>11. OperationsAreDone'
  BY <1>1, <1>4 DEF OperationsAreDone
<1>12. BuildIsHonest'
  BY <1>1 DEF TaskInv, BuildIsHonest, buildVars, InSequence, AllPassed
<1> QED BY <1>6, <1>7, <1>8, <1>9, <1>10, <1>11, <1>12 DEF TaskInv

\* A task begins with nothing done.
LEMMA TaskInitially == ASSUME PipelineInit PROVE TaskInv
<1>1. PICK fs \in Files : PatchInit(fs)
  BY DEF PipelineInit
<1>2. /\ request \in TaskRequest /\ fs \in [Paths -> Contents]
  BY <1>1, RequestsAssumption, PatchesAssumption DEF PipelineInit
<1>3. /\ repo = fs /\ others = fs /\ edits = 0 /\ patch = <<>> /\ prepared = <<>>
      /\ saved = NothingSaved /\ savedAt = 0 /\ done = 0 /\ tx = "none"
  BY <1>1 DEF PatchInit
<1>4. /\ results = <<>> /\ process = "unbegun" /\ stage = "validation" /\ worked = FALSE
      /\ status = "running" /\ told = FALSE /\ late = FALSE /\ plan = {} /\ listed = {} /\ backup = NoBackup
      /\ backupAt = 0 /\ attempted = FALSE
  BY DEF PipelineInit, BuildInit
<1>5. DOMAIN backup = {} /\ backup \in [DOMAIN backup -> Contents]
  BY <1>4 DEF NoBackup
<1>6. TaskTyped
  <2>1. saved \in [Paths -> Contents \cup {Unsaved}]
    BY <1>3 DEF NothingSaved
  <2>2. 0 \in 0 .. MaxEdits
    BY PatchAssumption
  <2>3. stage \in StageNames
    BY <1>4 DEF StageNames, Stages
  <2>4. Len(Commands) \in Nat
    BY CommandsAssumption
  <2>5. /\ patch \in Seq(Operation) /\ results \in Seq(CommandStatus)
        /\ prepared \in Seq(Change) /\ DOMAIN prepared = {} /\ done \in 0 .. Len(prepared)
        /\ Len(results) <= Len(Commands)
    BY <1>3, <1>4, <2>4
  <2>6. PipelineTypeOK
    BY <1>2, <1>3, <1>4, <1>5, <2>1, <2>2, <2>3, <2>5 DEF PipelineTypeOK
  <2>7. savedAt <= edits /\ backupAt <= edits /\ savedAt \in Nat /\ backupAt \in Nat
    BY <1>3, <1>4
  <2> QED BY <1>2, <1>4, <1>5, <2>5, <2>6, <2>7 DEF TaskTyped
<1>7. StagesFollow
  BY <1>3, <1>4 DEF StagesFollow, Underway
<1>8. PlanIsFollowed
  BY <1>3, <1>4, <1>5 DEF PlanIsFollowed
<1>9. TransactionFollows
  BY <1>3 DEF TransactionFollows, InOrder
<1>10. MarksAreSaved
  <2>1. SavedPaths = {} /\ Marked = {}
    BY <1>3 DEF SavedPaths, Marked, NothingSaved
  <2> QED BY <1>3, <1>4, <2>1 DEF MarksAreSaved
<1>11. OperationsAreDone
  BY <1>3 DEF OperationsAreDone
<1>12. BuildIsHonest
  BY <1>4 DEF BuildIsHonest
<1> QED BY <1>6, <1>7, <1>8, <1>9, <1>10, <1>11, <1>12 DEF TaskInv

\* Whatever happens next.
LEMMA TaskSteps == ASSUME TaskInv, [PipelineNext]_pipelineVars PROVE TaskInv'
<1>1. CASE UNCHANGED pipelineVars
  <2>1. UNCHANGED <<patchVars, buildVars, context, control, told, late, request, plan, listed, backup,
                    backupAt, stage, worked, status, attempted>>
    BY <1>1 DEF pipelineVars, context, control
  <2>2. TransactionFollows' /\ MarksAreSaved' /\ OperationsAreDone'
    BY <2>1, FilesLeftAlone
  <2>3. TaskTyped'
    BY <2>1 DEF TaskInv, TaskTyped, PipelineTypeOK, patchVars, buildVars
  <2>4. StagesFollow'
    BY <2>1 DEF TaskInv, StagesFollow, patchVars, WantsRollback
  <2>5. PlanIsFollowed'
    <3>1. BackedUp' = BackedUp
      BY <2>1 DEF BackedUp, ToBackUp
    <3> QED BY <2>1, <3>1 DEF TaskInv, PlanIsFollowed, patchVars, Sources
  <2>6. BuildIsHonest'
    BY <2>1 DEF TaskInv, BuildIsHonest, buildVars, InSequence, AllPassed
  <2> QED BY <2>2, <2>3, <2>4, <2>5, <2>6 DEF TaskInv
<1>2. CASE PipelineStep
  BY <1>2, InterruptKeeps, NextStageKeeps, StudyKeeps, MakePlanKeeps, MakeBackupKeeps,
     GeneratePatchKeeps, CheckPatchKeeps, BeginApplyKeeps, ApplyKeeps, EndApplyKeeps,
     SkipBuildKeeps, BeginBuildKeeps, BuildStepKeeps, EndBuildKeeps, RefuseRollbackKeeps,
     RollBackKeeps DEF PipelineStep
<1>3. CASE Surroundings
  BY <1>3, TellKeeps, EditFileKeeps, ClaimCommandKeeps DEF Surroundings
<1> QED BY <1>1, <1>2, <1>3 DEF PipelineNext

\* What the invariant says of the files and of the status.
LEMMA TaskIsTrue == ASSUME TaskInv PROVE TaskTellsTheTruth
<1>1. PipelineTypeOK
  BY DEF TaskInv, TaskTyped
<1>2. CrashIsRestorable
  <2>1. SUFFICES ASSUME request.backup = "required", edits = backupAt,
                        NEW p \in Marked \ Uncovered
                 PROVE  p \in DOMAIN backup /\ backup[p] = others[p]
    BY DEF CrashIsRestorable
  <2>2. tx \notin Undone \/ attempted
    BY <2>1 DEF TaskInv, MarksAreSaved
  <2>3. BackedUp
    <3>1. CASE attempted
      BY <3>1 DEF TaskInv, StagesFollow, PlanIsFollowed
    <3>2. CASE tx \notin Undone
      BY <2>1, <3>2 DEF TaskInv, StagesFollow, PlanIsFollowed, Undone
    <3> QED BY <2>2, <3>1, <3>2
  <2>4. p \in Touched \cup DOMAIN backup
    BY <2>1 DEF TaskInv, MarksAreSaved
  <2>5. p \in DOMAIN backup
    BY <2>1, <2>3, <2>4, TouchedIsCovered DEF Marked
  <2> QED BY <2>1, <2>5 DEF TaskInv, PlanIsFollowed
<1>3. FailedPatchRestores
  BY DEF TaskInv, MarksAreSaved, Undone, FailedPatchRestores
<1>4. AppliedOverPrepared
  <2>1. SUFFICES ASSUME tx = "applied", edits = savedAt, NEW i \in DOMAIN prepared
                 PROVE  Verified(prepared[i])
    BY DEF AppliedOverPrepared, Verified
  <2>2. i <= done
    BY <2>1 DEF TaskInv, TransactionFollows, TaskTyped
  <2> QED BY <2>1, <2>2 DEF TaskInv, OperationsAreDone
<1>5. StatusTellsFiles
  <2>1. request.dry => Marked = {}
    BY DEF TaskInv, StagesFollow, MarksAreSaved, Undone
  <2>2. ASSUME status = "succeeded", edits = 0, NEW i \in DOMAIN prepared
        PROVE  InPlace(prepared[i])
    <3>1. tx = "applied" /\ ~attempted
      BY <2>2 DEF TaskInv, StagesFollow
    <3>2. i <= done
      BY <2>2, <3>1 DEF TaskInv, TransactionFollows, TaskTyped
    <3>3. savedAt = 0
      BY <2>2 DEF TaskInv, TaskTyped
    <3> QED BY <2>2, <3>1, <3>2, <3>3 DEF TaskInv, OperationsAreDone
  <2>3. ~(status \in {"cancelled", "timed_out"} /\ WantsRollback("any"))
    BY DEF TaskInv, StagesFollow
  <2>4. status = "rolled_back" /\ edits = backupAt => Marked \subseteq Uncovered
    BY DEF TaskInv, MarksAreSaved
  <2> QED BY <2>1, <2>2, <2>3, <2>4 DEF StatusTellsFiles, InPlace
<1>6. SucceededIsBuilt
  BY DEF TaskInv, BuildIsHonest, AllPassed, SucceededIsBuilt
<1> QED BY <1>1, <1>2, <1>3, <1>4, <1>5, <1>6 DEF TaskTellsTheTruth

\* Whatever a task of Code Builder V1 comes to, and however others edit its
\* files, claim its commands or interrupt it, its status is true of the files
\* and of its build, a failed transaction left nothing behind, and at every
\* step a required backup holds the originals of what the task has changed.
THEOREM TasksAreTruthful == PipelineSpec => []TaskTellsTheTruth
<1>1. PipelineInit => TaskInv
  BY TaskInitially
<1>2. TaskInv /\ [PipelineNext]_pipelineVars => TaskInv'
  BY TaskSteps
<1>3. TaskInv => TaskTellsTheTruth
  BY TaskIsTrue
<1> QED BY <1>1, <1>2, <1>3, PTL DEF PipelineSpec

(* ------------------------ the files a model is shown ----------------------- *)

LEMMA HasLeast ==
    ASSUME NEW S \in SUBSET Nat, S # {}
    PROVE  \E n \in S : \A k \in S : n <= k
<1>1. PICK n \in S : TRUE
    OBVIOUS
<1> DEFINE U == 0 .. n
           Initials == {0 .. m : m \in {k \in S : k <= n}}
<1>2. n \in Nat /\ IsFiniteSet(U)
    BY <1>1, FS_Interval
<1>3. Initials \subseteq FiniteSubsetsOf(U) /\ Initials # {}
  <2>1. ASSUME NEW m \in S, m <= n PROVE 0 .. m \in FiniteSubsetsOf(U)
    <3>1. 0 .. m \in SUBSET U
      BY <1>2, <2>1
    <3> QED BY <3>1, <1>2, FS_FiniteSubsetsOfFinite
  <2>2. n <= n
    BY <1>2
  <2> QED BY <1>1, <2>1, <2>2
<1>4. IsWellFoundedOn(StrictSubsetOrdering(U), FiniteSubsetsOf(U))
    BY <1>2, FS_StrictSubsetOrderingWellFounded
<1>5. PICK x \in Initials : \A y \in Initials : ~ (<<y, x>> \in StrictSubsetOrdering(U))
  <2> HIDE DEF U, Initials
  <2> QED BY <1>3, <1>4, WFMin
<1>6. PICK m \in S : m <= n /\ x = 0 .. m
    BY <1>5
<1>7. ASSUME NEW k \in S PROVE m <= k
  <2>1. SUFFICES ASSUME k < m PROVE FALSE
    OBVIOUS
  <2>2. k <= n
    BY <1>2, <1>6, <2>1
  <2>3. 0 .. k \in Initials
    BY <2>2
  <2>4. 0 .. k \subseteq 0 .. m /\ m \in 0 .. m /\ m \notin 0 .. k /\ 0 .. m \in SUBSET U
    BY <1>2, <1>6, <2>1
  <2>5. <<0 .. k, 0 .. m>> \in StrictSubsetOrdering(U)
    BY <2>4 DEF StrictSubsetOrdering
  <2> QED BY <1>5, <1>6, <2>3, <2>5
<1> QED BY <1>7

LEMMA HasMinimum ==
    ASSUME NEW S \in SUBSET Nat, S # {}
    PROVE  Min(S) \in S
BY HasLeast DEF Min

(* ------------------------- context of a plan ------------------------- *)

\* f sums up the first numbers of a sequence.
SumsUp(f, s) == f = [n \in 0 .. Len(s) |-> IF n = 0 THEN 0 ELSE f[n - 1] + s[n]]
SumUp(s) == CHOOSE f : SumsUp(f, s)

\* There is such a function: a shortest sequence without one would be one longer than
\* a sequence that has one.
LEMMA SumsExist ==
    ASSUME NEW s \in Seq(Nat)
    PROVE  \E f : SumsUp(f, s)
<1> DEFINE Without == {n \in Nat : \E t \in Seq(Nat) : Len(t) = n /\ ~ \E f : SumsUp(f, t)}
<1>1. SUFFICES Without = {}
    BY LenProperties DEF Without
<1>2. SUFFICES ASSUME Without # {} PROVE FALSE
    OBVIOUS
<1>3. Without \in SUBSET Nat
    OBVIOUS
<1>4. PICK n \in Without : \A m \in Without : n <= m
    BY <1>2, <1>3, HasLeast
<1>5. PICK t \in Seq(Nat) : Len(t) = n /\ ~ \E f : SumsUp(f, t)
    BY <1>4
<1>6. CASE n = 0
  <2> DEFINE f == [m \in 0 .. 0 |-> 0]
  <2>1. f = [m \in 0 .. Len(t) |-> IF m = 0 THEN 0 ELSE f[m - 1] + t[m]]
      BY <1>5, <1>6
  <2>2. SumsUp(f, t)
      BY <2>1 DEF SumsUp
  <2> QED BY <1>5, <2>2
<1>7. CASE n # 0
  <2> DEFINE u == SubSeq(t, 1, n - 1)
  <2>1. n \in Nat /\ n - 1 \in Nat
      BY <1>4, <1>7
  <2>2. u \in Seq(Nat) /\ Len(u) = n - 1 /\ \A m \in 1 .. n - 1 : u[m] = t[m]
      BY <1>5, <2>1
  <2>3. n - 1 \notin Without
      BY <1>4, <2>1
  <2>4. PICK g : SumsUp(g, u)
      BY <2>1, <2>2, <2>3
  <2>5. g = [m \in 0 .. n - 1 |-> IF m = 0 THEN 0 ELSE g[m - 1] + u[m]]
      BY <2>2, <2>4 DEF SumsUp
  <2> DEFINE f == [m \in 0 .. n |-> IF m = n THEN g[n - 1] + t[n] ELSE g[m]]
  <2>6. ASSUME NEW m \in 0 .. n
        PROVE  f[m] = IF m = 0 THEN 0 ELSE f[m - 1] + t[m]
    <3>1. CASE m = n
        BY <2>1, <2>6, <3>1, <1>7
    <3>2. CASE m # n
      <4>1. m \in 0 .. n - 1 /\ f[m] = g[m]
          BY <2>1, <2>6, <3>2
      <4>2. g[m] = IF m = 0 THEN 0 ELSE g[m - 1] + u[m]
          BY <2>5, <4>1
      <4>3. CASE m = 0
          BY <4>1, <4>2, <4>3
      <4>4. CASE m # 0
        <5>1. m - 1 \in 0 .. n /\ m - 1 # n /\ m \in 1 .. n - 1
            BY <2>1, <4>1, <4>4
        <5>2. f[m - 1] = g[m - 1] /\ u[m] = t[m]
            BY <2>2, <5>1
        <5> QED BY <4>1, <4>2, <4>4, <5>2
      <4> QED BY <4>3, <4>4
    <3> QED BY <3>1, <3>2
  <2>7. SumsUp(f, t)
    <3> DEFINE h == [m \in 0 .. n |-> IF m = 0 THEN 0 ELSE f[m - 1] + t[m]]
    <3>1. \A m \in 0 .. n : f[m] = h[m]
      <4> HIDE DEF f
      <4> QED BY <2>6
    <3>2. f = h
      <4>1. f = [m \in 0 .. n |-> f[m]]
          OBVIOUS
      <4>2. h = [m \in 0 .. n |-> h[m]]
          OBVIOUS
      <4> HIDE DEF f, h
      <4> QED BY <3>1, <4>1, <4>2
    <3> HIDE DEF f
    <3> QED BY <3>2, <1>5 DEF SumsUp
  <2> QED BY <1>5, <2>7
<1> QED BY <1>6, <1>7

\* There is only one: the first place where two differ would have no reason.
LEMMA SumsAgree ==
    ASSUME NEW s \in Seq(Nat), NEW t \in Seq(Nat), NEW f, NEW g, SumsUp(f, s), SumsUp(g, t),
           Len(s) <= Len(t), \A n \in 1 .. Len(s) : s[n] = t[n]
    PROVE  \A n \in 0 .. Len(s) : f[n] = g[n]
<1> DEFINE Differ == {n \in 0 .. Len(s) : f[n] # g[n]}
<1>1. SUFFICES ASSUME Differ # {} PROVE FALSE
    OBVIOUS
<1>2. Len(s) \in Nat /\ Len(t) \in Nat
    OBVIOUS
<1>3. Differ \in SUBSET Nat
    BY <1>2
<1>4. PICK n \in Differ : \A m \in Differ : n <= m
  <2> HIDE DEF Differ
  <2> QED BY <1>1, <1>3, HasLeast
<1>5. n \in 0 .. Len(s) /\ n \in 0 .. Len(t) /\ f[n] # g[n]
    BY <1>2, <1>4
<1>6. /\ f[n] = IF n = 0 THEN 0 ELSE f[n - 1] + s[n]
      /\ g[n] = IF n = 0 THEN 0 ELSE g[n - 1] + t[n]
    BY <1>5 DEF SumsUp
<1>7. n # 0
    BY <1>5, <1>6
<1>8. n \in 1 .. Len(s) /\ n - 1 \in 0 .. Len(s) /\ n - 1 < n /\ n \in Nat
    BY <1>2, <1>5, <1>7
<1>9. f[n - 1] = g[n - 1]
  <2>1. n - 1 \notin Differ
    <3> HIDE DEF Differ
    <3> QED BY <1>4, <1>8
  <2> QED BY <1>8, <2>1
<1> QED BY <1>5, <1>6, <1>7, <1>8, <1>9

\* What the entries take grows by what one more entry takes.
LEMMA TokensOfNothing == TokensOf(<<>>) = 0
<1>1. <<>> \in Seq(Nat) /\ Len(<<>>) = 0
    OBVIOUS
<1>2. SumsUp(SumUp(<<>>), <<>>)
    BY <1>1, SumsExist DEF SumUp
<1>3. TokensOf(<<>>) = SumUp(<<>>)[Len(<<>>)]
    BY DEF TokensOf, SumUp, SumsUp
<1>4. SumUp(<<>>)[0] = 0
    BY <1>1, <1>2 DEF SumsUp
<1> QED BY <1>1, <1>3, <1>4

LEMMA TokensAreNat ==
    ASSUME NEW s \in Seq(Nat)
    PROVE  TokensOf(s) \in Nat
<1> DEFINE f == SumUp(s)
           Others == {n \in 0 .. Len(s) : f[n] \notin Nat}
<1>1. SumsUp(f, s) /\ TokensOf(s) = f[Len(s)]
    BY SumsExist DEF SumUp, TokensOf, SumsUp
<1> HIDE DEF f
<1>2. Len(s) \in Nat
    OBVIOUS
<1>3. SUFFICES ASSUME Others # {} PROVE FALSE
    BY <1>1, <1>2
<1>4. Others \in SUBSET Nat
    BY <1>2
<1>5. PICK n \in Others : \A m \in Others : n <= m
  <2> HIDE DEF Others
  <2> QED BY <1>3, <1>4, HasLeast
<1>6. n \in 0 .. Len(s) /\ f[n] \notin Nat
    BY <1>5
<1>7. f[n] = IF n = 0 THEN 0 ELSE f[n - 1] + s[n]
    BY <1>1, <1>6 DEF SumsUp
<1>8. n # 0
    BY <1>6, <1>7
<1>9. n \in 1 .. Len(s) /\ n - 1 \in 0 .. Len(s) /\ n - 1 < n /\ s[n] \in Nat
    BY <1>2, <1>6, <1>8
<1>10. f[n - 1] \in Nat
  <2>1. n - 1 \notin Others
    <3> HIDE DEF Others
    <3> QED BY <1>5, <1>9
  <2> QED BY <1>9, <2>1
<1> QED BY <1>6, <1>7, <1>8, <1>9, <1>10

LEMMA TokensOfOneMore ==
    ASSUME NEW s \in Seq(Nat), NEW x \in Nat
    PROVE  TokensOf(Append(s, x)) = TokensOf(s) + x
<1> DEFINE t == Append(s, x)
<1>1. t \in Seq(Nat) /\ Len(t) = Len(s) + 1 /\ Len(s) \in Nat /\ t[Len(s) + 1] = x
      /\ \A n \in 1 .. Len(s) : s[n] = t[n]
    OBVIOUS
<1>2. SumsUp(SumUp(s), s) /\ SumsUp(SumUp(t), t)
  <2> HIDE DEF t
  <2> QED BY <1>1, SumsExist DEF SumUp
<1>3. TokensOf(s) = SumUp(s)[Len(s)] /\ TokensOf(t) = SumUp(t)[Len(t)]
  <2> HIDE DEF t
  <2> QED BY DEF TokensOf, SumUp, SumsUp
<1>4. SumUp(s)[Len(s)] = SumUp(t)[Len(s)]
  <2> HIDE DEF t
  <2>1. Len(s) <= Len(t) /\ Len(s) \in 0 .. Len(s)
      BY <1>1
  <2> QED BY <1>1, <1>2, <2>1, SumsAgree
<1>5. SumUp(t)[Len(t)] = SumUp(t)[Len(t) - 1] + t[Len(t)]
  <2> HIDE DEF t
  <2>1. Len(t) \in 0 .. Len(t) /\ Len(t) # 0
      BY <1>1
  <2> QED BY <1>2, <2>1 DEF SumsUp
<1>6. Len(t) - 1 = Len(s)
    BY <1>1
<1> HIDE DEF t
<1> QED BY <1>1, <1>3, <1>4, <1>5, <1>6 DEF t

\* The choice: what was visited is selected, what was not brought in was visited, and
\* what was visited is more relevant than what was not.
ContextTyped ==
    /\ readable \in SUBSET SourceFiles /\ visit \in SUBSET readable
    /\ related \in SUBSET SourceFiles /\ selected \in Seq(readable)
    /\ expanded \in SUBSET readable /\ included \in Seq(readable) /\ tokens \in Seq(Nat)
    /\ budgeting \in BOOLEAN /\ finished \in BOOLEAN
Selection ==
    /\ readable \ visit \subseteq ToSet(selected)
    /\ ToSet(selected) \subseteq (readable \ visit) \cup expanded
    /\ \A f \in visit, g \in readable \ visit : MoreRelevant(g, f)
    /\ Cardinality(ToSet(selected)) = Len(selected)
    /\ Len(selected) <= MaxSelected /\ Cardinality(expanded) <= MaxExpanded
FirstIsBest ==
    /\ selected = <<>> => visit = readable /\ expanded = {} /\ related = {}
    /\ selected # <<>> =>
          \A f \in readable \ {selected[1]} : MoreRelevant(selected[1], f)
BudgetFits ==
    /\ Len(tokens) = Len(included) /\ Len(included) <= Len(selected)
    /\ \A i \in 1 .. Len(included) : included[i] = selected[i]
    /\ Len(included) > 1 => TokensOf(tokens) <= TokenBudget
    /\ ~ budgeting => included = <<>> /\ ~ finished
    /\ budgeting => related = {} /\ (readable # {} => selected # <<>>)
    /\ finished /\ selected # <<>> => included # <<>>
ContextInv == ContextTyped /\ Selection /\ FirstIsBest /\ BudgetFits

LEMMA ContextBegins == ContextInit => ContextInv
<1> SUFFICES ASSUME ContextInit PROVE ContextInv
    OBVIOUS
<1>1. /\ readable \in SUBSET SourceFiles /\ visit = readable /\ related = {}
      /\ selected = <<>> /\ expanded = {} /\ budgeting = FALSE
      /\ included = <<>> /\ tokens = <<>> /\ finished = FALSE
    BY DEF ContextInit
<1>2. ContextTyped
  <2>1. <<>> \in Seq(readable) /\ <<>> \in Seq(Nat)
      OBVIOUS
  <2>2. selected \in Seq(readable) /\ included \in Seq(readable) /\ tokens \in Seq(Nat)
      BY <1>1, <2>1
  <2> QED BY <1>1, <2>2 DEF ContextTyped
<1>3. ToSet(selected) = {} /\ Cardinality(ToSet(selected)) = 0 /\ Cardinality(expanded) = 0
    BY <1>1, FS_EmptySet DEF ToSet
<1>4. Selection
    BY <1>1, <1>3, PlanContextAssumption DEF Selection
<1>5. FirstIsBest
    BY <1>1 DEF FirstIsBest
<1>6. BudgetFits
    BY <1>1 DEF BudgetFits
<1> QED BY <1>2, <1>4, <1>5, <1>6 DEF ContextInv

\* What one more selected file makes of the selection.
LEMMA OneMoreSelected ==
    ASSUME ContextInv, NEW c \in readable, c \notin ToSet(selected), Len(selected) < MaxSelected
    PROVE  LET s == Append(selected, c)
           IN /\ s \in Seq(readable) /\ Len(s) = Len(selected) + 1 /\ Len(s) <= MaxSelected
              /\ ToSet(s) = ToSet(selected) \cup {c}
              /\ Cardinality(ToSet(s)) = Len(s) /\ s # <<>>
              /\ \A i \in 1 .. Len(selected) : s[i] = selected[i]
              /\ selected = <<>> => s[1] = c
              /\ selected # <<>> => s[1] = selected[1]
<1> DEFINE s == Append(selected, c)
<1>1. selected \in Seq(readable) /\ Len(selected) \in Nat /\ MaxSelected \in Nat
      /\ readable \subseteq SourceFiles
    BY PlanContextAssumption DEF ContextInv, ContextTyped
<1>2. /\ s \in Seq(readable) /\ Len(s) = Len(selected) + 1 /\ s # <<>>
      /\ \A i \in 1 .. Len(selected) : s[i] = selected[i]
      /\ s[Len(selected) + 1] = c
      /\ selected # <<>> => Len(selected) >= 1
      /\ selected = <<>> => Len(selected) = 0
    BY <1>1
<1>3. /\ ToSet(selected) = {selected[i] : i \in 1 .. Len(selected)}
      /\ ToSet(s) = {s[i] : i \in 1 .. Len(selected) + 1}
  <2>1. DOMAIN selected = 1 .. Len(selected) /\ DOMAIN s = 1 .. Len(selected) + 1
      BY <1>1, <1>2
  <2> QED BY <2>1 DEF ToSet
<1>4. ToSet(s) = ToSet(selected) \cup {c}
  <2>1. ASSUME NEW x \in ToSet(s) PROVE x \in ToSet(selected) \cup {c}
    <3>1. PICK i \in 1 .. Len(selected) + 1 : x = s[i]
        BY <1>3, <2>1
    <3> QED BY <1>1, <1>2, <1>3, <3>1
  <2>2. ASSUME NEW x \in ToSet(selected) \cup {c} PROVE x \in ToSet(s)
    <3>1. CASE x = c
        BY <1>1, <1>2, <1>3, <3>1
    <3>2. CASE x # c
      <4>1. PICK i \in 1 .. Len(selected) : x = selected[i]
          BY <1>3, <2>2, <3>2
      <4> QED BY <1>1, <1>2, <1>3, <4>1
    <3> QED BY <3>1, <3>2
  <2> QED BY <2>1, <2>2
<1>5. IsFiniteSet(ToSet(selected))
  <2>1. \A i \in 1 .. Len(selected) : selected[i] \in readable
      BY <1>1
  <2>2. ToSet(selected) \subseteq SourceFiles
      BY <1>1, <1>3, <2>1
  <2> QED BY <2>2, PlanContextAssumption, FS_Subset
<1>6. Cardinality(ToSet(selected)) = Len(selected)
    BY DEF ContextInv, Selection
<1>7. Cardinality(ToSet(s)) = Len(s)
    BY <1>2, <1>4, <1>5, <1>6, FS_AddElement
<1> HIDE DEF s
<1>8. Len(s) <= MaxSelected
    BY <1>1, <1>2
<1>9. 1 \in 1 .. Len(selected) \/ selected = <<>>
    BY <1>1, <1>2
<1> QED BY <1>1, <1>2, <1>4, <1>7, <1>8, <1>9 DEF s

LEMMA VisitKeeps ==
    ASSUME ContextInv, Visit
    PROVE  ContextInv'
<1> USE DEF ContextInv
<1>1. PICK c \in visit :
          /\ \A d \in visit \ {c} : MoreRelevant(c, d)
          /\ visit' = visit \ {c}
          /\ selected' = IF c \in ToSet(selected) THEN selected ELSE Append(selected, c)
          /\ related' = IF Cardinality(expanded) < MaxExpanded THEN Linked(c) ELSE {}
    BY DEF Visit
<1>2. /\ ~ budgeting /\ Len(selected) < MaxSelected
      /\ UNCHANGED <<readable, imports, score, expanded, budgeting, included, tokens, finished>>
    BY DEF Visit
<1>3. c \in readable /\ related' \in SUBSET SourceFiles
    BY <1>1 DEF ContextTyped, Linked
<1>4. /\ selected' \in Seq(readable) /\ Len(selected') <= MaxSelected
      /\ ToSet(selected') = ToSet(selected) \cup {c}
      /\ Cardinality(ToSet(selected')) = Len(selected') /\ selected' # <<>>
      /\ selected = <<>> => selected'[1] = c
      /\ selected # <<>> => selected'[1] = selected[1]
  <2>1. CASE c \in ToSet(selected)
    <3>1. selected' = selected /\ selected # <<>>
        BY <1>1, <2>1 DEF ToSet
    <3> QED BY <2>1, <3>1 DEF Selection, ContextTyped
  <2>2. CASE c \notin ToSet(selected)
    <3>1. selected' = Append(selected, c)
        BY <1>1, <2>2
    <3> QED BY <1>2, <1>3, <2>2, <3>1, OneMoreSelected
  <2> QED BY <2>1, <2>2
<1>5. ContextTyped'
    BY <1>1, <1>2, <1>3, <1>4 DEF ContextTyped
<1>6. \A f, g : MoreRelevant(f, g)' <=> MoreRelevant(f, g)
    BY <1>2 DEF MoreRelevant
<1>7. Selection'
  <2>1. (\A f \in visit, g \in readable \ visit : MoreRelevant(g, f))'
    <3>1. ASSUME NEW f \in visit', NEW g \in readable' \ visit' PROVE MoreRelevant(g, f)
        BY <1>1, <1>2, <3>1 DEF Selection
    <3> QED BY <1>6, <3>1
  <2>2. (ToSet(selected))' = ToSet(selected')
      BY DEF ToSet
  <2> QED BY <1>1, <1>2, <1>3, <1>4, <2>1, <2>2 DEF Selection
<1>8. FirstIsBest'
  <2>1. CASE selected = <<>>
      BY <1>1, <1>2, <1>4, <1>6, <2>1 DEF FirstIsBest
  <2>2. CASE selected # <<>>
      BY <1>2, <1>4, <1>6, <2>2 DEF FirstIsBest
  <2> QED BY <2>1, <2>2
<1>9. BudgetFits'
  <2>1. included = <<>> /\ ~ finished
      BY <1>2 DEF BudgetFits
  <2>2. Len(selected') \in Nat
      BY <1>4
  <2> QED BY <1>2, <2>1, <2>2 DEF BudgetFits
<1> QED BY <1>5, <1>7, <1>8, <1>9

LEMMA BringKeeps ==
    ASSUME ContextInv, Bring
    PROVE  ContextInv'
<1> USE DEF ContextInv
<1>1. PICK g \in related :
         IF ~ RoomToExpand
         THEN related' = {} /\ UNCHANGED <<selected, expanded>>
         ELSE /\ related' = related \ {g}
              /\ IF g \in ToSet(selected) \/ g \notin readable
                 THEN UNCHANGED <<selected, expanded>>
                 ELSE selected' = Append(selected, g) /\ expanded' = expanded \cup {g}
    BY DEF Bring
<1>2. UNCHANGED <<readable, imports, score, visit, budgeting, included, tokens, finished>>
    BY DEF Bring
<1>3. \A f, h : MoreRelevant(f, h)' <=> MoreRelevant(f, h)
    BY <1>2 DEF MoreRelevant
<1>4. ~ budgeting /\ selected # <<>> /\ included = <<>> /\ ~ finished
    BY <1>1 DEF BudgetFits, FirstIsBest
<1>5. related' \in SUBSET SourceFiles
    BY <1>1 DEF ContextTyped
<1>6. (ToSet(selected))' = ToSet(selected')
    BY DEF ToSet
<1>7. CASE UNCHANGED <<selected, expanded>>
  <2>1. ContextTyped'
      BY <1>2, <1>5, <1>7 DEF ContextTyped
  <2>2. Selection'
    <3>1. (\A f \in visit, h \in readable \ visit : MoreRelevant(h, f))'
        BY <1>2, <1>3 DEF Selection
    <3> QED BY <1>2, <1>6, <1>7, <3>1 DEF Selection
  <2>3. FirstIsBest'
      BY <1>2, <1>3, <1>4, <1>7 DEF FirstIsBest
  <2>4. BudgetFits'
      BY <1>2, <1>4, <1>7 DEF BudgetFits
  <2> QED BY <2>1, <2>2, <2>3, <2>4
<1>8. CASE ~ UNCHANGED <<selected, expanded>>
  <2>1. /\ RoomToExpand /\ g \notin ToSet(selected) /\ g \in readable
        /\ selected' = Append(selected, g) /\ expanded' = expanded \cup {g}
      BY <1>1, <1>8
  <2>2. Len(selected) < MaxSelected /\ Cardinality(expanded) < MaxExpanded
      BY <2>1 DEF RoomToExpand
  <2>3. /\ selected' \in Seq(readable) /\ Len(selected') <= MaxSelected
        /\ ToSet(selected') = ToSet(selected) \cup {g}
        /\ Cardinality(ToSet(selected')) = Len(selected') /\ selected' # <<>>
        /\ selected'[1] = selected[1]
      BY <1>4, <2>1, <2>2, OneMoreSelected
  <2>4. ContextTyped'
      BY <1>2, <1>5, <2>1, <2>3 DEF ContextTyped
  <2>5. Cardinality(expanded') <= MaxExpanded
    <3>1. expanded \subseteq SourceFiles /\ expanded' \subseteq SourceFiles
        BY <2>1 DEF ContextTyped
    <3>2. IsFiniteSet(expanded) /\ Cardinality(expanded) \in Nat
        BY <3>1, PlanContextAssumption, FS_Subset, FS_CardinalityType
    <3>3. Cardinality(expanded') = Cardinality(expanded)
          \/ Cardinality(expanded') = Cardinality(expanded) + 1
        BY <2>1, <3>2, FS_AddElement
    <3> QED BY <2>2, <3>2, <3>3, PlanContextAssumption
  <2>6. Selection'
    <3>1. (\A f \in visit, h \in readable \ visit : MoreRelevant(h, f))'
        BY <1>2, <1>3 DEF Selection
    <3> QED BY <1>2, <1>6, <2>1, <2>3, <2>5, <3>1 DEF Selection
  <2>7. FirstIsBest'
      BY <1>2, <1>3, <1>4, <2>3 DEF FirstIsBest
  <2>8. BudgetFits'
    <3>1. Len(selected') \in Nat
        BY <2>3
    <3> QED BY <1>2, <1>4, <3>1 DEF BudgetFits
  <2> QED BY <2>4, <2>6, <2>7, <2>8
<1> QED BY <1>7, <1>8

LEMMA ShowKeeps ==
    ASSUME ContextInv, Show
    PROVE  ContextInv'
<1> USE DEF ContextInv
<1>1. PICK size \in EntryTokens :
         IF included # <<>> /\ TokensOf(tokens) + size > TokenBudget
         THEN finished' = TRUE /\ UNCHANGED <<included, tokens>>
         ELSE /\ included' = Append(included, selected[Len(included) + 1])
              /\ tokens' = Append(tokens, size)
              /\ UNCHANGED finished
    BY DEF Show
<1>2. /\ budgeting /\ Len(included) < Len(selected) /\ ~ finished
      /\ UNCHANGED <<readable, imports, score, visit, related, selected, expanded, budgeting>>
    BY DEF Show
<1>3. Selection' /\ FirstIsBest'
  <2>1. \A f, h : MoreRelevant(f, h)' <=> MoreRelevant(f, h)
      BY <1>2 DEF MoreRelevant
  <2>2. (\A f \in visit, h \in readable \ visit : MoreRelevant(h, f))'
      BY <1>2, <2>1 DEF Selection
  <2>3. (ToSet(selected))' = ToSet(selected)
      BY <1>2 DEF ToSet
  <2> QED BY <1>2, <2>1, <2>2, <2>3 DEF Selection, FirstIsBest
<1>4. CASE UNCHANGED <<included, tokens>>
  <2>1. included # <<>> /\ finished' = TRUE
    <3>1. Len(Append(tokens, size)) # Len(tokens)
        BY <1>1, PlanContextAssumption DEF ContextTyped
    <3> QED BY <1>1, <1>4, <3>1
  <2>2. ContextTyped'
      BY <1>2, <1>4, <2>1 DEF ContextTyped
  <2>3. BudgetFits'
      BY <1>2, <1>4, <2>1 DEF BudgetFits
  <2> QED BY <1>3, <2>2, <2>3
<1>5. CASE ~ UNCHANGED <<included, tokens>>
  <2>1. /\ included' = Append(included, selected[Len(included) + 1]) /\ tokens' = Append(tokens, size)
        /\ finished' = finished
        /\ included # <<>> => TokensOf(tokens) + size <= TokenBudget
    <3>1. ~ (included # <<>> /\ TokensOf(tokens) + size > TokenBudget)
        BY <1>1, <1>5
    <3>2. TokensOf(tokens) \in Nat
        BY TokensAreNat DEF ContextTyped
    <3>3. size \in Nat /\ TokenBudget \in Nat
        BY PlanContextAssumption
    <3> QED BY <1>1, <3>1, <3>2, <3>3
  <2>2. Len(included) \in Nat /\ Len(selected) \in Nat /\ selected[Len(included) + 1] \in readable
      BY <1>2 DEF ContextTyped
  <2>3. size \in Nat
      BY PlanContextAssumption
  <2>4. ContextTyped'
      BY <1>2, <2>1, <2>2, <2>3 DEF ContextTyped
  <2>5. /\ Len(included') = Len(included) + 1 /\ Len(tokens') = Len(included) + 1 /\ included' # <<>>
        /\ \A i \in 1 .. Len(included) : included'[i] = included[i]
        /\ included'[Len(included) + 1] = selected[Len(included) + 1]
      BY <2>1, <2>2, <2>3 DEF ContextTyped, BudgetFits
  <2>6. TokensOf(tokens') = TokensOf(tokens) + size
      BY <2>1, <2>3, TokensOfOneMore DEF ContextTyped
  <2>7. Len(included') > 1 => included # <<>>
      BY <2>5
  <2>8. \A i \in 1 .. Len(included') : included'[i] = selected'[i]
      BY <1>2, <2>2, <2>5 DEF BudgetFits
  <2>9. BudgetFits'
      BY <1>2, <2>1, <2>2, <2>5, <2>6, <2>7, <2>8 DEF BudgetFits
  <2> QED BY <1>3, <2>4, <2>9
<1> QED BY <1>4, <1>5

LEMMA ContextKeepsInv ==
    ASSUME ContextInv, [ContextNext]_contextVars
    PROVE  ContextInv'
<1> USE DEF ContextInv
<1>1. CASE Visit
    BY <1>1, VisitKeeps
<1>2. CASE Bring
    BY <1>2, BringKeeps
<1>3. CASE Show
    BY <1>3, ShowKeeps
<1>4. ASSUME UNCHANGED <<readable, score, visit, related, selected, expanded, included, tokens>>
      PROVE  Selection' /\ FirstIsBest' /\ (\A f, h : MoreRelevant(f, h)' <=> MoreRelevant(f, h))
  <2>1. \A f, h : MoreRelevant(f, h)' <=> MoreRelevant(f, h)
      BY <1>4 DEF MoreRelevant
  <2>2. (\A f \in visit, h \in readable \ visit : MoreRelevant(h, f))'
      BY <1>4, <2>1 DEF Selection
  <2>3. (ToSet(selected))' = ToSet(selected)
      BY <1>4 DEF ToSet
  <2> QED BY <1>4, <2>1, <2>2, <2>3 DEF Selection, FirstIsBest
<1>5. CASE BeginBudget
  <2>1. ContextTyped' /\ Selection' /\ FirstIsBest'
      BY <1>4, <1>5 DEF BeginBudget, ContextTyped
  <2>2. readable # {} => selected # <<>>
    <3>1. CASE visit = {}
        BY <3>1 DEF FirstIsBest
    <3>2. CASE Len(selected) >= MaxSelected
        BY <3>2, PlanContextAssumption DEF ContextTyped
    <3> QED BY <1>5, <3>1, <3>2 DEF BeginBudget
  <2>3. BudgetFits'
      BY <1>5, <2>2 DEF BeginBudget, BudgetFits
  <2> QED BY <2>1, <2>3
<1>6. CASE EndBudget
  <2>1. ContextTyped' /\ Selection' /\ FirstIsBest'
      BY <1>4, <1>6 DEF EndBudget, ContextTyped
  <2>2. selected # <<>> => included # <<>>
      BY <1>6 DEF EndBudget, ContextTyped
  <2>3. BudgetFits'
      BY <1>6, <2>2 DEF EndBudget, BudgetFits
  <2> QED BY <2>1, <2>3
<1>7. CASE UNCHANGED contextVars
  <2>1. ContextTyped' /\ Selection' /\ FirstIsBest'
      BY <1>4, <1>7 DEF contextVars, ContextTyped
  <2>2. BudgetFits'
      BY <1>7 DEF contextVars, BudgetFits
  <2> QED BY <2>1, <2>2
<1> QED BY <1>1, <1>2, <1>3, <1>5, <1>6, <1>7 DEF ContextNext

LEMMA InvChoosesWell == ContextInv => ContextIsChosen
<1> SUFFICES ASSUME ContextInv PROVE ContextIsChosen
    OBVIOUS
<1> USE DEF ContextInv
<1>1. SelectionBounded
  <2>1. ToSet(selected) \subseteq readable
      BY DEF Selection, ContextTyped
  <2> QED BY <2>1 DEF Selection, SelectionBounded
<1>2. MostRelevantSelected
    BY DEF Selection, MostRelevantSelected
<1>3. IsPrefix(included, selected)
    BY DEF IsPrefix, BudgetFits, ContextTyped
<1>4. finished /\ readable # {} =>
         included # <<>> /\ \A f \in readable \ {included[1]} : MoreRelevant(included[1], f)
  <2>1. SUFFICES ASSUME finished, readable # {}
                 PROVE  included # <<>> /\ included[1] = selected[1] /\ selected # <<>>
      BY DEF FirstIsBest
  <2>2. selected # <<>> /\ included # <<>>
      BY <2>1 DEF BudgetFits, ContextTyped
  <2>3. 1 \in 1 .. Len(included)
      BY <2>2 DEF ContextTyped
  <2> QED BY <2>2, <2>3 DEF BudgetFits
<1>5. BudgetKept
    BY <1>3, <1>4 DEF BudgetKept, BudgetFits
<1> QED BY <1>1, <1>2, <1>5 DEF ContextIsChosen

THEOREM ContextIsChosenAlways == ContextSpec => []ContextIsChosen
BY ContextBegins, ContextKeepsInv, InvChoosesWell, PTL DEF ContextSpec

(* --------------------------- map of a repository --------------------------- *)

FileType == [dir : Seq(STRING), name : STRING, ext : STRING]
Keys == Seq(STRING) \cup {Path(f) : f \in ToSet(listing)}

\* Directories above the first n of a file.
DirsAbove(f, n) == {SubSeq(f.dir, 1, k) : k \in 1 .. n}
DirsAboveAll(n) == UNION {DirsAbove(listing[i], Len(listing[i].dir)) : i \in 1 .. n}
KeysOf(s) == {s[i].key : i \in DOMAIN s}

ResolvedFits ==
    \A r \in resolved :
        /\ r.source \in ToSet(listing) /\ r.reference \in References
        /\ r.file \in LedTo(r.source, r.reference)
HaltedFits ==
    \A r \in halted :
        /\ r.source \in ToSet(listing) /\ r.reference \in References
        /\ Raises(r.source, r.reference)
PlacesFit ==
    /\ listing \in Listings /\ placed \in 0 .. Len(listing) /\ level \in Nat
    /\ IF placed < Len(listing) THEN level <= Len(FilePlaced.dir) ELSE level = 0
    /\ directories = DirsAboveAll(placed) \cup DirsAbove(FilePlaced, level)
    /\ IsFiniteSet(directories)
NodesFit ==
    /\ nodes \in Seq([key : Keys, name : STRING, above : Keys])
    /\ KeysOf(nodes) = directories \cup {Path(listing[i]) : i \in 1 .. placed}
    /\ \A i, j \in DOMAIN nodes : nodes[i].key = nodes[j].key => i = j
    /\ \A i \in DOMAIN nodes : nodes[i].above = Front(nodes[i].key)
    /\ Len(nodes) = Cardinality(directories) + placed
TotalFits ==
    /\ total \in Nat
    /\ total > 0 =>
          /\ placed = Len(listing)
          /\ total = 1 + Cardinality({f.dir : f \in {g \in ToSet(listing) : g.dir # <<>>}})
                       + Len(listing)
MapInv == ResolvedFits /\ HaltedFits /\ PlacesFit /\ NodesFit /\ TotalFits

LEMMA MapBegins == MapInit => MapInv
<1> SUFFICES ASSUME MapInit PROVE MapInv
    OBVIOUS
<1>1. /\ listing \in Listings /\ resolved = {} /\ halted = {} /\ nodes = <<>> /\ directories = {}
      /\ placed = 0 /\ level = 0 /\ total = 0
    BY DEF MapInit
<1>2. listing \in Seq(FileType) /\ Len(listing) \in Nat
  <2>1. listing \in Seq([dir : Seq(STRING), name : STRING, ext : STRING])
      BY <1>1, MapAssumption
  <2> QED BY <2>1 DEF FileType
<1>3. ResolvedFits /\ HaltedFits
    BY <1>1 DEF ResolvedFits, HaltedFits
<1>4. PlacesFit
  <2>1. DirsAboveAll(placed) = {} /\ DirsAbove(FilePlaced, level) = {}
      BY <1>1 DEF DirsAboveAll, DirsAbove
  <2>2. placed < Len(listing) => FilePlaced \in FileType
      BY <1>1, <1>2 DEF FilePlaced
  <2>3. placed < Len(listing) => level <= Len(FilePlaced.dir)
      BY <1>1, <2>2 DEF FileType
  <2> QED BY <1>1, <1>2, <2>1, <2>3, FS_EmptySet DEF PlacesFit
<1>5. NodesFit
    BY <1>1, FS_EmptySet DEF NodesFit, KeysOf
<1>6. TotalFits
    BY <1>1 DEF TotalFits
<1> QED BY <1>3, <1>4, <1>5, <1>6 DEF MapInv

\* What is known of the next file.
LEMMA NextFile ==
    ASSUME MapInv
    PROVE  /\ listing \in Seq(FileType) /\ Len(listing) \in Nat /\ placed \in Nat
           /\ \A i \in 1 .. Len(listing) : listing[i] \in FileType
           /\ placed < Len(listing) =>
                 /\ FilePlaced \in FileType /\ placed + 1 \in 1 .. Len(listing)
                 /\ FilePlaced.dir \in Seq(STRING) /\ Len(FilePlaced.dir) \in Nat
<1>1. listing \in Seq([dir : Seq(STRING), name : STRING, ext : STRING])
    BY MapAssumption DEF MapInv, PlacesFit
<1>2. listing \in Seq(FileType) /\ Len(listing) \in Nat /\ placed \in Nat /\ placed <= Len(listing)
    BY <1>1 DEF FileType, MapInv, PlacesFit
<1>3. \A i \in 1 .. Len(listing) : listing[i] \in FileType
    BY <1>2
<1>4. ASSUME placed < Len(listing) PROVE placed + 1 \in 1 .. Len(listing) /\ FilePlaced \in FileType
    BY <1>2, <1>3, <1>4 DEF FilePlaced
<1>5. \A file \in FileType : file.dir \in Seq(STRING) /\ Len(file.dir) \in Nat
    BY DEF FileType
<1> QED BY <1>2, <1>3, <1>4, <1>5

\* The tree grows by a node with a key of its own.
LEMMA NodeIsAdded ==
    ASSUME MapInv, NEW n \in [key : Keys, name : STRING, above : Keys],
           n.key \notin KeysOf(nodes), n.above = Front(n.key)
    PROVE  LET s == Append(nodes, n)
           IN /\ s \in Seq([key : Keys, name : STRING, above : Keys])
              /\ Len(s) = Len(nodes) + 1 /\ KeysOf(s) = KeysOf(nodes) \cup {n.key}
              /\ \A i, j \in DOMAIN s : s[i].key = s[j].key => i = j
              /\ \A i \in DOMAIN s : s[i].above = Front(s[i].key)
<1> DEFINE s == Append(nodes, n)
           T == [key : Keys, name : STRING, above : Keys]
<1>1. nodes \in Seq(T) /\ Len(nodes) \in Nat /\ DOMAIN nodes = 1 .. Len(nodes)
    BY DEF MapInv, NodesFit
<1>2. /\ s \in Seq(T) /\ Len(s) = Len(nodes) + 1 /\ DOMAIN s = 1 .. Len(nodes) + 1
      /\ \A i \in 1 .. Len(nodes) : s[i] = nodes[i]
      /\ s[Len(nodes) + 1] = n
  <2> HIDE DEF T
  <2> QED BY <1>1 DEF T
<1> HIDE DEF s, T
<1>3. \A i \in 1 .. Len(nodes) + 1 : i \in DOMAIN nodes \/ i = Len(nodes) + 1
    BY <1>1
<1>4. KeysOf(s) = KeysOf(nodes) \cup {n.key}
  <2>1. ASSUME NEW k \in KeysOf(s) PROVE k \in KeysOf(nodes) \cup {n.key}
    <3>1. PICK i \in 1 .. Len(nodes) + 1 : k = s[i].key
        BY <1>2, <2>1 DEF KeysOf
    <3>2. CASE i \in DOMAIN nodes
        BY <1>1, <1>2, <3>1, <3>2 DEF KeysOf
    <3>3. CASE i = Len(nodes) + 1
        BY <1>2, <3>1, <3>3
    <3> QED BY <1>3, <3>2, <3>3
  <2>2. ASSUME NEW k \in KeysOf(nodes) PROVE k \in KeysOf(s)
    <3>1. PICK i \in DOMAIN nodes : k = nodes[i].key
        BY <2>2 DEF KeysOf
    <3>2. i \in DOMAIN s /\ s[i] = nodes[i]
        BY <1>1, <1>2, <3>1
    <3> QED BY <3>1, <3>2 DEF KeysOf
  <2>3. n.key \in KeysOf(s)
    <3>1. Len(nodes) + 1 \in DOMAIN s
        BY <1>1, <1>2
    <3> QED BY <1>2, <3>1 DEF KeysOf
  <2> QED BY <2>1, <2>2, <2>3
<1>5. ASSUME NEW i \in DOMAIN s, NEW j \in DOMAIN s, s[i].key = s[j].key PROVE i = j
  <2>1. \A k \in DOMAIN nodes : nodes[k].key \in KeysOf(nodes)
      BY DEF KeysOf
  <2>2. \A k, l \in DOMAIN nodes : nodes[k].key = nodes[l].key => k = l
      BY DEF MapInv, NodesFit
  <2>3. i \in DOMAIN nodes \/ i = Len(nodes) + 1
      BY <1>2, <1>3, <1>5
  <2>4. j \in DOMAIN nodes \/ j = Len(nodes) + 1
      BY <1>2, <1>3, <1>5
  <2> QED BY <1>1, <1>2, <1>5, <2>1, <2>2, <2>3, <2>4
<1>6. ASSUME NEW i \in DOMAIN s PROVE s[i].above = Front(s[i].key)
  <2>1. \A k \in DOMAIN nodes : nodes[k].above = Front(nodes[k].key)
      BY DEF MapInv, NodesFit
  <2>2. i \in DOMAIN nodes \/ i = Len(nodes) + 1
      BY <1>2, <1>3, <1>6
  <2> QED BY <1>1, <1>2, <2>1, <2>2
<1> QED BY <1>2, <1>4, <1>5, <1>6 DEF s, T

\* A directory is above a file, and so no file's path.
LEMMA DirectoriesAreAbove ==
    ASSUME MapInv, NEW d \in directories
    PROVE  /\ \E j \in DOMAIN listing, k \in Nat : k \in 1 .. Len(listing[j].dir) /\ d = SubSeq(listing[j].dir, 1, k)
           /\ \A i \in DOMAIN listing : Path(listing[i]) # d
<1>1. PICK j \in DOMAIN listing, k \in Nat : k \in 1 .. Len(listing[j].dir) /\ d = SubSeq(listing[j].dir, 1, k)
  <2>1. CASE d \in DirsAboveAll(placed)
    <3>1. PICK j \in 1 .. placed : d \in DirsAbove(listing[j], Len(listing[j].dir))
        BY <2>1 DEF DirsAboveAll
    <3>2. j \in DOMAIN listing
        BY NextFile, <3>1 DEF MapInv, PlacesFit
    <3> QED BY <3>1, <3>2 DEF DirsAbove
  <2>2. CASE d \notin DirsAboveAll(placed)
    <3>1. PICK k \in 1 .. level : d = SubSeq(FilePlaced.dir, 1, k)
        BY <2>2 DEF MapInv, PlacesFit, DirsAbove
    <3>2. placed < Len(listing) /\ level <= Len(FilePlaced.dir) /\ level \in Nat
        BY <3>1, NextFile DEF MapInv, PlacesFit
    <3>3. placed + 1 \in DOMAIN listing /\ k \in 1 .. Len(FilePlaced.dir) /\ k \in Nat
        BY <3>1, <3>2, NextFile
    <3> QED BY <3>1, <3>3 DEF FilePlaced
  <2> QED BY <2>1, <2>2
<1>2. \A i \in DOMAIN listing : Path(listing[i]) # d
    BY <1>1, MapAssumption DEF MapInv, PlacesFit
<1> QED BY <1>1, <1>2

LEMMA ImportsStay ==
    ASSUME MapInv, UNCHANGED <<listing, resolved, halted>>
    PROVE  ResolvedFits' /\ HaltedFits'
<1>1. \A s, r : LedTo(s, r)' = LedTo(s, r)
    BY DEF LedTo, FirstFound, ToSet
<1>2. \A s, r : Raises(s, r)' = Raises(s, r)
    BY DEF Raises
<1>3. ToSet(listing)' = ToSet(listing)
    OBVIOUS
<1>4. ResolvedFits'
    BY <1>1, <1>3 DEF MapInv, ResolvedFits
<1> QED BY <1>2, <1>3, <1>4 DEF MapInv, HaltedFits

LEMMA EnterKeeps ==
    ASSUME MapInv, EnterDirectory
    PROVE  MapInv'
<1> DEFINE key == SubSeq(FilePlaced.dir, 1, level + 1)
           n == Node(key, FilePlaced.dir[level + 1], SubSeq(FilePlaced.dir, 1, level))
<1>1. /\ placed < Len(listing) /\ level < Len(FilePlaced.dir)
      /\ nodes' = IF key \in directories THEN nodes ELSE Append(nodes, n)
      /\ directories' = directories \cup {key} /\ level' = level + 1
      /\ UNCHANGED <<listing, resolved, halted, placed, total>>
    BY DEF EnterDirectory
<1>2. /\ FilePlaced \in FileType /\ placed + 1 \in 1 .. Len(listing) /\ FilePlaced.dir \in Seq(STRING)
      /\ Len(FilePlaced.dir) \in Nat /\ level \in Nat /\ level + 1 \in 1 .. Len(FilePlaced.dir)
    BY <1>1, NextFile DEF MapInv, PlacesFit
<1>3. /\ key \in Seq(STRING) /\ SubSeq(FilePlaced.dir, 1, level) \in Seq(STRING)
      /\ FilePlaced.dir[level + 1] \in STRING /\ Len(key) = level + 1
    BY <1>2
<1>4. n \in [key : Keys, name : STRING, above : Keys] /\ n.key = key
      /\ n.above = SubSeq(FilePlaced.dir, 1, level)
    BY <1>3 DEF Node, Keys
<1>5. n.above = Front(n.key)
  <2>1. SubSeq(key, 1, level) = SubSeq(FilePlaced.dir, 1, level)
      BY <1>2
  <2> QED BY <1>2, <1>3, <1>4, <2>1 DEF Front
<1>6. FilePlaced' = FilePlaced
    BY <1>1 DEF FilePlaced
<1>7. ResolvedFits' /\ HaltedFits'
    BY <1>1, ImportsStay
<1> HIDE DEF key, n
<1>8. PlacesFit'
  <2>1. DirsAbove(FilePlaced, level + 1) = DirsAbove(FilePlaced, level) \cup {key}
    <3>1. 1 .. level + 1 = (1 .. level) \cup {level + 1}
        BY <1>2
    <3> QED BY <3>1 DEF DirsAbove, key
  <2>2. DirsAboveAll(placed)' = DirsAboveAll(placed)
      BY <1>1 DEF DirsAboveAll, DirsAbove
  <2>3. DirsAbove(FilePlaced, level)' = DirsAbove(FilePlaced, level + 1)
      BY <1>1, <1>6 DEF DirsAbove
  <2>4. directories' = DirsAboveAll(placed)' \cup DirsAbove(FilePlaced, level)'
      BY <1>1, <2>1, <2>2, <2>3 DEF MapInv, PlacesFit
  <2>5. IsFiniteSet(directories')
      BY <1>1, FS_AddElement DEF MapInv, PlacesFit
  <2> QED BY <1>1, <1>2, <1>6, <2>4, <2>5 DEF MapInv, PlacesFit
<1>9. NodesFit'
  <2>1. Keys' = Keys /\ {Path(listing[i]) : i \in 1 .. placed}' = {Path(listing[i]) : i \in 1 .. placed}
      BY <1>1 DEF Keys, Path, ToSet
  <2>2. KeysOf(nodes)' = KeysOf(nodes')
      BY DEF KeysOf
  <2>3. CASE key \in directories
    <3>1. nodes' = nodes /\ directories' = directories
        BY <1>1, <2>3
    <3> QED BY <1>1, <2>1, <2>2, <3>1 DEF MapInv, NodesFit
  <2>4. CASE key \notin directories
    <3>1. nodes' = Append(nodes, n)
        BY <1>1, <2>4
    <3>2. n.key \notin KeysOf(nodes)
      <4>1. \A i \in 1 .. placed : Path(listing[i]) # key
        <5>1. \A i \in DOMAIN listing : Path(listing[i]) # SubSeq(listing[placed + 1].dir, 1, level + 1)
          <6>1. /\ listing \in Listings /\ placed + 1 \in DOMAIN listing
                /\ level + 1 \in 1 .. Len(listing[placed + 1].dir)
              BY <1>2, NextFile DEF MapInv, PlacesFit, FilePlaced
          <6> QED BY <6>1, MapAssumption
        <5>2. \A i \in 1 .. placed : i \in DOMAIN listing
            BY <1>2, NextFile DEF MapInv, PlacesFit
        <5> QED BY <5>1, <5>2 DEF key, FilePlaced
      <4> QED BY <1>4, <2>4, <4>1 DEF MapInv, NodesFit
    <3>3. /\ nodes' \in Seq([key : Keys, name : STRING, above : Keys])
          /\ Len(nodes') = Len(nodes) + 1 /\ KeysOf(nodes') = KeysOf(nodes) \cup {key}
          /\ \A i, j \in DOMAIN nodes' : nodes'[i].key = nodes'[j].key => i = j
          /\ \A i \in DOMAIN nodes' : nodes'[i].above = Front(nodes'[i].key)
        BY <1>4, <1>5, <3>1, <3>2, NodeIsAdded
    <3>4. Cardinality(directories') = Cardinality(directories) + 1
        BY <1>1, <2>4, FS_AddElement DEF MapInv, PlacesFit
    <3>5. Cardinality(directories) \in Nat
        BY FS_CardinalityType DEF MapInv, PlacesFit
    <3>6. Len(nodes') = Cardinality(directories') + placed'
        BY <1>1, <3>3, <3>4, <3>5, NextFile DEF MapInv, NodesFit
    <3>7. KeysOf(nodes') = directories' \cup {Path(listing[i]) : i \in 1 .. placed}
        BY <1>1, <3>3 DEF MapInv, NodesFit
    <3> QED BY <1>1, <2>1, <2>2, <3>3, <3>6, <3>7 DEF NodesFit
  <2> QED BY <2>3, <2>4
<1>10. TotalFits'
    BY <1>1 DEF MapInv, TotalFits, ToSet
<1> QED BY <1>7, <1>8, <1>9, <1>10 DEF MapInv

LEMMA PlaceKeeps ==
    ASSUME MapInv, PlaceFile
    PROVE  MapInv'
<1> DEFINE n == Node(Path(FilePlaced), FilePlaced.name, FilePlaced.dir)
<1>1. /\ placed < Len(listing) /\ level = Len(FilePlaced.dir) /\ nodes' = Append(nodes, n)
      /\ placed' = placed + 1 /\ level' = 0
      /\ UNCHANGED <<listing, resolved, halted, directories, total>>
    BY DEF PlaceFile
<1>2. /\ FilePlaced \in FileType /\ placed + 1 \in 1 .. Len(listing) /\ FilePlaced.dir \in Seq(STRING)
      /\ Len(listing) \in Nat /\ placed \in Nat
    BY <1>1, NextFile
<1>3. Path(FilePlaced) \in Keys /\ FilePlaced \in ToSet(listing)
  <2>1. placed + 1 \in DOMAIN listing
      BY <1>2, NextFile
  <2> QED BY <2>1 DEF Keys, FilePlaced, ToSet
<1>4. n \in [key : Keys, name : STRING, above : Keys] /\ n.key = Path(FilePlaced)
      /\ n.above = FilePlaced.dir
  <2>1. FilePlaced.name \in STRING /\ FilePlaced.dir \in Keys
      BY <1>2 DEF FileType, Keys
  <2> QED BY <1>3, <2>1 DEF Node
<1>5. Front(Path(FilePlaced)) = FilePlaced.dir
  <2> DEFINE x == FilePlaced.name \o "." \o FilePlaced.ext
             S == STRING \cup {x}
  <2>1. FilePlaced.dir \in Seq(S) /\ x \in S
      BY <1>2, SeqMonotonic, STRING \subseteq S
  <2> HIDE DEF x, S
  <2>2. Front(Append(FilePlaced.dir, x)) = FilePlaced.dir
    <3>1. PICK d \in Seq(S) : d = FilePlaced.dir
        BY <2>1
    <3>2. SubSeq(Append(d, x), 1, Len(Append(d, x)) - 1) = d
        BY <2>1, <3>1
    <3> QED BY <3>1, <3>2 DEF Front
  <2> QED BY <2>2 DEF Path, x
<1>6. ResolvedFits' /\ HaltedFits'
    BY <1>1, ImportsStay
<1> HIDE DEF n
<1>7. PlacesFit'
  <2>1. DirsAboveAll(placed + 1) = DirsAboveAll(placed) \cup DirsAbove(FilePlaced, Len(FilePlaced.dir))
    <3>1. 1 .. placed + 1 = (1 .. placed) \cup {placed + 1}
        BY <1>2
    <3> QED BY <3>1 DEF DirsAboveAll, FilePlaced
  <2>2. DirsAboveAll(placed)' = DirsAboveAll(placed + 1)
      BY <1>1 DEF DirsAboveAll, DirsAbove
  <2>3. DirsAbove(FilePlaced, level)' = {}
      BY <1>1 DEF DirsAbove
  <2>4. directories' = DirsAboveAll(placed)' \cup DirsAbove(FilePlaced, level)'
      BY <1>1, <2>1, <2>2, <2>3 DEF MapInv, PlacesFit
  <2>5. placed' < Len(listing') => level' <= Len(FilePlaced'.dir)
    <3>1. SUFFICES ASSUME placed + 1 < Len(listing) PROVE Len(listing[placed + 2].dir) >= 0
        BY <1>1, <1>2 DEF FilePlaced
    <3>2. listing[placed + 2] \in FileType
        BY <1>2, <3>1, NextFile
    <3> QED BY <3>2 DEF FileType
  <2>6. listing' \in Listings /\ placed' \in 0 .. Len(listing') /\ level' = 0
      BY <1>1, <1>2 DEF MapInv, PlacesFit
  <2>7. IsFiniteSet(directories')
      BY <1>1 DEF MapInv, PlacesFit
  <2> QED BY <2>4, <2>5, <2>6, <2>7 DEF PlacesFit
<1>8. NodesFit'
  <2>1. Keys' = Keys /\ KeysOf(nodes)' = KeysOf(nodes')
      BY <1>1 DEF Keys, Path, ToSet, KeysOf
  <2>2. n.key \notin KeysOf(nodes)
    <3>1. placed + 1 \in DOMAIN listing /\ \A i \in 1 .. placed : i \in DOMAIN listing /\ i # placed + 1
        BY <1>2, NextFile
    <3>2. \A i \in 1 .. placed : Path(listing[i]) # Path(FilePlaced)
        BY <3>1, MapAssumption DEF MapInv, PlacesFit, FilePlaced
    <3>3. \A d \in directories : Path(FilePlaced) # d
        BY <3>1, DirectoriesAreAbove DEF FilePlaced
    <3> QED BY <1>4, <3>2, <3>3 DEF MapInv, NodesFit
  <2>3. /\ nodes' \in Seq([key : Keys, name : STRING, above : Keys])
        /\ Len(nodes') = Len(nodes) + 1 /\ KeysOf(nodes') = KeysOf(nodes) \cup {Path(FilePlaced)}
        /\ \A i, j \in DOMAIN nodes' : nodes'[i].key = nodes'[j].key => i = j
        /\ \A i \in DOMAIN nodes' : nodes'[i].above = Front(nodes'[i].key)
      BY <1>1, <1>4, <1>5, <2>2, NodeIsAdded
  <2>4. {Path(listing[i]) : i \in 1 .. placed}'
            = {Path(listing[i]) : i \in 1 .. placed} \cup {Path(FilePlaced)}
    <3>1. 1 .. placed + 1 = (1 .. placed) \cup {placed + 1}
        BY <1>2
    <3>2. {Path(listing[i]) : i \in 1 .. placed}' = {Path(listing[i]) : i \in 1 .. placed + 1}
        BY <1>1 DEF Path
    <3> QED BY <3>1, <3>2 DEF FilePlaced
  <2>5. Cardinality(directories) \in Nat
      BY FS_CardinalityType DEF MapInv, PlacesFit
  <2>6. Len(nodes') = Cardinality(directories') + placed'
      BY <1>1, <1>2, <2>3, <2>5 DEF MapInv, NodesFit
  <2>7. KeysOf(nodes)' = directories' \cup {Path(listing[i]) : i \in 1 .. placed}'
      BY <1>1, <2>1, <2>3, <2>4 DEF MapInv, NodesFit
  <2> QED BY <2>1, <2>3, <2>6, <2>7 DEF NodesFit
<1>9. TotalFits'
  <2>1. total = 0
      BY <1>1, <1>2 DEF MapInv, TotalFits
  <2> QED BY <1>1, <2>1 DEF TotalFits
<1> QED BY <1>6, <1>7, <1>8, <1>9 DEF MapInv

\* What stays while files, nodes and directories do.
LEMMA TreeStays ==
    ASSUME MapInv, UNCHANGED <<listing, nodes, directories, placed, level>>
    PROVE  PlacesFit' /\ NodesFit'
<1>1. FilePlaced' = FilePlaced
    BY DEF FilePlaced
<1>2. DirsAboveAll(placed)' = DirsAboveAll(placed) /\ DirsAbove(FilePlaced, level)' = DirsAbove(FilePlaced, level)
    BY <1>1 DEF DirsAboveAll, DirsAbove
<1>3. Keys' = Keys /\ KeysOf(nodes)' = KeysOf(nodes)
      /\ {Path(listing[i]) : i \in 1 .. placed}' = {Path(listing[i]) : i \in 1 .. placed}
    BY DEF Keys, KeysOf, Path, ToSet
<1>4. PlacesFit'
    BY <1>1, <1>2 DEF MapInv, PlacesFit
<1>5. NodesFit'
    BY <1>3 DEF MapInv, NodesFit
<1> QED BY <1>4, <1>5

\* Directories that hold files are there when all files are.
LEMMA HoldersAreDirectories ==
    ASSUME MapInv, placed = Len(listing)
    PROVE  LET holders == {f.dir : f \in {g \in ToSet(listing) : g.dir # <<>>}}
           IN /\ directories = Directories /\ holders \subseteq Directories
              /\ IsFiniteSet(holders)
<1> DEFINE holders == {f.dir : f \in {g \in ToSet(listing) : g.dir # <<>>}}
<1>1. DOMAIN listing = 1 .. Len(listing) /\ ToSet(listing) = {listing[i] : i \in 1 .. Len(listing)}
    BY NextFile DEF ToSet
<1>2. DirsAbove(FilePlaced, level) = {}
    BY NextFile DEF MapInv, PlacesFit, DirsAbove
<1>3. DirsAboveAll(placed) = Directories
    BY <1>1 DEF DirsAboveAll, DirsAbove, Directories
<1>4. directories = Directories
    BY <1>2, <1>3 DEF MapInv, PlacesFit
<1>5. ASSUME NEW d \in holders PROVE d \in Directories
  <2>1. PICK f \in ToSet(listing) : f.dir # <<>> /\ d = f.dir
      BY <1>5
  <2>2. f \in FileType
      BY <1>1, <2>1, NextFile
  <2>3. f.dir \in Seq(STRING) /\ Len(f.dir) \in 1 .. Len(f.dir) /\ SubSeq(f.dir, 1, Len(f.dir)) = f.dir
    <3>1. PICK s \in Seq(STRING) : s = f.dir
        BY <2>2 DEF FileType
    <3>2. s # <<>> => Len(s) \in 1 .. Len(s)
        OBVIOUS
    <3>3. SubSeq(s, 1, Len(s)) = s
        OBVIOUS
    <3> QED BY <2>1, <3>1, <3>2, <3>3
  <2> QED BY <2>1, <2>3 DEF Directories
<1>6. IsFiniteSet(holders)
    BY <1>4, <1>5, FS_Subset DEF MapInv, PlacesFit
<1> QED BY <1>4, <1>5, <1>6

LEMMA MapKeepsInv ==
    ASSUME MapInv, [MapNext]_mapVars
    PROVE  MapInv'
<1>1. CASE EnterDirectory
    BY <1>1, EnterKeeps
<1>2. CASE PlaceFile
    BY <1>2, PlaceKeeps
<1>3. CASE ResolveImport
  <2>1. UNCHANGED <<listing, nodes, directories, placed, level, total>>
      BY <1>3 DEF ResolveImport
  <2>2. \A s, r : Raises(s, r)' = Raises(s, r)
      BY DEF Raises
  <2>3. PICK source \in ToSet(listing), reference \in References :
          /\ resolved' = {[source |-> source, reference |-> reference, file |-> f] :
                             f \in LedTo(source, reference)}
          /\ halted' = IF Raises(source, reference)
                       THEN {[source |-> source, reference |-> reference]} ELSE {}
      BY <1>3 DEF ResolveImport
  <2>4. \A s, r : LedTo(s, r)' = LedTo(s, r)
      BY <2>1 DEF LedTo, FirstFound, ToSet
  <2>5. ToSet(listing)' = ToSet(listing)
      BY <2>1
  <2>6. ASSUME NEW r \in resolved'
        PROVE  /\ r.source \in ToSet(listing) /\ r.reference \in References
               /\ r.file \in LedTo(r.source, r.reference)
      BY <2>3, <2>6
  <2>7. ResolvedFits'
      BY <2>4, <2>5, <2>6 DEF ResolvedFits
  <2>8. ASSUME NEW r \in halted'
        PROVE  /\ r.source \in ToSet(listing) /\ r.reference \in References
               /\ Raises(r.source, r.reference)
      BY <2>3, <2>8
  <2>9. HaltedFits'
      BY <2>2, <2>5, <2>8 DEF HaltedFits
  <2>10. TotalFits'
      BY <2>1 DEF MapInv, TotalFits, ToSet
  <2> QED BY <2>1, <2>7, <2>9, <2>10, TreeStays DEF MapInv
<1>4. CASE CountNodes
  <2>1. /\ UNCHANGED <<listing, resolved, halted, nodes, directories, placed, level>> /\ placed = Len(listing)
        /\ total' = 1 + Cardinality({f.dir : f \in {g \in ToSet(listing) : g.dir # <<>>}})
                      + Len(listing)
      BY <1>4 DEF CountNodes
  <2>2. {f.dir : f \in {g \in ToSet(listing) : g.dir # <<>>}}'
           = {f.dir : f \in {g \in ToSet(listing) : g.dir # <<>>}}
      BY <2>1 DEF ToSet
  <2>3. Cardinality({f.dir : f \in {g \in ToSet(listing) : g.dir # <<>>}}) \in Nat
    <3>1. IsFiniteSet({f.dir : f \in {g \in ToSet(listing) : g.dir # <<>>}})
        BY <2>1, HoldersAreDirectories
    <3> QED BY <3>1, FS_CardinalityType
  <2>4. TotalFits'
      BY <2>1, <2>2, <2>3, NextFile DEF TotalFits
  <2> QED BY <2>1, <2>4, TreeStays, ImportsStay DEF MapInv
<1>5. CASE UNCHANGED mapVars
  <2>1. UNCHANGED <<listing, resolved, halted, nodes, directories, placed, level, total>>
      BY <1>5 DEF mapVars
  <2>2. TotalFits'
      BY <2>1 DEF MapInv, TotalFits, ToSet
  <2> QED BY <2>1, <2>2, TreeStays, ImportsStay DEF MapInv
<1> QED BY <1>1, <1>2, <1>3, <1>4, <1>5 DEF MapNext

LEMMA InvTreeIsWhole == MapInv => TreeIsWhole
<1> SUFFICES ASSUME MapInv PROVE TreeIsWhole
    OBVIOUS
<1> DEFINE holders == {f.dir : f \in {g \in ToSet(listing) : g.dir # <<>>}}
<1>1. ASSUME total > 0
      PROVE  /\ {nodes[i].key : i \in DOMAIN nodes} = Directories \cup {Path(f) : f \in ToSet(listing)}
             /\ total <= 1 + Len(nodes)
             /\ Directories \subseteq {f.dir : f \in ToSet(listing)} => total = 1 + Len(nodes)
  <2>1. /\ placed = Len(listing) /\ total = 1 + Cardinality(holders) + Len(listing)
        /\ Len(listing) \in Nat
      BY <1>1, NextFile DEF MapInv, TotalFits
  <2>2. /\ directories = Directories /\ holders \subseteq Directories /\ IsFiniteSet(holders)
      BY <2>1, HoldersAreDirectories
  <2>3. IsFiniteSet(Directories) /\ Len(nodes) = Cardinality(Directories) + Len(listing)
      BY <2>1, <2>2 DEF MapInv, PlacesFit, NodesFit
  <2>4. /\ Cardinality(holders) \in Nat /\ Cardinality(Directories) \in Nat
        /\ Cardinality(holders) <= Cardinality(Directories)
    <3> HIDE DEF holders
    <3> QED BY <2>2, <2>3, FS_Subset, FS_CardinalityType
  <2>5. KeysOf(nodes) = Directories \cup {Path(f) : f \in ToSet(listing)}
    <3>1. DOMAIN listing = 1 .. placed
        BY <2>1, NextFile
    <3>2. {Path(listing[i]) : i \in 1 .. placed} = {Path(f) : f \in ToSet(listing)}
        BY <3>1 DEF ToSet
    <3> QED BY <2>2, <3>2 DEF MapInv, NodesFit
  <2>6. Directories \subseteq {f.dir : f \in ToSet(listing)} => holders = Directories
    <3>1. ASSUME NEW d \in Directories PROVE d # <<>>
      <4>1. PICK f \in ToSet(listing) : \E k \in 1 .. Len(f.dir) : d = SubSeq(f.dir, 1, k)
          BY <3>1 DEF Directories
      <4>2. f.dir \in Seq(STRING)
        <5>1. PICK i \in DOMAIN listing : f = listing[i]
            BY <4>1 DEF ToSet
        <5> QED BY <5>1, NextFile DEF FileType
      <4>3. PICK k \in 1 .. Len(f.dir) : d = SubSeq(f.dir, 1, k)
          BY <4>1
      <4>4. Len(d) = k /\ k >= 1
          BY <4>2, <4>3
      <4> QED BY <4>4
    <3>2. ASSUME Directories \subseteq {f.dir : f \in ToSet(listing)}, NEW d \in Directories
          PROVE  d \in holders
      <4>1. PICK f \in ToSet(listing) : d = f.dir
          BY <3>2
      <4> QED BY <3>1, <4>1
    <3> HIDE DEF holders
    <3> QED BY <2>2, <3>2
  <2> HIDE DEF holders
  <2>7. total <= 1 + Len(nodes)
      BY <2>1, <2>3, <2>4
  <2>8. Cardinality(holders) = Cardinality(Directories) => total = 1 + Len(nodes)
      BY <2>1, <2>3, <2>4
  <2> QED BY <2>5, <2>6, <2>7, <2>8 DEF KeysOf
<1>2. /\ \A i, j \in DOMAIN nodes : nodes[i].key = nodes[j].key => i = j
      /\ \A i \in DOMAIN nodes : nodes[i].above = Front(nodes[i].key)
    BY DEF MapInv, NodesFit
<1> QED BY <1>1, <1>2 DEF TreeIsWhole

LEMMA FoundIsCandidate ==
    ASSUME NEW candidates, NEW f \in FirstFound(candidates)
    PROVE  f \in ToSet(listing) /\ \E i \in DOMAIN candidates : f = candidates[i]
BY DEF FirstFound

\* What an import of a Python file leads to.
LEMMA PythonLeadsRight ==
    ASSUME NEW source \in FileType, NEW reference \in References,
           NEW f \in LedTo(source, reference), source.ext = "py",
           reference.dots - 1 \in 0 .. Len(source.dir)
    PROVE  LET meant == Meant(source, reference)
           IN \/ meant \in {Append(f.dir, f.name), f.dir}
              \/ meant[1] \in DOMAIN Hidden \/ Last(meant) \in DOMAIN Dotted
<1> DEFINE base == PythonBase(source, reference)
<1>1. reference.dots \in Nat /\ reference.dots # 0
      /\ reference.parts \in Seq(STRING \ {Parent})
    BY MapAssumption
<1>2. base = Meant(source, reference)
    BY <1>1 DEF PythonBase, Meant
<1>3. base \in Seq(STRING)
  <2>1. source.dir \in Seq(STRING) /\ Len(source.dir) \in Nat
      BY DEF FileType
  <2>2. Ups(source.dir, reference.dots - 1) \in Seq(STRING)
      BY <2>1 DEF Ups
  <2>3. reference.parts \in Seq(STRING)
      BY <1>1, SeqMonotonic, STRING \ {Parent} \subseteq STRING
  <2> QED BY <1>2, <2>2, <2>3 DEF Meant
<1> HIDE DEF base
<1>4. base # <<>> /\ f \in FirstFound(PythonCandidates(base))
    BY DEF LedTo, Base, base
<1>5. PICK i \in DOMAIN PythonCandidates(base) : f = PythonCandidates(base)[i]
    BY <1>4, FoundIsCandidate
<1>6. CASE base[1] \notin DOMAIN Hidden /\ Last(base) \notin DOMAIN Dotted
  <2>1. Stripped(base) = base
      BY <1>6 DEF Stripped
  <2>2. f = File(Front(base), Last(base), "py") \/ f = File(base, "__init__", "py")
      BY <1>5, <1>6, <2>1 DEF PythonCandidates, Stem
  <2>3. Append(Front(base), Last(base)) = base
    <3>1. PICK s \in Seq(STRING) : s = base
        BY <1>3
    <3>2. s # <<>> => Append(SubSeq(s, 1, Len(s) - 1), s[Len(s)]) = s
        OBVIOUS
    <3> QED BY <1>4, <3>1, <3>2 DEF Front, Last
  <2> QED BY <1>2, <2>2, <2>3 DEF File
<1> QED BY <1>2, <1>6

LEMMA Repeated ==
    ASSUME NEW S, NEW x \in S, NEW n \in Nat
    PROVE  [i \in 1 .. n |-> x] \in Seq(S) /\ Len([i \in 1 .. n |-> x]) = n
<1>1. \A s \in [1 .. n -> S] : s \in Seq(S) /\ Len(s) = n
    OBVIOUS
<1>2. [i \in 1 .. n |-> x] \in [1 .. n -> S]
    OBVIOUS
<1> QED BY <1>1, <1>2

\* What an import of a script leads to.
LEMMA ScriptLeadsRight ==
    ASSUME listing \in Listings, NEW source \in FileType, NEW reference \in References,
           NEW f \in LedTo(source, reference), source.ext # "py"
    PROVE  /\ Meant(source, reference) \in {Append(f.dir, f.name), f.dir, Path(f)}
           /\ reference.dots = 1
<1> DEFINE S == STRING \cup {Parent}
           base == ScriptBase(source, reference)
           ups == [i \in 1 .. reference.dots - 1 |-> Parent]
<1>1. reference.dots \in Nat /\ reference.parts \in Seq(S)
  <2>1. reference.dots \in Nat /\ reference.parts \in Seq(STRING \ {Parent})
      BY MapAssumption
  <2> QED BY <2>1, SeqMonotonic, STRING \ {Parent} \subseteq S
<1>2. source.dir \in Seq(S) /\ Len(source.dir) \in Nat
  <2>1. source.dir \in Seq(STRING) /\ Len(source.dir) \in Nat
      BY DEF FileType
  <2> QED BY <2>1, SeqMonotonic, STRING \subseteq S
<1> HIDE DEF S
<1>3. base # <<>> /\ reference.dots # 0 /\ f \in FirstFound(ScriptCandidates(base))
    BY DEF LedTo, Base
<1>4. ups \in Seq(S) /\ Len(ups) = reference.dots - 1
  <2> HIDE DEF base, ups
  <2>1. PICK n \in Nat : n = reference.dots - 1
      BY <1>1, <1>3
  <2>2. PICK x \in S : x = Parent
      BY DEF S
  <2>3. [i \in 1 .. n |-> x] \in Seq(S) /\ Len([i \in 1 .. n |-> x]) = n
      BY <2>2, Repeated
  <2>4. ups = [i \in 1 .. n |-> x]
      BY <2>1, <2>2 DEF ups
  <2> QED BY <2>1, <2>3, <2>4
<1>5. base \in Seq(S) /\ Len(base) \in Nat
  <2> HIDE DEF ups
  <2>1. \A d, u, t \in Seq(S) : d \o u \o t \in Seq(S)
      OBVIOUS
  <2>2. source.dir \o ups \o reference.parts \in Seq(S)
      BY <1>1, <1>2, <1>4, <2>1
  <2>3. base = source.dir \o ups \o reference.parts
      BY DEF ScriptBase, base, ups
  <2>4. PICK b \in Seq(S) : b = source.dir \o ups \o reference.parts
      BY <2>2
  <2> HIDE DEF base
  <2>5. base = b
      BY <2>3, <2>4
  <2>6. Len(b) \in Nat
      OBVIOUS
  <2> QED BY <2>5, <2>6
<1>6. f \in ToSet(listing) /\ \E i \in DOMAIN ScriptCandidates(base) : f = ScriptCandidates(base)[i]
    BY <1>3, FoundIsCandidate
<1>7. \/ f.dir = Front(base) /\ f.name = Last(base)
      \/ f.dir = base
      \/ /\ Last(base) \in DOMAIN Dotted /\ f.dir = Front(base)
         /\ f.name = Dotted[Last(base)].name /\ f.ext = Dotted[Last(base)].ext
    BY <1>6 DEF ScriptCandidates, File
<1>8. reference.dots = 1
  <2>1. SUFFICES ASSUME reference.dots > 1 PROVE FALSE
      BY <1>1, <1>3
  <2> DEFINE p == Len(source.dir) + 1
  <2>2. p \in 1 .. Len(base) /\ base[p] = Parent
    <3>1. PICK d \in Seq(S), u \in Seq(S), t \in Seq(S) :
              d = source.dir /\ u = ups /\ t = reference.parts
        BY <1>1, <1>2, <1>4
    <3>2. Len(u) >= 1 /\ u[1] = Parent
        BY <1>1, <1>4, <2>1, <3>1
    <3>3. base = d \o u \o t
        BY <3>1 DEF ScriptBase
    <3>4. Len(d) + 1 \in 1 .. Len(d \o u \o t) /\ (d \o u \o t)[Len(d) + 1] = u[1]
        BY <3>2
    <3> QED BY <3>1, <3>2, <3>3, <3>4
  <2>3. Parent # f.name /\ Parent \notin ToSet(f.dir)
    <3>1. PICK i \in DOMAIN listing : f = listing[i]
        BY <1>6 DEF ToSet
    <3> QED BY <3>1, MapAssumption
  <2> HIDE DEF p, base
  <2>4. CASE f.dir = base
      BY <1>5, <2>2, <2>3, <2>4 DEF ToSet
  <2>5. CASE f.dir = Front(base) /\ (f.name = Last(base) \/ Last(base) \in DOMAIN Dotted)
    <3>1. p # Len(base)
        BY <2>2, <2>3, <2>5, MapAssumption DEF Last
    <3>2. p \in 1 .. Len(base) - 1 /\ Front(base)[p] = Parent /\ p \in DOMAIN Front(base)
      <4>1. PICK s \in Seq(S) : s = base
          BY <1>5
      <4>2. p \in 1 .. Len(s) - 1 /\ s[p] = Parent
          BY <2>2, <3>1, <4>1
      <4>3. SubSeq(s, 1, Len(s) - 1)[p] = s[p] /\ p \in DOMAIN SubSeq(s, 1, Len(s) - 1)
          BY <4>2
      <4> QED BY <4>1, <4>2, <4>3 DEF Front
    <3> QED BY <2>3, <2>5, <3>2 DEF ToSet
  <2> QED BY <1>7, <2>4, <2>5
<1>9. base = Meant(source, reference)
  <2>1. ups = <<>>
      BY <1>4, <1>8
  <2>2. PICK d \in Seq(S), t \in Seq(S) : d = source.dir /\ t = reference.parts
      BY <1>1, <1>2
  <2>3. d \o <<>> \o t = d \o t /\ SubSeq(d, 1, Len(d)) = d /\ (Len(d) = 0 => SubSeq(d, 1, 0) = d)
      OBVIOUS
  <2>4. Ups(source.dir, 0) = d
      BY <1>2, <2>2, <2>3 DEF Ups
  <2>5. base = d \o <<>> \o t
    <3> HIDE DEF ups
    <3>1. source.dir \o ups \o reference.parts = d \o <<>> \o t
        BY <2>1, <2>2
    <3> QED BY <3>1 DEF ScriptBase, ups
  <2>6. Meant(source, reference) = d \o t
    <3>1. reference.dots - 1 = 0
        BY <1>8
    <3> QED BY <2>2, <2>4, <3>1 DEF Meant
  <2> HIDE DEF base
  <2> QED BY <2>3, <2>5, <2>6
<1>10. Append(Front(base), Last(base)) = base
  <2> HIDE DEF base
  <2>1. PICK s \in Seq(S) : s = base
      BY <1>5
  <2>2. s # <<>> => Append(SubSeq(s, 1, Len(s) - 1), s[Len(s)]) = s
      OBVIOUS
  <2> QED BY <1>3, <2>1, <2>2 DEF Front, Last
<1> HIDE DEF base
<1>11. CASE Last(base) \in DOMAIN Dotted /\ f.dir = Front(base)
            /\ f.name = Dotted[Last(base)].name /\ f.ext = Dotted[Last(base)].ext
  <2>1. f.name \o "." \o f.ext = Last(base)
      BY <1>11, MapAssumption
  <2> QED BY <1>8, <1>9, <1>10, <1>11, <2>1 DEF Path
<1> QED BY <1>7, <1>8, <1>9, <1>10, <1>11

\* What ends the analysis.
LEMMA OnlyRootHalts ==
    ASSUME NEW source \in FileType, NEW reference \in References, Raises(source, reference)
    PROVE  reference.parts = <<>> /\ Len(source.dir) <= reference.dots - 1
<1> DEFINE S == STRING \cup {Parent}
           ups == [i \in 1 .. reference.dots - 1 |-> Parent]
<1>1. reference.dots \in Nat \ {0} /\ reference.parts \in Seq(S)
  <2>1. reference.dots \in Nat /\ reference.parts \in Seq(STRING \ {Parent})
      BY MapAssumption
  <2>2. reference.dots > 0
      BY DEF Raises
  <2> QED BY <2>1, <2>2, SeqMonotonic, STRING \ {Parent} \subseteq S
<1>2. source.dir \in Seq(S) /\ Len(source.dir) \in Nat
  <2>1. source.dir \in Seq(STRING) /\ Len(source.dir) \in Nat
      BY DEF FileType
  <2> QED BY <2>1, SeqMonotonic, STRING \subseteq S
<1> HIDE DEF S
<1>3. \A d, t \in Seq(S) : d \o t = <<>> => Len(d) = 0 /\ t = <<>>
  <2> SUFFICES ASSUME NEW d \in Seq(S), NEW t \in Seq(S), d \o t = <<>>
               PROVE  Len(d) = 0 /\ t = <<>>
      OBVIOUS
  <2>1. Len(d \o t) = Len(d) + Len(t) /\ Len(d) \in Nat /\ Len(t) \in Nat
      OBVIOUS
  <2>2. Len(d) = 0 /\ Len(t) = 0
      BY <2>1
  <2> QED BY <2>2
<1>4. PICK d \in Seq(S), t \in Seq(S) : d = source.dir /\ t = reference.parts
    BY <1>1, <1>2
<1>5. CASE source.ext = "py"
  <2> DEFINE n == reference.dots - 1
             kept == IF n < Len(d) THEN Len(d) - n ELSE 0
  <2>1. n \in Nat /\ Len(d) \in Nat /\ kept \in 0 .. Len(d)
      BY <1>1, <1>4
  <2>2. SubSeq(d, 1, kept) \in Seq(S) /\ Len(SubSeq(d, 1, kept)) = kept
      BY <2>1
  <2>3. SubSeq(d, 1, kept) \o t = <<>>
      BY <1>1, <1>4, <1>5 DEF Raises, Base, PythonBase, Ups
  <2>4. kept = 0 /\ t = <<>>
      BY <1>3, <2>2, <2>3
  <2> QED BY <1>4, <2>1, <2>4
<1>6. CASE source.ext # "py"
  <2>1. PICK n \in Nat : n = reference.dots - 1
      BY <1>1
  <2>2. PICK x \in S : x = Parent
      BY DEF S
  <2>3. [i \in 1 .. n |-> x] \in Seq(S) /\ Len([i \in 1 .. n |-> x]) = n
      BY <2>2, Repeated
  <2>4. ups = [i \in 1 .. n |-> x]
      BY <2>1, <2>2 DEF ups
  <2>5. PICK u \in Seq(S) : u = ups /\ Len(u) = n
      BY <2>3, <2>4
  <2>6. d \o u \o t = <<>>
      BY <1>4, <1>6, <2>5 DEF Raises, Base, ScriptBase
  <2>7. Len(d \o u) = 0 /\ t = <<>>
    <3>1. d \o u \in Seq(S)
        OBVIOUS
    <3> QED BY <1>3, <2>6, <3>1
  <2>8. Len(d) <= Len(d \o u)
      OBVIOUS
  <2> QED BY <1>2, <1>4, <2>1, <2>7, <2>8
<1> QED BY <1>5, <1>6

LEMMA InvLeadsRight == MapInv => ImportsLeadRight
<1>1. ASSUME MapInv, NEW r \in resolved
      PROVE  LET meant == Meant(r.source, r.reference)
             IN /\ r.file \in ToSet(listing)
                /\ r.reference.dots - 1 \in 0 .. Len(r.source.dir) =>
                      /\ \/ meant \in {Append(r.file.dir, r.file.name), r.file.dir}
                         \/ r.source.ext # "py" /\ meant = Path(r.file)
                         \/ /\ r.source.ext = "py"
                            /\ meant[1] \in DOMAIN Hidden \/ Last(meant) \in DOMAIN Dotted
                      /\ r.source.ext # "py" => r.reference.dots = 1
  <2>1. /\ r.source \in ToSet(listing) /\ r.reference \in References
        /\ r.file \in LedTo(r.source, r.reference) /\ listing \in Listings
      BY <1>1 DEF MapInv, ResolvedFits, PlacesFit
  <2>2. r.source \in FileType
      BY <1>1, <2>1, NextFile DEF ToSet
  <2>3. r.file \in ToSet(listing)
      BY <2>1 DEF LedTo, FirstFound
  <2>4. CASE r.source.ext = "py"
      BY <2>1, <2>2, <2>3, <2>4, PythonLeadsRight
  <2>5. CASE r.source.ext # "py"
      BY <2>1, <2>2, <2>3, <2>5, ScriptLeadsRight
  <2> QED BY <2>4, <2>5
<1>2. ASSUME MapInv, NEW r \in halted
      PROVE  r.reference.parts = <<>> /\ Len(r.source.dir) <= r.reference.dots - 1
  <2>1. r.source \in ToSet(listing) /\ r.reference \in References /\ Raises(r.source, r.reference)
      BY <1>2 DEF MapInv, HaltedFits
  <2>2. r.source \in FileType
      BY <1>2, <2>1, NextFile DEF ToSet
  <2> QED BY <2>1, <2>2, OnlyRootHalts
<1> QED BY <1>1, <1>2 DEF ImportsLeadRight

THEOREM MapIsTrueAlways == MapSpec => []MapIsTrue
<1>1. MapInv => MapIsTrue
    BY InvTreeIsWhole, InvLeadsRight DEF MapIsTrue
<1> QED BY <1>1, MapBegins, MapKeepsInv, PTL DEF MapSpec

(* ----------------------------- the text of a file -------------------------- *)

\* Each value is made from the one before it.
Makes(f, z, step, n, V) ==
    /\ f \in [0 .. n -> V] /\ f[0] = z
    /\ \A m \in 1 .. n : f[m] = step[m][f[m - 1]]

LEMMA Unfolds ==
    ASSUME NEW V, NEW z, NEW N, NEW step, z \in V, N \in Nat, step \in [1 .. N -> [V -> V]]
    PROVE  \E f : Makes(f, z, step, N, V)
<1> DEFINE Made(f, n) == Makes(f, z, step, n, V)
           Without == {n \in 0 .. N : ~ \E f : Made(f, n)}
<1>1. SUFFICES ASSUME Without # {} PROVE FALSE
  <2>1. N \in 0 .. N
      OBVIOUS
  <2> QED BY <2>1
<1>2. Without \in SUBSET Nat
    OBVIOUS
<1>3. PICK n \in Without : \A m \in Without : n <= m
  <2> HIDE DEF Without
  <2> QED BY <1>1, <1>2, HasLeast
<1>4. n \in 0 .. N /\ ~ \E f : Made(f, n)
    BY <1>3
<1>5. n # 0
  <2>1. Made([m \in 0 .. 0 |-> z], 0)
      BY DEF Makes
  <2> HIDE DEF Made
  <2> QED BY <1>4, <2>1
<1>6. n \in 1 .. N /\ n - 1 \in 0 .. N /\ n - 1 \in Nat /\ ~(n <= n - 1)
    BY <1>4, <1>5
<1>7. PICK g : Made(g, n - 1)
  <2>1. n - 1 \notin Without
    <3> HIDE DEF Without
    <3> QED BY <1>3, <1>6
  <2> QED BY <1>6, <2>1
<1> DEFINE f == [m \in 0 .. n |-> IF m = n THEN step[n][g[n - 1]] ELSE g[m]]
<1>8. Made(f, n)
  <2>0. /\ g \in [0 .. n - 1 -> V] /\ g[0] = z
        /\ \A m \in 1 .. n - 1 : g[m] = step[m][g[m - 1]]
      BY <1>7 DEF Makes
  <2>1. g[n - 1] \in V
      BY <1>6, <2>0
  <2>2. step[n][g[n - 1]] \in V
      BY <1>6, <2>1
  <2>3. f \in [0 .. n -> V]
    <3>1. ASSUME NEW m \in 0 .. n PROVE f[m] \in V
      <4>1. m = n \/ m \in 0 .. n - 1
          BY <1>6
      <4> QED BY <2>0, <2>2, <4>1
    <3> QED BY <3>1
  <2>4. f[0] = z
      BY <1>6, <2>0
  <2>5. ASSUME NEW m \in 1 .. n PROVE f[m] = step[m][f[m - 1]]
    <3>1. m - 1 \in 0 .. n /\ m - 1 # n /\ m \in 0 .. n
        BY <1>6
    <3>2. f[m - 1] = g[m - 1]
        BY <3>1
    <3>3. CASE m = n
        BY <3>1, <3>2, <3>3
    <3>4. CASE m # n
      <4>1. m \in 1 .. n - 1 /\ f[m] = g[m]
          BY <1>6, <3>1, <3>4
      <4>2. g[m] = step[m][g[m - 1]]
          BY <2>0, <4>1
      <4> QED BY <3>2, <4>1, <4>2
    <3> QED BY <3>3, <3>4
  <2> HIDE DEF f
  <2> QED BY <2>3, <2>4, <2>5 DEF Makes
<1> HIDE DEF Made
<1> QED BY <1>4, <1>8

\* The bytes of characters, one after the other.
Flattens(f, s) == f = [i \in 1 .. Len(s) |-> IF i = 1 THEN s[i] ELSE f[i - 1] \o s[i]]
Flattened(s) == CHOOSE f : Flattens(f, s)

LEMMA FlattensTo ==
    ASSUME NEW S, NEW s \in Seq(Seq(S)), NEW F \in [0 .. Len(s) -> Seq(S)], F[0] = <<>>,
           \A i \in 1 .. Len(s) : F[i] = F[i - 1] \o s[i]
    PROVE  FlattenSeq(s) = F[Len(s)]
<1>1. Len(s) \in Nat
    OBVIOUS
<1>2. CASE Len(s) = 0
  <2>1. s = <<>>
      BY <1>2
  <2>2. FlattenSeq(s) = s
      BY <1>2 DEF FlattenSeq
  <2> QED BY <1>2, <2>1, <2>2
<1>3. CASE Len(s) # 0
  <2> DEFINE G == [i \in 1 .. Len(s) |-> F[i]]
             H == [i \in 1 .. Len(s) |-> IF i = 1 THEN s[i] ELSE G[i - 1] \o s[i]]
  <2>1. ASSUME NEW i \in 1 .. Len(s) PROVE G[i] = H[i]
    <3>1. CASE i = 1
      <4>1. G[i] = <<>> \o s[1]
        <5> HIDE DEF G, H
        <5>1. 1 \in 1 .. Len(s) /\ 1 - 1 = 0
            BY <3>1
        <5>2. F[1] = F[1 - 1] \o s[1]
            BY <5>1
        <5>3. G[i] = F[i]
            BY DEF G
        <5> QED BY <3>1, <5>1, <5>2, <5>3
      <4>2. s[1] \in Seq(S)
          BY <2>1, <3>1
      <4>3. <<>> \o s[1] = s[1]
          BY <4>2
      <4> QED BY <3>1, <4>1, <4>3
    <3>2. CASE i # 1
      <4>1. i - 1 \in 1 .. Len(s)
          BY <1>1, <3>2
      <4> QED BY <3>2, <4>1
    <3> QED BY <3>1, <3>2
  <2>2. G = H
    <3>1. G = [i \in 1 .. Len(s) |-> G[i]] /\ H = [i \in 1 .. Len(s) |-> H[i]]
        OBVIOUS
    <3> HIDE DEF G, H
    <3> QED BY <2>1, <3>1
  <2>3. Flattens(G, s)
    <3> HIDE DEF G
    <3> QED BY <2>2 DEF Flattens
  <2>4. Flattens(Flattened(s), s)
      BY <2>3 DEF Flattened
  <2>5. FlattenSeq(s) = Flattened(s)[Len(s)]
      BY <1>3 DEF FlattenSeq, Flattened, Flattens
  <2> DEFINE f == Flattened(s)
             Differ == {n \in 1 .. Len(s) : f[n] # F[n]}
  <2>6. f = [i \in 1 .. Len(s) |-> IF i = 1 THEN s[i] ELSE f[i - 1] \o s[i]]
      BY <2>4 DEF Flattens
  <2> HIDE DEF f, G, H
  <2>7. Differ = {}
    <3>1. SUFFICES ASSUME Differ # {} PROVE FALSE
        OBVIOUS
    <3>2. Differ \in SUBSET Nat
        OBVIOUS
    <3>3. PICK n \in Differ : \A m \in Differ : n <= m
      <4> HIDE DEF Differ
      <4> QED BY <3>1, <3>2, HasLeast
    <3>4. n \in 1 .. Len(s) /\ f[n] # F[n]
        BY <3>3
    <3>5. f[n] = IF n = 1 THEN s[n] ELSE f[n - 1] \o s[n]
        BY <2>6, <3>4
    <3>6. F[n] = F[n - 1] \o s[n]
        BY <3>4
    <3>7. CASE n = 1
      <4>1. s[1] \in Seq(S) /\ F[1] = F[0] \o s[1]
        <5>1. n - 1 = 0
            BY <3>7
        <5>2. s[n] \in Seq(S)
            BY <3>4
        <5> QED BY <3>6, <3>7, <5>1, <5>2
      <4>2. <<>> \o s[1] = s[1]
          BY <4>1
      <4> QED BY <3>4, <3>5, <3>7, <4>1, <4>2
    <3>8. CASE n # 1
      <4>1. n - 1 \in 1 .. Len(s) /\ ~(n <= n - 1)
          BY <1>1, <3>4, <3>8
      <4>2. n - 1 \notin Differ
        <5> HIDE DEF Differ
        <5> QED BY <3>3, <4>1
      <4>3. f[n - 1] = F[n - 1]
          BY <4>1, <4>2
      <4> QED BY <3>4, <3>5, <3>6, <3>8, <4>3
    <3> QED BY <3>7, <3>8
  <2>8. Len(s) \in 1 .. Len(s)
      BY <1>1, <1>3
  <2>9. f[Len(s)] = F[Len(s)]
      BY <2>7, <2>8
  <2> QED BY <2>5, <2>9 DEF f
<1> QED BY <1>2, <1>3

LEMMA FlattensUp ==
    ASSUME NEW S, NEW s \in Seq(Seq(S))
    PROVE  \E F \in [0 .. Len(s) -> Seq(S)] :
              F[0] = <<>> /\ \A i \in 1 .. Len(s) : F[i] = F[i - 1] \o s[i]
<1> DEFINE N == Len(s)
           V == Seq(S)
           Onto(i) == [v \in V |-> v \o s[i]]
           step == [i \in 1 .. N |-> Onto(i)]
<1>1. PICK z : z = <<>>
    OBVIOUS
<1>2. N \in Nat /\ z \in V
    BY <1>1
<1>3. step \in [1 .. N -> [V -> V]]
  <2>1. ASSUME NEW i \in 1 .. N PROVE Onto(i) \in [V -> V]
    <3>1. s[i] \in Seq(S)
        OBVIOUS
    <3>2. \A v \in Seq(S) : v \o s[i] \in Seq(S)
        BY <3>1
    <3> QED BY <3>2
  <2> HIDE DEF Onto, V
  <2> QED BY <2>1
<1>4. \A i \in 1 .. N : \A v \in V : step[i][v] = v \o s[i]
    OBVIOUS
<1> HIDE DEF step, Onto, N, V
<1>5. PICK F : Makes(F, z, step, N, V)
    BY <1>2, <1>3, Unfolds
<1>6. ASSUME NEW i \in 1 .. N PROVE F[i] = F[i - 1] \o s[i]
  <2>1. i - 1 \in 0 .. N
      BY <1>2
  <2>2. F[i] = step[i][F[i - 1]] /\ F[i - 1] \in V
      BY <1>5, <2>1 DEF Makes
  <2> QED BY <1>4, <2>2
<1>7. F \in [0 .. N -> V] /\ F[0] = <<>>
    BY <1>1, <1>5 DEF Makes
<1> QED BY <1>6, <1>7 DEF N, V

LEMMA Longer ==
    ASSUME NEW S, NEW s \in Seq(S), NEW x \in S
    PROVE  /\ <<>> \in Seq(S) /\ Append(s, x) \in Seq(S) /\ Append(s, x) # <<>>
           /\ Len(Append(s, x)) = Len(s) + 1 /\ Append(s, x)[Len(s) + 1] = x
           /\ \A i \in 1 .. Len(s) : Append(s, x)[i] = s[i]
    OBVIOUS

LEMMA NothingFlattened == FlattenSeq(<<>>) = <<>>
    BY DEF FlattenSeq

LEMMA OneMoreFlattened ==
    ASSUME NEW S, NEW s \in Seq(Seq(S)), NEW x \in Seq(S)
    PROVE  FlattenSeq(Append(s, x)) = FlattenSeq(s) \o x /\ FlattenSeq(s) \in Seq(S)
<1>1. PICK t \in Seq(Seq(S)) : t = Append(s, x)
  <2>1. Append(s, x) \in Seq(Seq(S))
      BY Longer, Zenon
  <2> QED BY <2>1, Zenon
<1>2. /\ Len(s) \in Nat /\ Len(t) = Len(s) + 1 /\ t[Len(t)] = x
      /\ \A i \in 1 .. Len(s) : t[i] = s[i]
  <2>1. Len(s) \in Nat
      OBVIOUS
  <2> QED BY <1>1, <2>1, Longer
<1>3. PICK F \in [0 .. Len(t) -> Seq(S)] :
          F[0] = <<>> /\ \A i \in 1 .. Len(t) : F[i] = F[i - 1] \o t[i]
    BY FlattensUp
<1>4. FlattenSeq(t) = F[Len(t)]
    BY <1>3, FlattensTo
<1>5. FlattenSeq(s) = F[Len(s)] /\ F[Len(s)] \in Seq(S)
  <2> DEFINE G == [n \in 0 .. Len(s) |-> F[n]]
  <2>1. \A n \in 0 .. Len(s) : n \in 0 .. Len(t)
      BY <1>2
  <2>2. G \in [0 .. Len(s) -> Seq(S)]
      BY <1>3, <2>1
  <2>3. 0 \in 0 .. Len(s) /\ Len(s) \in 0 .. Len(s)
      BY <1>2
  <2>4. G[0] = <<>> /\ G[Len(s)] = F[Len(s)]
      BY <1>3, <2>3
  <2>5. ASSUME NEW i \in 1 .. Len(s) PROVE G[i] = G[i - 1] \o s[i]
    <3>1. i \in 1 .. Len(t) /\ i \in 0 .. Len(s) /\ i - 1 \in 0 .. Len(s)
        BY <1>2
    <3>2. F[i] = F[i - 1] \o t[i] /\ t[i] = s[i]
        BY <1>2, <1>3, <3>1
    <3> QED BY <3>1, <3>2
  <2> HIDE DEF G
  <2>6. FlattenSeq(s) = G[Len(s)]
      BY <2>2, <2>4, <2>5, FlattensTo
  <2> QED BY <2>1, <2>2, <2>3, <2>4, <2>6
<1>6. F[Len(t)] = F[Len(s)] \o x
  <2>1. Len(t) \in 1 .. Len(t) /\ Len(t) - 1 = Len(s)
      BY <1>2
  <2> QED BY <1>2, <1>3, <2>1
<1> QED BY <1>1, <1>4, <1>5, <1>6

\* A text of UTF-8 has one character for each byte that is not a second one.
Reads(f, b) ==
    f = [n \in 0 .. Len(b) |->
            IF n = 0 THEN <<>>
            ELSE IF b[n] \in Trails
                 THEN Append(Front(f[n - 1]), Append(Last(f[n - 1]), b[n]))
                 ELSE Append(f[n - 1], <<b[n]>>)]
ReadOf(b) == CHOOSE f : Reads(f, b)
CharacterTexts == Seq(Seq(Bytes))
OneMore(t, x) ==
    IF x \in Trails /\ t # <<>> THEN Append(Front(t), Append(Last(t), x)) ELSE Append(t, <<x>>)

LEMMA LongerText ==
    ASSUME NEW t \in CharacterTexts, NEW c \in Seq(Bytes)
    PROVE  Append(t, c) \in CharacterTexts /\ Append(t, c) # <<>>
<1>1. PICK S : S = Seq(Bytes)
    OBVIOUS
<1>2. t \in Seq(S) /\ c \in S
    BY <1>1 DEF CharacterTexts
<1>3. Append(t, c) \in Seq(S) /\ Append(t, c) # <<>>
    BY <1>2, Longer
<1> QED BY <1>1, <1>3 DEF CharacterTexts

LEMMA OneMoreIsText ==
    ASSUME NEW t \in CharacterTexts, NEW x \in Bytes
    PROVE  /\ OneMore(t, x) \in CharacterTexts /\ OneMore(t, x) # <<>>
           /\ FlattenSeq(OneMore(t, x)) = FlattenSeq(t) \o <<x>>
           /\ FlattenSeq(t) \in Seq(Bytes)
<1>1. <<x>> \in Seq(Bytes)
    OBVIOUS
<1>2. FlattenSeq(Append(t, <<x>>)) = FlattenSeq(t) \o <<x>> /\ FlattenSeq(t) \in Seq(Bytes)
    BY <1>1, OneMoreFlattened DEF CharacterTexts
<1>3. CASE x \in Trails /\ t # <<>>
  <2>1. PICK u \in CharacterTexts, w \in Seq(Bytes) : u = Front(t) /\ w = Last(t) /\ t = Append(u, w)
    <3>1. t \in Seq(Seq(Bytes)) /\ Len(t) \in Nat /\ Len(t) # 0
        BY <1>3 DEF CharacterTexts
    <3>2. SubSeq(t, 1, Len(t) - 1) \in Seq(Seq(Bytes)) /\ t[Len(t)] \in Seq(Bytes)
        BY <3>1
    <3>3. t = Append(SubSeq(t, 1, Len(t) - 1), t[Len(t)])
        BY <3>1
    <3> QED BY <3>2, <3>3 DEF Front, Last, CharacterTexts
  <2>2. Append(w, x) \in Seq(Bytes) /\ Append(w, x) = w \o <<x>>
      OBVIOUS
  <2>3. FlattenSeq(t) = FlattenSeq(u) \o w /\ FlattenSeq(u) \in Seq(Bytes)
      BY <2>1, OneMoreFlattened DEF CharacterTexts
  <2>4. FlattenSeq(Append(u, Append(w, x))) = FlattenSeq(u) \o Append(w, x)
      BY <2>2, OneMoreFlattened DEF CharacterTexts
  <2>5. PICK v \in Seq(Bytes) : v = FlattenSeq(u)
      BY <2>3
  <2>6. v \o (w \o <<x>>) = (v \o w) \o <<x>>
      BY <1>1
  <2>7. Append(u, Append(w, x)) \in CharacterTexts /\ Append(u, Append(w, x)) # <<>>
      BY <2>2, LongerText
  <2> QED BY <1>2, <1>3, <2>1, <2>2, <2>3, <2>4, <2>5, <2>6, <2>7 DEF OneMore
<1>4. CASE ~(x \in Trails /\ t # <<>>)
  <2>1. Append(t, <<x>>) \in CharacterTexts /\ Append(t, <<x>>) # <<>>
      BY <1>1, LongerText
  <2> QED BY <1>2, <1>4, <2>1 DEF OneMore
<1> QED BY <1>3, <1>4

LEMMA Utf8IsKept ==
    ASSUME NEW b \in Seq(Bytes), \A i \in DOMAIN b : b[i] \in Trails => i > 1
    PROVE  Utf8Characters(b) \in CharacterTexts /\ FlattenSeq(Utf8Characters(b)) = b
<1> DEFINE N == Len(b)
           Onto(i) == [t \in CharacterTexts |-> OneMore(t, b[i])]
           step == [i \in 1 .. N |-> Onto(i)]
<1>1. N \in Nat /\ DOMAIN b = 1 .. N /\ \A i \in 1 .. N : b[i] \in Bytes
    OBVIOUS
<1>2. PICK z : z = <<>> /\ z \in CharacterTexts
  <2>1. <<>> \in Seq(Seq(Bytes))
      OBVIOUS
  <2> QED BY <2>1 DEF CharacterTexts
<1>3. step \in [1 .. N -> [CharacterTexts -> CharacterTexts]]
  <2>1. ASSUME NEW i \in 1 .. N PROVE Onto(i) \in [CharacterTexts -> CharacterTexts]
      BY <1>1, OneMoreIsText
  <2> HIDE DEF Onto, N
  <2> QED BY <2>1
<1>4. \A i \in 1 .. N : \A t \in CharacterTexts : step[i][t] = OneMore(t, b[i])
    OBVIOUS
<1> HIDE DEF step, Onto, N
<1>5. PICK F : Makes(F, z, step, N, CharacterTexts)
    BY <1>1, <1>2, <1>3, Unfolds
<1>6. F \in [0 .. N -> CharacterTexts] /\ F[0] = <<>>
    BY <1>2, <1>5 DEF Makes
<1>7. ASSUME NEW n \in 1 .. N
      PROVE  F[n] = OneMore(F[n - 1], b[n]) /\ F[n] # <<>> /\ n \in 0 .. N /\ n - 1 \in 0 .. N
  <2>1. n \in 0 .. N /\ n - 1 \in 0 .. N
      BY <1>1
  <2>2. F[n] = step[n][F[n - 1]] /\ F[n - 1] \in CharacterTexts
      BY <1>5, <2>1 DEF Makes
  <2>3. F[n] = OneMore(F[n - 1], b[n])
      BY <1>4, <2>2
  <2>4. OneMore(F[n - 1], b[n]) # <<>>
      BY <1>1, <2>2, OneMoreIsText
  <2> QED BY <2>1, <2>3, <2>4
<1>8. Reads(F, b)
  <2> DEFINE H == [n \in 0 .. N |->
            IF n = 0 THEN <<>>
            ELSE IF b[n] \in Trails
                 THEN Append(Front(F[n - 1]), Append(Last(F[n - 1]), b[n]))
                 ELSE Append(F[n - 1], <<b[n]>>)]
  <2>1. ASSUME NEW n \in 0 .. N PROVE F[n] = H[n]
    <3>1. CASE n = 0
        BY <1>6, <3>1
    <3>2. CASE n # 0
      <4>1. n \in 1 .. N /\ (b[n] \in Trails => n - 1 \in 1 .. N)
          BY <1>1, <3>2
      <4>2. F[n] = OneMore(F[n - 1], b[n]) /\ (b[n] \in Trails => F[n - 1] # <<>>)
          BY <1>7, <4>1
      <4>3. H[n] = IF b[n] \in Trails
                   THEN Append(Front(F[n - 1]), Append(Last(F[n - 1]), b[n]))
                   ELSE Append(F[n - 1], <<b[n]>>)
          BY <3>2
      <4> HIDE DEF H
      <4> QED BY <4>2, <4>3 DEF OneMore
    <3> QED BY <3>1, <3>2
  <2>2. F = H
    <3>1. F = [n \in 0 .. N |-> F[n]] /\ H = [n \in 0 .. N |-> H[n]]
        BY <1>6
    <3> HIDE DEF H
    <3> QED BY <2>1, <3>1
  <2> QED BY <2>2 DEF Reads, N
<1>9. Reads(ReadOf(b), b)
    BY <1>8 DEF ReadOf
<1>10. Utf8Characters(b) = ReadOf(b)[N]
    BY DEF Utf8Characters, ReadOf, Reads, N
<1> DEFINE g == ReadOf(b)
<1>11. g = [n \in 0 .. N |->
            IF n = 0 THEN <<>>
            ELSE IF b[n] \in Trails
                 THEN Append(Front(g[n - 1]), Append(Last(g[n - 1]), b[n]))
                 ELSE Append(g[n - 1], <<b[n]>>)]
    BY <1>9 DEF Reads, N
<1> HIDE DEF g
<1> DEFINE EndsWhole(n) == /\ g[n] \in CharacterTexts /\ (n # 0 => g[n] # <<>>)
                       /\ FlattenSeq(g[n]) = SubSeq(b, 1, n)
           Others == {n \in 0 .. N : ~EndsWhole(n)}
<1>12. Others = {}
  <2>1. SUFFICES ASSUME Others # {} PROVE FALSE
      OBVIOUS
  <2>2. Others \in SUBSET Nat
      OBVIOUS
  <2>3. PICK n \in Others : \A m \in Others : n <= m
    <3> HIDE DEF Others
    <3> QED BY <2>1, <2>2, HasLeast
  <2>4. n \in 0 .. N /\ ~EndsWhole(n)
      BY <2>3
  <2>5. g[n] = IF n = 0 THEN <<>>
               ELSE IF b[n] \in Trails
                    THEN Append(Front(g[n - 1]), Append(Last(g[n - 1]), b[n]))
                    ELSE Append(g[n - 1], <<b[n]>>)
      BY <1>11, <2>4
  <2>6. n # 0
    <3>1. SubSeq(b, 1, 0) = <<>>
        OBVIOUS
    <3>2. <<>> \in CharacterTexts
        BY DEF CharacterTexts
    <3> QED BY <2>4, <2>5, <3>1, <3>2, NothingFlattened
  <2>7. n \in 1 .. N /\ n - 1 \in 0 .. N /\ ~(n <= n - 1) /\ (b[n] \in Trails => n - 1 # 0)
      BY <1>1, <2>4, <2>6
  <2>8. EndsWhole(n - 1)
    <3>1. n - 1 \notin Others
      <4> HIDE DEF Others
      <4> QED BY <2>3, <2>7
    <3> HIDE DEF EndsWhole
    <3> QED BY <2>7, <3>1
  <2>9. g[n] = OneMore(g[n - 1], b[n])
      BY <2>5, <2>6, <2>7, <2>8 DEF OneMore
  <2>10. b[n] \in Bytes
      BY <1>1, <2>7
  <2>11. g[n] \in CharacterTexts /\ g[n] # <<>> /\ FlattenSeq(g[n]) = SubSeq(b, 1, n - 1) \o <<b[n]>>
      BY <2>8, <2>9, <2>10, OneMoreIsText
  <2>12. SubSeq(b, 1, n - 1) \o <<b[n]>> = SubSeq(b, 1, n)
    <3>1. n \in 1 .. Len(b)
        BY <2>7 DEF N
    <3> QED BY <3>1
  <2> QED BY <2>4, <2>11, <2>12
<1>13. EndsWhole(N)
  <2>1. N \in 0 .. N
      BY <1>1
  <2> HIDE DEF EndsWhole
  <2> QED BY <1>12, <2>1
<1>14. SubSeq(b, 1, N) = b
    BY DEF N
<1> QED BY <1>10, <1>13, <1>14 DEF g

LEMMA IsSequence ==
    ASSUME NEW S, NEW n \in Nat, NEW s \in [1 .. n -> S]
    PROVE  s \in Seq(S) /\ Len(s) = n
    OBVIOUS

LEMMA SinglesKept ==
    ASSUME NEW b \in Seq(Bytes)
    PROVE  FlattenSeq([i \in DOMAIN b |-> <<b[i]>>]) = b
<1> DEFINE N == Len(b)
           s == [i \in 1 .. N |-> <<b[i]>>]
           F == [n \in 0 .. N |-> SubSeq(b, 1, n)]
<1>1. N \in Nat /\ DOMAIN b = 1 .. N /\ \A i \in 1 .. N : b[i] \in Bytes
    OBVIOUS
<1>2. s \in Seq(Seq(Bytes)) /\ Len(s) = N
  <2>1. \A i \in 1 .. N : <<b[i]>> \in Seq(Bytes)
      BY <1>1
  <2>2. s \in [1 .. N -> Seq(Bytes)]
      BY <2>1
  <2> HIDE DEF s, N
  <2> QED BY <1>1, <2>2, IsSequence
<1>3. F \in [0 .. N -> Seq(Bytes)]
  <2>1. \A n \in 0 .. N : SubSeq(b, 1, n) \in Seq(Bytes)
      OBVIOUS
  <2> HIDE DEF N
  <2> QED BY <2>1
<1>4. F[0] = <<>> /\ F[N] = b
  <2>1. SubSeq(b, 1, 0) = <<>> /\ SubSeq(b, 1, N) = b
      OBVIOUS
  <2>2. 0 \in 0 .. N /\ N \in 0 .. N
      BY <1>1
  <2> HIDE DEF N
  <2> QED BY <2>1, <2>2
<1>5. ASSUME NEW n \in 1 .. N PROVE F[n] = F[n - 1] \o s[n]
  <2>1. n \in 0 .. N /\ n - 1 \in 0 .. N
      BY <1>1
  <2>2. SubSeq(b, 1, n) = SubSeq(b, 1, n - 1) \o <<b[n]>>
      OBVIOUS
  <2>3. F[n] = SubSeq(b, 1, n) /\ F[n - 1] = SubSeq(b, 1, n - 1) /\ s[n] = <<b[n]>>
      BY <2>1
  <2> HIDE DEF F, s, N
  <2> QED BY <2>2, <2>3
<1>6. FlattenSeq(s) = F[N]
  <2> HIDE DEF F, s, N
  <2> QED BY <1>2, <1>3, <1>4, <1>5, FlattensTo
<1>7. s = [i \in DOMAIN b |-> <<b[i]>>]
    BY <1>1
<1> HIDE DEF F, s
<1> QED BY <1>4, <1>6, <1>7

LEMMA PairsKept ==
    ASSUME NEW b \in Seq(Bytes), Starts(b, "W"), Len(b) % 2 = 1
    PROVE  FlattenSeq([i \in 1 .. (Len(b) + 1) \div 2 |->
                          IF i = 1 THEN <<"W">> ELSE <<b[2 * i - 2], b[2 * i - 1]>>]) = b
<1>1. PICK M \in Nat : Len(b) = 2 * M + 1
  <2>1. Len(b) \in Nat
      OBVIOUS
  <2>2. Len(b) = 2 * (Len(b) \div 2) + 1 /\ Len(b) \div 2 \in Nat
      BY <2>1
  <2> QED BY <2>2
<1> DEFINE N == M + 1
           c(i) == IF i = 1 THEN <<"W">> ELSE <<b[2 * i - 2], b[2 * i - 1]>>
           s == [i \in 1 .. N |-> c(i)]
           F == [n \in 0 .. N |-> IF n = 0 THEN <<>> ELSE SubSeq(b, 1, 2 * n - 1)]
<1>2. (Len(b) + 1) \div 2 = N /\ N \in Nat
  <2>1. (2 * M + 1 + 1) \div 2 = M + 1
      OBVIOUS
  <2> QED BY <1>1, <2>1
<1>3. b[1] = "W"
    BY DEF Starts
<1>4. ASSUME NEW i \in 2 .. N
      PROVE  2 * i - 2 \in 1 .. Len(b) /\ 2 * i - 1 \in 1 .. Len(b) /\ 2 * i - 3 \in 1 .. Len(b)
    BY <1>1
<1>5. ASSUME NEW i \in 1 .. N PROVE c(i) \in Seq(Bytes)
  <2>1. CASE i = 1
    <3>1. "W" \in Bytes
        BY DEF Bytes
    <3>2. <<"W">> \in Seq(Bytes)
        BY <3>1
    <3> QED BY <2>1, <3>2
  <2>2. CASE i # 1
    <3>1. i \in 2 .. N
        BY <1>2, <2>2
    <3>2. b[2 * i - 2] \in Bytes /\ b[2 * i - 1] \in Bytes
        BY <1>4, <3>1
    <3>3. <<b[2 * i - 2], b[2 * i - 1]>> \in Seq(Bytes)
        BY <3>2
    <3> QED BY <2>2, <3>3
  <2> QED BY <2>1, <2>2
<1>6. s \in Seq(Seq(Bytes)) /\ Len(s) = N
  <2> HIDE DEF c, N
  <2>1. s \in [1 .. N -> Seq(Bytes)]
      BY <1>5
  <2> HIDE DEF s
  <2> QED BY <1>2, <2>1, IsSequence
<1>7. F \in [0 .. N -> Seq(Bytes)]
  <2>1. ASSUME NEW n \in 0 .. N PROVE F[n] \in Seq(Bytes)
    <3>1. CASE n = 0
      <4>1. <<>> \in Seq(Bytes)
          OBVIOUS
      <4> QED BY <3>1, <4>1
    <3>2. CASE n # 0
      <4>1. 2 * n - 1 \in 1 .. Len(b)
          BY <1>1, <3>2
      <4>2. SubSeq(b, 1, 2 * n - 1) \in Seq(Bytes)
          BY <4>1
      <4> QED BY <3>2, <4>2
    <3> QED BY <3>1, <3>2
  <2>2. F = [n \in 0 .. N |-> F[n]]
      OBVIOUS
  <2> HIDE DEF F, N
  <2> QED BY <2>1, <2>2
<1>8. F[0] = <<>> /\ F[N] = b
  <2>1. SubSeq(b, 1, 2 * N - 1) = b
    <3>1. 2 * N - 1 = Len(b)
        BY <1>1
    <3>2. SubSeq(b, 1, Len(b)) = b
        OBVIOUS
    <3> HIDE DEF N
    <3> QED BY <3>1, <3>2
  <2>2. 0 \in 0 .. N /\ N \in 0 .. N /\ N # 0
      BY <1>1
  <2> HIDE DEF N
  <2> QED BY <2>1, <2>2
<1>9. ASSUME NEW n \in 1 .. N PROVE F[n] = F[n - 1] \o s[n]
  <2>1. CASE n = 1
    <3>1. 1 \in 1 .. Len(b) /\ 1 \in 0 .. N /\ 0 \in 0 .. N /\ 1 \in 1 .. N
        BY <1>1
    <3>2. F[1] = SubSeq(b, 1, 1) /\ F[0] = <<>> /\ s[1] = <<"W">>
        BY <3>1
    <3>3. SubSeq(b, 1, 1) = <<b[1]>>
      <4>1. SubSeq(b, 1, 1) \in Seq(Bytes) /\ Len(SubSeq(b, 1, 1)) = 1 /\ SubSeq(b, 1, 1)[1] = b[1]
          BY <3>1
      <4>2. \A t \in Seq(Bytes) : Len(t) = 1 => t = <<t[1]>>
          OBVIOUS
      <4> QED BY <4>1, <4>2
    <3>4. <<>> \o <<"W">> = <<"W">>
        OBVIOUS
    <3>5. n - 1 = 0
        BY <2>1
    <3> HIDE DEF F, s, N
    <3> QED BY <1>3, <2>1, <3>2, <3>3, <3>4, <3>5
  <2>2. CASE n # 1
    <3>1. n \in 2 .. N /\ n \in 0 .. N /\ n - 1 \in 0 .. N /\ n - 1 # 0 /\ n # 0
        BY <1>1, <2>2
    <3>2. /\ F[n] = SubSeq(b, 1, 2 * n - 1)
          /\ F[n - 1] = SubSeq(b, 1, 2 * (n - 1) - 1) /\ 2 * (n - 1) - 1 = 2 * n - 3
          /\ s[n] = <<b[2 * n - 2], b[2 * n - 1]>>
        BY <2>2, <3>1
    <3>3. PICK k \in 1 .. Len(b) : k = 2 * n - 3
        BY <1>4, <3>1
    <3>4. k + 2 \in 1 .. Len(b) /\ k + 2 = 2 * n - 1 /\ k + 1 = 2 * n - 2
        BY <1>4, <3>1, <3>3
    <3>5. SubSeq(b, 1, k + 2) = SubSeq(b, 1, k) \o <<b[k + 1], b[k + 2]>>
        BY <3>4
    <3> HIDE DEF F, s, N
    <3> QED BY <3>2, <3>3, <3>4, <3>5
  <2> QED BY <2>1, <2>2
<1>10. FlattenSeq(s) = F[N]
  <2> HIDE DEF F, s, N
  <2> QED BY <1>2, <1>6, <1>7, <1>8, <1>9, FlattensTo
<1>11. s = [i \in 1 .. (Len(b) + 1) \div 2 |->
               IF i = 1 THEN <<"W">> ELSE <<b[2 * i - 2], b[2 * i - 1]>>]
  <2> HIDE DEF N
  <2> QED BY <1>2
<1> HIDE DEF F, s, N
<1> QED BY <1>8, <1>10, <1>11

\* What the sample of a file says of the whole.
LEMMA SampleIs ==
    ASSUME NEW b \in Seq(Bytes)
    PROVE  /\ Sample(b) \in Seq(Bytes) /\ Len(Sample(b)) \in Nat /\ Len(b) \in Nat
           /\ Len(Sample(b)) = IF Len(b) < SampleSize THEN Len(b) ELSE SampleSize
           /\ \A i \in 1 .. Len(Sample(b)) : Sample(b)[i] = b[i] /\ i \in 1 .. Len(b)
           /\ \A mark : Starts(Sample(b), mark) <=> Starts(b, mark)
<1>1. SampleSize \in Nat /\ SampleSize # 0 /\ Len(b) \in Nat
    BY FileReadingAssumption
<1>2. PICK n \in 0 .. Len(b) : n = IF Len(b) < SampleSize THEN Len(b) ELSE SampleSize
    BY <1>1
<1>3. PICK s \in Seq(Bytes) : s = SubSeq(b, 1, n)
  <2>1. SubSeq(b, 1, n) \in Seq(Bytes)
      OBVIOUS
  <2> QED BY <2>1
<1>4. Sample(b) = s
    BY <1>2, <1>3 DEF Sample
<1>5. Len(s) = n /\ \A i \in 1 .. n : s[i] = b[i]
    BY <1>3
<1>6. n = 0 <=> Len(b) = 0
    BY <1>1, <1>2
<1>7. s # <<>> <=> n # 0
    BY <1>5
<1>8. b # <<>> <=> n # 0
    BY <1>6
<1>9. n # 0 => s[1] = b[1]
    BY <1>5
<1>10. \A mark : Starts(s, mark) <=> Starts(b, mark)
    BY <1>7, <1>8, <1>9 DEF Starts
<1> QED BY <1>1, <1>2, <1>4, <1>5, <1>10

LEMMA EncodingIs ==
    ASSUME NEW f \in ReadFiles, NEW o \in ReadingOptions, NEW v \in FileVersions
    PROVE  LET e == Encoding(f, o, v)
           IN /\ e \in {"utf-8", "utf-8-sig", "utf-16-le", "cp1252", "iso-8859-1", "ascii",
                        "latin", "unknown"}
              /\ e = "utf-8-sig" => Starts(v.bytes, "B")
              /\ e = "utf-16-le" => Starts(v.bytes, "W")
<1>1. /\ v.bytes \in Seq(Bytes)
      /\ v.cookie \in {"none", "ascii", "latin", "unknown"}
    BY FileReadingAssumption
<1>2. \A mark : Starts(Sample(v.bytes), mark) <=> Starts(v.bytes, mark)
    BY <1>1, SampleIs
<1>3. CASE Starts(Sample(v.bytes), "B")
  <2>1. Detected(f, v) = "utf-8-sig"
      BY <1>3 DEF Detected, Starts
  <2> QED BY <1>2, <1>3, <2>1 DEF Encoding
<1>4. CASE ~Starts(Sample(v.bytes), "B") /\ Starts(Sample(v.bytes), "W")
  <2>1. Detected(f, v) = "utf-16-le"
      BY <1>4 DEF Detected
  <2> QED BY <1>2, <1>4, <2>1 DEF Encoding
<1>5. CASE ~Starts(Sample(v.bytes), "B") /\ ~Starts(Sample(v.bytes), "W")
  <2>1. CASE f.suffix = "python" /\ v.cookie # "none" /\ Decodes(Sample(v.bytes), v.cookie)
    <3>1. Detected(f, v) = v.cookie
        BY <1>5, <2>1 DEF Detected
    <3> QED BY <1>1, <2>1, <3>1 DEF Encoding
  <2>2. CASE ~(f.suffix = "python" /\ v.cookie # "none" /\ Decodes(Sample(v.bytes), v.cookie))
    <3>1. Detected(f, v) \in {"utf-8", "cp1252", "iso-8859-1"}
        BY <1>5, <2>2 DEF Detected
    <3> QED BY <3>1 DEF Encoding
  <2> QED BY <2>1, <2>2
<1> QED BY <1>3, <1>4, <1>5

\* No byte is lost or changed by a decoding that succeeds.
Marks(e) == IF e = "utf-8-sig" THEN <<"B">> ELSE <<>>

LEMMA TextIsKept ==
    ASSUME NEW f \in ReadFiles, NEW o \in ReadingOptions, NEW v \in FileVersions,
           Decodes(v.bytes, Encoding(f, o, v))
    PROVE  LET e == Encoding(f, o, v)
           IN Marks(e) \o FlattenSeq(Characters(v.bytes, e)) = v.bytes
<1> DEFINE e == Encoding(f, o, v)
<1>1. PICK b \in Seq(Bytes) : b = v.bytes
    BY FileReadingAssumption
<1>2. /\ e \in {"utf-8", "utf-8-sig", "utf-16-le", "cp1252", "iso-8859-1", "ascii",
                "latin", "unknown"}
      /\ e = "utf-8-sig" => Starts(b, "B")
      /\ e = "utf-16-le" => Starts(b, "W")
    BY <1>1, EncodingIs
<1> HIDE DEF e
<1>3. Decodes(b, e)
    BY <1>1 DEF e
<1>4. <<>> \o b = b
    OBVIOUS
<1>5. Marks(e) \o FlattenSeq(Characters(b, e)) = b
  <2>1. CASE e = "utf-8"
    <3>1. IsUtf8(b)
        BY <1>3, <2>1 DEF Decodes
    <3>2. \A i \in DOMAIN b : b[i] \in Trails => i > 1
        BY <3>1 DEF IsUtf8
    <3>3. FlattenSeq(Utf8Characters(b)) = b
        BY <3>2, Utf8IsKept
    <3> QED BY <1>4, <2>1, <3>3 DEF Characters, Marks
  <2>2. CASE e = "utf-8-sig"
    <3>1. IsUtf8(b) /\ b # <<>> /\ b[1] = "B"
        BY <1>2, <1>3, <2>2 DEF Decodes, Starts
    <3>2. PICK t \in Seq(Bytes) : t = Tail(b) /\ Len(t) = Len(b) - 1 /\ b = <<b[1]>> \o t
                                  /\ \A i \in 1 .. Len(t) : t[i] = b[i + 1]
      <4>1. /\ Tail(b) \in Seq(Bytes) /\ Len(Tail(b)) = Len(b) - 1
            /\ \A i \in 1 .. Len(b) - 1 : Tail(b)[i] = b[i + 1]
          BY <3>1
      <4>2. b = <<b[1]>> \o Tail(b)
          BY <3>1
      <4> QED BY <4>1, <4>2
    <3>3. ASSUME NEW i \in DOMAIN t, t[i] \in Trails PROVE i > 1
      <4>1. i \in 1 .. Len(t) /\ Len(b) \in Nat
          BY <3>2
      <4>2. i + 1 \in DOMAIN b /\ b[i + 1] \in Trails
          BY <3>2, <3>3, <4>1
      <4>3. b[(i + 1) - 1] = "L" /\ (i + 1) - 1 = i
          BY <3>1, <4>1, <4>2 DEF IsUtf8
      <4>4. b[i] = "L" /\ i # 1
          BY <3>1, <4>3
      <4> QED BY <4>1, <4>4
    <3>4. FlattenSeq(Utf8Characters(t)) = t
        BY <3>3, Utf8IsKept
    <3> QED BY <2>2, <3>1, <3>2, <3>4 DEF Characters, Marks
  <2>3. CASE e = "utf-16-le"
    <3>1. Len(b) % 2 = 1
        BY <1>3, <2>3 DEF Decodes
    <3>2. FlattenSeq(Characters(b, e)) = b
        BY <1>2, <2>3, <3>1, PairsKept DEF Characters
    <3> QED BY <1>4, <2>3, <3>2 DEF Marks
  <2>4. CASE e \notin {"utf-8", "utf-8-sig", "utf-16-le"}
    <3>1. Characters(b, e) = [i \in DOMAIN b |-> <<b[i]>>]
        BY <2>4 DEF Characters
    <3> QED BY <1>4, <2>4, <3>1, SinglesKept DEF Marks
  <2> QED BY <2>1, <2>2, <2>3, <2>4
<1> QED BY <1>1, <1>5 DEF e

\* A text of which nothing speaks against UTF-8 is taken for it.
Plain(f, o, v) ==
    /\ IsUtf8(v.bytes)
    /\ o.detects => /\ ~CutBySample(v.bytes)
                    /\ f.suffix # "python" \/ v.cookie = "none"

LEMMA PlainIsUtf8 ==
    ASSUME NEW f \in ReadFiles, NEW o \in ReadingOptions, NEW v \in FileVersions, Plain(f, o, v)
    PROVE  LET e == Encoding(f, o, v)
           IN /\ e = IF o.detects /\ Starts(v.bytes, "B") THEN "utf-8-sig" ELSE "utf-8"
              /\ Decodes(v.bytes, e)
<1> DEFINE e == Encoding(f, o, v)
<1>1. PICK b \in Seq(Bytes) : b = v.bytes
    BY FileReadingAssumption
<1>2. PICK s \in Seq(Bytes) : s = Sample(b)
    BY SampleIs
<1>3. /\ Len(s) \in Nat /\ Len(b) \in Nat
      /\ Len(s) = IF Len(b) < SampleSize THEN Len(b) ELSE SampleSize
      /\ \A i \in 1 .. Len(s) : s[i] = b[i] /\ i \in 1 .. Len(b)
      /\ \A mark : Starts(s, mark) <=> Starts(b, mark)
    BY <1>2, SampleIs
<1>4. IsUtf8(b)
    BY <1>1 DEF Plain
<1>5. ~Starts(b, "W")
    BY <1>4 DEF Starts, IsUtf8, ToSet
<1>6. o.detects => IsUtf8(s)
  <2>1. SUFFICES ASSUME o.detects PROVE IsUtf8(s)
      OBVIOUS
  <2>2. "W" \notin ToSet(s)
      BY <1>3, <1>4 DEF IsUtf8, ToSet
  <2>3. ASSUME NEW i \in DOMAIN s PROVE s[i] = "L" => i < Len(s) /\ s[i + 1] \in Trails
    <3>1. SUFFICES ASSUME s[i] = "L" PROVE i < Len(s) /\ s[i + 1] \in Trails
        OBVIOUS
    <3>2. i \in 1 .. Len(s) /\ i \in 1 .. Len(b) /\ b[i] = "L"
        BY <1>3, <3>1
    <3>3. i < Len(b) /\ b[i + 1] \in Trails
        BY <1>4, <3>2 DEF IsUtf8
    <3>4. i < Len(s)
      <4>1. SUFFICES ASSUME i = Len(s) PROVE FALSE
          BY <1>3, <3>2
      <4>2. Len(b) > SampleSize /\ i = SampleSize
          BY <1>3, <3>2, <3>3, <4>1, FileReadingAssumption
      <4> QED BY <1>1, <2>1, <3>2, <4>2 DEF Plain, CutBySample
    <3>5. i + 1 \in 1 .. Len(s)
        BY <1>3, <3>2, <3>4
    <3> QED BY <1>3, <3>3, <3>4, <3>5
  <2>4. ASSUME NEW i \in DOMAIN s PROVE s[i] \in Trails => i > 1 /\ s[i - 1] = "L"
    <3>1. SUFFICES ASSUME s[i] \in Trails PROVE i > 1 /\ s[i - 1] = "L"
        OBVIOUS
    <3>2. i \in 1 .. Len(s) /\ i \in 1 .. Len(b) /\ b[i] \in Trails
        BY <1>3, <3>1
    <3>3. i > 1 /\ b[i - 1] = "L"
        BY <1>4, <3>2 DEF IsUtf8
    <3>4. i - 1 \in 1 .. Len(s)
        BY <1>3, <3>2, <3>3
    <3> QED BY <1>3, <3>3, <3>4
  <2> QED BY <2>2, <2>3, <2>4 DEF IsUtf8
<1>7. e = IF o.detects /\ Starts(b, "B") THEN "utf-8-sig" ELSE "utf-8"
  <2>1. CASE ~o.detects
      BY <2>1 DEF Encoding
  <2>2. CASE o.detects /\ Starts(b, "B")
    <3>1. Starts(Sample(v.bytes), "B")
        BY <1>1, <1>2, <1>3, <2>2
    <3>2. Detected(f, v) = "utf-8-sig"
        BY <3>1 DEF Detected, Starts
    <3> QED BY <2>2, <3>2 DEF Encoding
  <2>3. CASE o.detects /\ ~Starts(b, "B")
    <3>1. /\ ~Starts(Sample(v.bytes), "B") /\ ~Starts(Sample(v.bytes), "W")
          /\ IsUtf8(Sample(v.bytes)) /\ ~(f.suffix = "python" /\ v.cookie # "none")
        BY <1>1, <1>2, <1>3, <1>5, <1>6, <2>3 DEF Plain
    <3>2. Detected(f, v) = "utf-8"
        BY <3>1 DEF Detected
    <3> QED BY <2>3, <3>2 DEF Encoding
  <2> QED BY <2>1, <2>2, <2>3
<1>8. Decodes(b, e)
  <2> HIDE DEF e
  <2> QED BY <1>4, <1>7 DEF Decodes
<1> QED BY <1>1, <1>7, <1>8

\* A secret file is one that is protected.
LEMMA SecretIsProtected ==
    ASSUME NEW f \in ReadFiles, Role(f) = "secret"
    PROVE  f.protected
<1> DEFINE fits == <<
            [role |-> "secret", when |-> f.protected],
            [role |-> "generated", when |-> IsGenerated(f)],
            [role |-> "dependency", when |-> "dependency" \in f.under],
            [role |-> "artifact", when |-> f.under \cap {"output", "coverage"} # {}],
            [role |-> "test", when |-> "tests" \in f.under \/ f.name = "test"],
            [role |-> "configuration", when |-> f.name = "config"],
            [role |-> "documentation", when |-> f.suffix = "doc" \/ "docs" \in f.under],
            [role |-> "asset", when |-> f.suffix = "asset"],
            [role |-> "source", when |-> f.suffix \in {"python", "code"}],
            [role |-> "unknown", when |-> TRUE] >>
           IsFirst(i) == fits[i].when /\ \A j \in 1 .. i - 1 : ~fits[j].when
           first == CHOOSE i \in DOMAIN fits : IsFirst(i)
           Longest == {i \in 1 .. 10 : fits[i].when}
<1>1. Role(f) = fits[first].role
    BY DEF Role
<1>2. DOMAIN fits = 1 .. 10
    OBVIOUS
<1>3. fits[10].when = TRUE
    OBVIOUS
<1>4. fits[1].when = f.protected
    OBVIOUS
<1>5. \A i \in 2 .. 10 : fits[i].role # "secret"
  <2>1. ASSUME NEW i \in 2 .. 10 PROVE fits[i].role # "secret"
    <3>1. i \in {2, 3, 4, 5, 6, 7, 8, 9, 10}
        OBVIOUS
    <3> QED BY <3>1
  <2> QED BY <2>1
<1> HIDE DEF fits
<1>6. \E i \in 1 .. 10 : IsFirst(i)
  <2>1. Longest \in SUBSET Nat /\ Longest # {}
      BY <1>3
  <2>2. PICK i \in Longest : \A j \in Longest : i <= j
    <3> HIDE DEF Longest
    <3> QED BY <2>1, HasLeast
  <2>3. i \in 1 .. 10 /\ fits[i].when
      BY <2>2
  <2>4. ASSUME NEW j \in 1 .. i - 1 PROVE ~fits[j].when
    <3>1. j \in 1 .. 10 /\ ~(i <= j)
        BY <2>3
    <3> QED BY <2>2, <3>1
  <2> QED BY <2>3, <2>4
<1>7. first \in 1 .. 10 /\ IsFirst(first)
  <2> HIDE DEF IsFirst
  <2> QED BY <1>2, <1>6
<1>8. first = 1
  <2> HIDE DEF first
  <2> QED BY <1>1, <1>5, <1>7
<1> HIDE DEF first
<1> QED BY <1>4, <1>7, <1>8

(* ------------------------------ steps of a reading ------------------------- *)

Undecoded == \E v \in contents : ~Decodes(v.bytes, Encoding(toRead, options, v))
SmallEnough == \E v \in contents : Len(v.bytes) <= MaxReadable
NotBinary == \E v \in contents : ~LooksBinary(v.bytes)

ReadingTyped ==
    /\ toRead \in ReadFiles /\ options \in ReadingOptions /\ version \in FileVersions
    /\ contents \subseteq FileVersions /\ IsFiniteSet(contents)
TextFits ==
    /\ reading.stage \in {"rest", "sample", "load", "read", "refused",
                          "inspect", "hash", "lines", "described"}
    /\ reading.stage # "rest" => version \in contents
    /\ reading.stage \in {"sample", "load", "read"} => SmallEnough
    /\ reading.stage \in {"load", "read"} => NotBinary
    /\ reading.stage = "read" => \E v \in contents : reading = TextOf(v, v)
    /\ reading.stage = "refused" /\ reading.why = "encoding" => Undecoded
DescriptionFits ==
    reading.stage \in {"inspect", "hash", "lines", "described"} =>
        /\ DOMAIN reading = {"stage", "size_bytes", "sha256", "is_binary", "line_count",
                             "encoding"}
        /\ \E v \in contents : reading.size_bytes = Len(v.bytes)
        /\ reading.sha256 \subseteq contents
        /\ reading.stage \in {"hash", "lines"} => reading.is_binary \/ NotBinary
        /\ IF reading.stage = "described"
           THEN /\ toRead.protected => reading.line_count = {} /\ reading.encoding = "none"
                /\ reading.line_count = {} \/ NotBinary
                /\ reading.encoding = "none" \/ reading.line_count # {} \/ Undecoded
           ELSE reading.line_count = {} /\ reading.encoding = "none"
ReadingInv == ReadingTyped /\ TextFits /\ DescriptionFits

LEMMA ReadingBegins == ReadingInit => ReadingInv
<1> SUFFICES ASSUME ReadingInit PROVE ReadingInv
    OBVIOUS
<1>1. reading.stage = "rest"
    BY DEF ReadingInit
<1>2. IsFiniteSet(contents)
    BY FS_EmptySet DEF ReadingInit
<1> QED BY <1>1, <1>2 DEF ReadingInit, ReadingInv, ReadingTyped, TextFits, DescriptionFits

\* What is known of a file stays so when it is edited.
LEMMA KnownStays ==
    ASSUME contents \subseteq contents', UNCHANGED <<toRead, options>>
    PROVE  /\ Undecoded => Undecoded'
           /\ SmallEnough => SmallEnough'
           /\ NotBinary => NotBinary'
<1>1. ASSUME NEW v \in contents PROVE v \in contents'
    OBVIOUS
<1>2. \A v : Encoding(toRead, options, v)' = Encoding(toRead, options, v)
    BY DEF Encoding
<1>3. Undecoded => Undecoded'
    BY <1>1, <1>2 DEF Undecoded
<1>4. SmallEnough => SmallEnough'
    BY <1>1 DEF SmallEnough
<1>5. NotBinary => NotBinary'
    BY <1>1 DEF NotBinary
<1> QED BY <1>3, <1>4, <1>5

LEMMA RefusalKeeps ==
    ASSUME ReadingTyped', NEW why, why # "encoding", reading' = NotRead(why),
           version' \in contents'
    PROVE  ReadingInv'
<1>1. reading'.stage = "refused" /\ reading'.why # "encoding"
    BY DEF NotRead
<1> QED BY <1>1 DEF ReadingInv, TextFits, DescriptionFits

LEMMA OpenTextKeeps == ReadingInv /\ OpenText => ReadingInv'
<1> SUFFICES ASSUME ReadingInv, OpenText PROVE ReadingInv'
    OBVIOUS
<1>1. /\ contents' = {version} /\ UNCHANGED <<toRead, options, version>>
      /\ version \in FileVersions
    BY DEF OpenText, ReadingInv, ReadingTyped
<1>2. ReadingTyped' /\ version' \in contents'
    BY <1>1, FS_Singleton DEF ReadingInv, ReadingTyped
<1>3. CASE \E why \in {"protected", "unreadable", "size"} : reading' = NotRead(why)
  <2>1. PICK why \in {"protected", "unreadable", "size"} : reading' = NotRead(why)
      BY <1>3
  <2>2. why # "encoding"
      OBVIOUS
  <2> QED BY <1>2, <2>1, <2>2, RefusalKeeps
<1>4. CASE Len(version.bytes) <= MaxReadable /\ reading' = [stage |-> "sample"]
  <2>1. SmallEnough'
      BY <1>1, <1>4 DEF SmallEnough
  <2>2. reading'.stage = "sample"
      BY <1>4
  <2> QED BY <1>2, <2>1, <2>2 DEF ReadingInv, TextFits, DescriptionFits
<1>5. Len(version.bytes) \in Nat /\ MaxReadable \in Nat
    BY <1>1, FileReadingAssumption
<1> QED BY <1>3, <1>4, <1>5 DEF OpenText

LEMMA SampleTextKeeps == ReadingInv /\ SampleText => ReadingInv'
<1> SUFFICES ASSUME ReadingInv, SampleText PROVE ReadingInv'
    OBVIOUS
<1>1. UNCHANGED <<toRead, options, version, contents>> /\ reading.stage = "sample"
    BY DEF SampleText, IsAt
<1>2. ReadingTyped' /\ version' \in contents' /\ version \in contents
    BY <1>1 DEF ReadingInv, ReadingTyped, TextFits
<1>3. CASE reading' = NotRead("binary")
    BY <1>2, <1>3, RefusalKeeps
<1>4. CASE reading' = [stage |-> "load"] /\ ~LooksBinary(version.bytes)
  <2>1. SmallEnough' /\ NotBinary'
    <3>1. SmallEnough'
        BY <1>1, KnownStays DEF ReadingInv, TextFits
    <3>2. NotBinary'
        BY <1>1, <1>2, <1>4 DEF NotBinary
    <3> QED BY <3>1, <3>2
  <2>2. reading'.stage = "load"
      BY <1>4
  <2> QED BY <1>2, <2>1, <2>2 DEF ReadingInv, TextFits, DescriptionFits
<1> QED BY <1>3, <1>4 DEF SampleText, TakenForBinary

LEMMA LoadTextKeeps == ReadingInv /\ LoadText => ReadingInv'
<1> SUFFICES ASSUME ReadingInv, LoadText PROVE ReadingInv'
    OBVIOUS
<1>1. UNCHANGED <<toRead, options, version, contents>> /\ reading.stage = "load"
    BY DEF LoadText, IsAt
<1>2. ReadingTyped' /\ version' \in contents' /\ version \in contents
    BY <1>1 DEF ReadingInv, ReadingTyped, TextFits
<1>3. SmallEnough' /\ NotBinary'
    BY <1>1, KnownStays DEF ReadingInv, TextFits
<1>4. CASE reading' = NotRead("unreadable")
    BY <1>2, <1>4, RefusalKeeps
<1>5. CASE reading' = TextOf(version, version)
  <2> DEFINE e == Encoding(toRead, options, version)
  <2>1. CASE Decodes(version.bytes, e)
    <3>1. reading'.stage = "read"
        BY <1>5, <2>1 DEF TextOf
    <3>2. \E v \in contents' : reading' = TextOf(v, v)'
      <4>1. TextOf(version, version)' = TextOf(version, version)
          BY <1>1 DEF TextOf
      <4>2. PICK v \in contents' : v = version
          BY <1>1, <1>2
      <4>3. TextOf(v, v)' = TextOf(v, v)
          BY <1>1 DEF TextOf
      <4> QED BY <1>5, <4>2, <4>3
    <3> QED BY <1>2, <1>3, <3>1, <3>2 DEF ReadingInv, TextFits, DescriptionFits
  <2>2. CASE ~Decodes(version.bytes, e)
    <3>1. reading'.stage = "refused"
        BY <1>5, <2>2 DEF TextOf, NotRead
    <3>2. Undecoded
        BY <1>2, <2>2 DEF Undecoded
    <3>3. Undecoded'
        BY <1>1, <3>2, KnownStays
    <3> QED BY <1>2, <3>1, <3>3 DEF ReadingInv, TextFits, DescriptionFits
  <2> QED BY <2>1, <2>2
<1> QED BY <1>4, <1>5 DEF LoadText

LEMMA DescribeKeeps == ReadingInv /\ Describe => ReadingInv'
<1> SUFFICES ASSUME ReadingInv, Describe PROVE ReadingInv'
    OBVIOUS
<1>1. /\ contents' = {version} /\ UNCHANGED <<toRead, options, version>>
      /\ version \in FileVersions
    BY DEF Describe, ReadingInv, ReadingTyped
<1>2. ReadingTyped' /\ version' \in contents'
    BY <1>1, FS_Singleton DEF ReadingInv, ReadingTyped
<1>3. CASE reading' = NotRead("unreadable")
    BY <1>2, <1>3, RefusalKeeps
<1>4. CASE reading' = [stage |-> "inspect", size_bytes |-> Len(version.bytes), sha256 |-> {},
                       is_binary |-> FALSE, line_count |-> {}, encoding |-> "none"]
  <2>1. /\ reading'.stage = "inspect" /\ reading'.size_bytes = Len(version.bytes)
        /\ reading'.sha256 = {} /\ reading'.line_count = {} /\ reading'.encoding = "none"
      BY <1>4
  <2>2. DOMAIN reading' = {"stage", "size_bytes", "sha256", "is_binary", "line_count",
                           "encoding"}
      BY <1>4
  <2>3. TextFits'
      BY <1>2, <2>1 DEF TextFits
  <2>4. DescriptionFits'
      BY <1>1, <2>1, <2>2 DEF DescriptionFits
  <2> QED BY <1>2, <2>3, <2>4 DEF ReadingInv
<1> QED BY <1>3, <1>4 DEF Describe

DescriptionFields ==
    {"stage", "size_bytes", "sha256", "is_binary", "line_count", "encoding"}

LEMMA InspectKeeps == ReadingInv /\ Inspect => ReadingInv'
<1> SUFFICES ASSUME ReadingInv, Inspect PROVE ReadingInv'
    OBVIOUS
<1>1. UNCHANGED <<toRead, options, version, contents>> /\ reading.stage = "inspect"
    BY DEF Inspect, IsAt
<1>2. ReadingTyped' /\ version' \in contents' /\ version \in contents
    BY <1>1 DEF ReadingInv, ReadingTyped, TextFits
<1>3. /\ DOMAIN reading = DescriptionFields
      /\ \E v \in contents : reading.size_bytes = Len(v.bytes)
      /\ reading.sha256 \subseteq contents /\ reading.line_count = {}
      /\ reading.encoding = "none"
    BY <1>1 DEF ReadingInv, DescriptionFits, DescriptionFields
<1>4. PICK b : /\ reading' = [reading EXCEPT !.stage = "hash", !.is_binary = b]
               /\ b \/ ~LooksBinary(version.bytes)
    BY DEF Inspect, TakenForBinary
<1>5. /\ DOMAIN reading' = DescriptionFields /\ reading'.stage = "hash"
      /\ reading'.size_bytes = reading.size_bytes /\ reading'.sha256 = reading.sha256
      /\ reading'.line_count = reading.line_count /\ reading'.encoding = reading.encoding
    BY <1>3, <1>4 DEF DescriptionFields
<1>6. reading'.is_binary = b
    BY <1>3, <1>4 DEF DescriptionFields
<1>7. b \/ NotBinary'
  <2>1. ~LooksBinary(version.bytes) => NotBinary
      BY <1>2 DEF NotBinary
  <2> QED BY <1>1, <1>4, <2>1, KnownStays
<1>8. TextFits'
    BY <1>2, <1>5 DEF TextFits
<1>9. DescriptionFits'
    BY <1>1, <1>3, <1>5, <1>6, <1>7 DEF DescriptionFits, DescriptionFields
<1> QED BY <1>2, <1>8, <1>9 DEF ReadingInv

LEMMA HashContentKeeps == ReadingInv /\ HashContent => ReadingInv'
<1> SUFFICES ASSUME ReadingInv, HashContent PROVE ReadingInv'
    OBVIOUS
<1>1. UNCHANGED <<toRead, options, version, contents>> /\ reading.stage = "hash"
    BY DEF HashContent, IsAt
<1>2. ReadingTyped' /\ version' \in contents' /\ version \in contents
    BY <1>1 DEF ReadingInv, ReadingTyped, TextFits
<1>3. /\ DOMAIN reading = DescriptionFields
      /\ \E v \in contents : reading.size_bytes = Len(v.bytes)
      /\ reading.line_count = {} /\ reading.encoding = "none"
    BY <1>1 DEF ReadingInv, DescriptionFits, DescriptionFields
<1>4. PICK hashed \in {{version}, {}} :
          reading' = [reading EXCEPT !.stage = "lines", !.sha256 = hashed]
    BY DEF HashContent
<1>5. /\ DOMAIN reading' = DescriptionFields /\ reading'.stage = "lines"
      /\ reading'.size_bytes = reading.size_bytes /\ reading'.sha256 = hashed
      /\ reading'.line_count = reading.line_count /\ reading'.encoding = reading.encoding
    BY <1>3, <1>4 DEF DescriptionFields
<1>6. reading'.is_binary = reading.is_binary
    BY <1>3, <1>4 DEF DescriptionFields
<1>7. reading.is_binary \/ NotBinary'
  <2>1. reading.is_binary \/ NotBinary
      BY <1>1 DEF ReadingInv, DescriptionFits
  <2> QED BY <1>1, <2>1, KnownStays
<1>8. hashed \subseteq contents'
    BY <1>2, <1>1
<1>9. TextFits'
    BY <1>2, <1>5 DEF TextFits
<1>10. DescriptionFits'
    BY <1>1, <1>3, <1>5, <1>6, <1>7, <1>8 DEF DescriptionFits, DescriptionFields
<1> QED BY <1>2, <1>9, <1>10 DEF ReadingInv

LEMMA CountLinesKeeps == ReadingInv /\ CountLines => ReadingInv'
<1> SUFFICES ASSUME ReadingInv, CountLines PROVE ReadingInv'
    OBVIOUS
<1>1. UNCHANGED <<toRead, options, version, contents>> /\ reading.stage = "lines"
    BY DEF CountLines, IsAt
<1>2. ReadingTyped' /\ version' \in contents' /\ version \in contents
    BY <1>1 DEF ReadingInv, ReadingTyped, TextFits
<1>3. /\ DOMAIN reading = DescriptionFields
      /\ \E v \in contents : reading.size_bytes = Len(v.bytes)
      /\ reading.sha256 \subseteq contents /\ reading.line_count = {}
      /\ reading.encoding = "none"
    BY <1>1 DEF ReadingInv, DescriptionFits, DescriptionFields
<1>4. reading.is_binary \/ NotBinary'
  <2>1. reading.is_binary \/ NotBinary
      BY <1>1 DEF ReadingInv, DescriptionFits
  <2> QED BY <1>1, <2>1, KnownStays
<1> DEFINE e == Encoding(toRead, options, version)
           counted == Decodes(version.bytes, e)
           Found(c, l) == /\ toRead.protected => l = {} /\ c = "none"
                          /\ l = {} \/ NotBinary'
                          /\ c = "none" \/ l # {} \/ ~counted
<1>5. PICK c, l : /\ reading' = [reading EXCEPT !.stage = "described", !.encoding = c,
                                                !.line_count = l]
                  /\ Found(c, l)
  <2> DEFINE skipped == reading.is_binary \/ toRead.protected \/ reading.size_bytes > MaxReadable
  <2>1. CASE skipped
    <3>1. reading' = [reading EXCEPT !.stage = "described"]
        BY <2>1 DEF CountLines
    <3>2. reading' = [reading EXCEPT !.stage = "described", !.encoding = "none",
                                     !.line_count = {}]
        BY <1>3, <3>1 DEF DescriptionFields
    <3>3. Found("none", {})
        OBVIOUS
    <3> QED BY <3>2, <3>3
  <2>2. CASE ~skipped
    <3>1. ~toRead.protected /\ NotBinary'
        BY <1>4, <2>2
    <3>2. PICK allRead \in BOOLEAN :
              reading' = [reading EXCEPT !.stage = "described",
                   !.encoding = IF allRead THEN e ELSE "none",
                   !.line_count = IF allRead /\ counted
                                  THEN {LineCount(Characters(version.bytes, e))}
                                  ELSE {}]
        BY <2>2 DEF CountLines
    <3> DEFINE c == IF allRead THEN e ELSE "none"
               l == IF allRead /\ counted THEN {LineCount(Characters(version.bytes, e))} ELSE {}
    <3>3. Found(c, l)
      <4> HIDE DEF e, counted
      <4> QED BY <3>1
    <3> QED BY <3>2, <3>3
  <2> QED BY <2>1, <2>2
<1>6. ~counted => Undecoded'
  <2>1. ~counted => Undecoded
      BY <1>2 DEF Undecoded
  <2> QED BY <1>1, <2>1, KnownStays
<1> HIDE DEF counted
<1>7. /\ DOMAIN reading' = DescriptionFields /\ reading'.stage = "described"
      /\ reading'.size_bytes = reading.size_bytes /\ reading'.sha256 = reading.sha256
      /\ reading'.line_count = l /\ reading'.encoding = c
    BY <1>3, <1>5 DEF DescriptionFields
<1>8. TextFits'
    BY <1>2, <1>7 DEF TextFits
<1>9. DescriptionFits'
    BY <1>1, <1>3, <1>5, <1>6, <1>7 DEF DescriptionFits, DescriptionFields
<1> QED BY <1>2, <1>8, <1>9 DEF ReadingInv

LEMMA EditReadKeeps == ReadingInv /\ EditRead => ReadingInv'
<1> SUFFICES ASSUME ReadingInv, EditRead PROVE ReadingInv'
    OBVIOUS
<1>1. PICK v \in FileVersions : version' = v /\ contents' = contents \cup {v}
    BY DEF EditRead
<1>2. UNCHANGED <<toRead, options, reading>> /\ contents \subseteq contents'
    BY <1>1 DEF EditRead
<1>3. ReadingTyped' /\ version' \in contents'
    BY <1>1, <1>2, FS_AddElement DEF ReadingInv, ReadingTyped
<1>4. /\ Undecoded => Undecoded'
      /\ SmallEnough => SmallEnough'
      /\ NotBinary => NotBinary'
    BY <1>2, KnownStays
<1>5. reading.stage \notin {"read", "rest"}
    BY DEF EditRead
<1>6. TextFits'
    BY <1>2, <1>3, <1>4, <1>5 DEF ReadingInv, TextFits
<1>7. DescriptionFits'
    BY <1>2, <1>4 DEF ReadingInv, DescriptionFits
<1> QED BY <1>3, <1>6, <1>7 DEF ReadingInv

LEMMA ReadingKeepsInv == ReadingInv /\ [ReadingNext]_readingVars => ReadingInv'
<1> SUFFICES ASSUME ReadingInv, [ReadingNext]_readingVars PROVE ReadingInv'
    OBVIOUS
<1>1. CASE UNCHANGED readingVars
  <2>1. UNCHANGED <<toRead, options, version, reading, contents>>
      BY <1>1 DEF readingVars
  <2>2. Undecoded => Undecoded'
      BY <2>1, KnownStays
  <2>3. SmallEnough => SmallEnough'
      BY <2>1, KnownStays
  <2>4. NotBinary => NotBinary'
      BY <2>1, KnownStays
  <2>5. \A v : TextOf(v, v)' = TextOf(v, v)
      BY <2>1 DEF TextOf
  <2>6. TextFits'
      BY <2>1, <2>2, <2>3, <2>4, <2>5 DEF ReadingInv, TextFits
  <2>7. DescriptionFits'
      BY <2>1, <2>2, <2>4 DEF ReadingInv, DescriptionFits
  <2>8. ReadingTyped'
      BY <2>1 DEF ReadingInv, ReadingTyped
  <2> QED BY <2>6, <2>7, <2>8 DEF ReadingInv
<1>2. CASE ReadingNext
    BY <1>2, OpenTextKeeps, SampleTextKeeps, LoadTextKeeps, DescribeKeeps, InspectKeeps,
       HashContentKeeps, CountLinesKeeps, EditReadKeeps DEF ReadingNext
<1> QED BY <1>1, <1>2

(* --------------------------- what the reading says ------------------------- *)

LEMMA InvReadsOneVersion == ReadingInv => TextIsOneVersion
<1> SUFFICES ASSUME ReadingInv, IsAt("read")
             PROVE  /\ reading.sha256 \in contents
                    /\ LET mark == IF reading.encoding = "utf-8-sig" THEN <<"B">> ELSE <<>>
                       IN mark \o FlattenSeq(reading.text) = reading.sha256.bytes
                    /\ reading.size_bytes = Len(reading.sha256.bytes)
    BY DEF TextIsOneVersion
<1>1. PICK v \in contents : reading = TextOf(v, v) /\ reading.stage = "read"
    BY DEF ReadingInv, TextFits, IsAt
<1> DEFINE e == Encoding(toRead, options, v)
<1>2. /\ Decodes(v.bytes, e) /\ reading.text = Characters(v.bytes, e)
      /\ reading.encoding = e /\ reading.sha256 = v /\ reading.size_bytes = Len(v.bytes)
  <2> HIDE DEF e
  <2> QED BY <1>1 DEF TextOf, NotRead, e
<1>3. Marks(e) \o FlattenSeq(Characters(v.bytes, e)) = v.bytes
    BY <1>2, TextIsKept DEF ReadingInv, ReadingTyped
<1> HIDE DEF e
<1> QED BY <1>2, <1>3 DEF Marks

LEMMA OnlyVersion ==
    ASSUME ReadingInv, Cardinality(contents) = 1, reading.stage # "rest"
    PROVE  \A v \in contents : v = version
<1>1. PICK x : contents = {x}
    BY FS_Singleton DEF ReadingInv, ReadingTyped
<1> QED BY <1>1 DEF ReadingInv, TextFits

LEMMA PlainDecodes ==
    ASSUME ReadingInv, PlainUtf8
    PROVE  LET e == Encoding(toRead, options, version)
           IN /\ e = IF options.detects /\ Starts(version.bytes, "B")
                     THEN "utf-8-sig" ELSE "utf-8"
              /\ Decodes(version.bytes, e)
<1>1. Plain(toRead, options, version)
    BY DEF PlainUtf8, Plain
<1> QED BY <1>1, PlainIsUtf8 DEF ReadingInv, ReadingTyped

LEMMA InvReadsUtf8 == ReadingInv => Utf8IsRead
<1> SUFFICES ASSUME ReadingInv, Cardinality(contents) = 1
             PROVE  LET bytes == version.bytes
                    IN /\ IsAt("read") => Len(bytes) <= MaxReadable /\ ~LooksBinary(bytes)
                       /\ IsAt("read") /\ PlainUtf8 =>
                             reading.text =
                                 Characters(bytes, IF options.detects /\ Starts(bytes, "B")
                                                   THEN "utf-8-sig" ELSE "utf-8")
                       /\ IsAt("refused") => reading.why # "encoding" \/ ~PlainUtf8
    BY DEF Utf8IsRead
<1>1. ASSUME IsAt("read")
      PROVE  Len(version.bytes) <= MaxReadable /\ ~LooksBinary(version.bytes)
    BY <1>1, OnlyVersion DEF ReadingInv, TextFits, IsAt, SmallEnough, NotBinary
<1>2. ASSUME IsAt("read"), PlainUtf8
      PROVE  reading.text =
                 Characters(version.bytes, IF options.detects /\ Starts(version.bytes, "B")
                                           THEN "utf-8-sig" ELSE "utf-8")
  <2>1. reading = TextOf(version, version)
      BY <1>2, OnlyVersion DEF ReadingInv, TextFits, IsAt
  <2> DEFINE e == Encoding(toRead, options, version)
  <2>2. Decodes(version.bytes, e)
      BY <1>2, PlainDecodes
  <2>3. reading.text = Characters(version.bytes, e)
    <3> HIDE DEF e
    <3> QED BY <2>1, <2>2 DEF TextOf, e
  <2> QED BY <1>2, <2>3, PlainDecodes
<1>3. ASSUME IsAt("refused"), reading.why = "encoding" PROVE ~PlainUtf8
  <2>1. ~Decodes(version.bytes, Encoding(toRead, options, version))
      BY <1>3, OnlyVersion DEF ReadingInv, TextFits, IsAt, Undecoded
  <2> QED BY <2>1, PlainDecodes
<1> QED BY <1>1, <1>2, <1>3

LEMMA InvDescribesTruly == ReadingInv => MetadataIsTrue
<1> SUFFICES ASSUME ReadingInv, IsAt("described")
             PROVE  /\ Role(toRead) = "secret" =>
                          reading.line_count = {} /\ reading.encoding = "none"
                    /\ reading.sha256 \subseteq contents
                    /\ Cardinality(contents) = 1 =>
                          /\ reading.size_bytes = Len(version.bytes)
                          /\ reading.line_count # {} => ~LooksBinary(version.bytes)
                          /\ Role(toRead) = "source" /\ reading.encoding # "none"
                                /\ reading.line_count = {} => ~PlainUtf8
    BY DEF MetadataIsTrue
<1>1. /\ toRead.protected => reading.line_count = {} /\ reading.encoding = "none"
      /\ reading.line_count = {} \/ NotBinary
      /\ reading.encoding = "none" \/ reading.line_count # {} \/ Undecoded
      /\ reading.sha256 \subseteq contents
      /\ \E v \in contents : reading.size_bytes = Len(v.bytes)
    BY DEF ReadingInv, DescriptionFits, IsAt
<1>2. Role(toRead) = "secret" => toRead.protected
    BY SecretIsProtected DEF ReadingInv, ReadingTyped
<1>3. ASSUME Cardinality(contents) = 1
      PROVE  /\ reading.size_bytes = Len(version.bytes)
             /\ reading.line_count # {} => ~LooksBinary(version.bytes)
             /\ reading.encoding # "none" /\ reading.line_count = {} => ~PlainUtf8
  <2>1. \A v \in contents : v = version
      BY <1>3, OnlyVersion DEF IsAt
  <2>2. Undecoded => ~PlainUtf8
      BY <2>1, PlainDecodes DEF Undecoded
  <2> QED BY <1>1, <2>1, <2>2 DEF NotBinary
<1> QED BY <1>1, <1>2, <1>3

THEOREM ReadingIsTrueAlways == ReadingSpec => []ReadingIsTrue
<1>1. ReadingInv => ReadingIsTrue
    BY InvReadsOneVersion, InvReadsUtf8, InvDescribesTruly DEF ReadingIsTrue
<1> QED BY <1>1, ReadingBegins, ReadingKeepsInv, PTL DEF ReadingSpec

(* ------------------------------ the index ------------------------------ *)

IndexSpec == IndexInit /\ [][IndexNext]_indexVars

Entry == [size : Nat, hash : Versions, symbols : Versions]

\* What is said of a file, all of it from one version.
Describes(entry, v) ==
    /\ v = NoFileThere => entry = NoEntry
    /\ v # NoFileThere => /\ entry.size = SizeOf(v) /\ entry.hash \in {NoFileThere, v}
                         /\ entry.symbols = v

\* An index that was made without an edit has the symbols of what it hashed, and
\* describes the repository until the next edit.
IndexFits(x) ==
    /\ x.entries \in [IndexedPaths -> Entry] /\ x.edits \in Nat
    /\ x.asOf \in Nat /\ x.asOf <= indexEdits
    /\ x.edits = 0 => \A p \in IndexedPaths :
          x.entries[p].hash # NoFileThere => x.entries[p].symbols = x.entries[p].hash
    /\ x.edits = 0 /\ x.asOf = indexEdits =>
          \A p \in IndexedPaths : Describes(x.entries[p], content[p])

Indexing(r) ==
    /\ DOMAIN r = {"stage", "index", "to", "entries", "before", "hashes", "file"}
    /\ r.stage \in {"check", "scan", "hash", "symbols"}
    /\ r.to \subseteq IndexedPaths /\ r.entries \in [IndexedPaths -> Entry]
    /\ r.before \in Nat /\ r.before <= indexEdits /\ r.hashes \in BOOLEAN
    /\ r.stage \in {"hash", "symbols"} => r.file \in IndexedPaths /\ r.file \notin r.to

\* A check, as long as nothing is edited: a file still to visit is there, and one
\* that was visited is as the index says.
CheckFits(r) ==
    r.stage = "check" =>
        /\ IndexFits(r.index) /\ r.index.asOf <= r.before
        /\ r.before = indexEdits =>
              /\ \A p \in r.to : content[p] # NoFileThere /\ r.entries[p] = NoEntry
              /\ \A p \in IndexedPaths \ r.to :
                    /\ content[p] = NoFileThere => r.entries[p] = NoEntry
                    /\ content[p] # NoFileThere =>
                          /\ r.entries[p] # NoEntry
                          /\ SameFile(r.index.entries[p], content[p], r.hashes)

\* A scan, likewise.
ScanFits(r) ==
    r.stage # "check" /\ r.before = indexEdits =>
        /\ \A p \in r.to : content[p] # NoFileThere /\ r.entries[p] = NoEntry
        /\ \A p \in IndexedPaths \ r.to :
              r.stage = "scan" \/ p # r.file => Describes(r.entries[p], content[p])
        /\ r.stage = "hash" =>
              /\ content[r.file] # NoFileThere
              /\ r.entries[r.file].size = SizeOf(content[r.file])
        /\ r.stage = "symbols" =>
              /\ content[r.file] # NoFileThere
              /\ r.entries[r.file].size = SizeOf(content[r.file])
              /\ r.entries[r.file].hash \in {NoFileThere, content[r.file]}

CallerFits(r) == r = NotAsking \/ (Indexing(r) /\ CheckFits(r) /\ ScanFits(r))

IndexInv ==
    /\ content \in [IndexedPaths -> Versions] /\ indexEdits \in Nat
    /\ savedIndex # NotSaved => IndexFits(savedIndex)
    /\ DOMAIN caller = Callers
    /\ \A c \in Callers : CallerFits(caller[c])

LEMMA SizesAre ==
    ASSUME NEW v \in Versions
    PROVE  SizeOf(v) \in Nat /\ (v # NoFileThere => SizeOf(v) # 0)
BY RepositoryIndexAssumption DEF SizeOf, NoFileThere

LEMMA NoEntryIs ==
    /\ NoEntry \in Entry /\ NoEntry.size = 0 /\ NoEntry.hash = NoFileThere /\ NoEntry.symbols = NoFileThere
BY RepositoryIndexAssumption DEF NoEntry, Entry, NoFileThere

\* What a new check or scan is.
LEMMA AtFits ==
    ASSUME IndexInv, NEW at \in {"check", "scan"}, NEW found, NEW hashing \in BOOLEAN,
           at = "check" => IndexFits(found)
    PROVE  CallerFits(AtStage(at, found, hashing)) /\ AtStage(at, found, hashing).stage = at
<1> DEFINE r == AtStage(at, found, hashing)
<1>1. /\ DOMAIN r = {"stage", "index", "to", "entries", "before", "hashes", "file"}
      /\ r.stage = at /\ r.index = found /\ r.to = {p \in IndexedPaths : content[p] # NoFileThere}
      /\ r.entries = [p \in IndexedPaths |-> NoEntry] /\ r.before = indexEdits
      /\ r.hashes = hashing
    BY DEF AtStage
<1> HIDE DEF r
<1>2. r.entries \in [IndexedPaths -> Entry]
    BY <1>1, NoEntryIs
<1>3. Indexing(r)
    BY <1>1, <1>2 DEF Indexing, IndexInv
<1>4. CheckFits(r)
    BY <1>1 DEF CheckFits, IndexFits
<1>5. ScanFits(r)
    BY <1>1 DEF ScanFits, Describes
<1>6. CallerFits(r)
    BY <1>3, <1>4, <1>5 DEF CallerFits
<1> QED
    BY <1>1, <1>6 DEF r

\* A step of one caller that leaves the repository and the saved index alone.
LEMMA OneCaller ==
    ASSUME IndexInv, NEW c \in Callers, NEW r, CallerFits(r),
           caller' = [caller EXCEPT ![c] = r], UNCHANGED <<content, savedIndex, indexEdits>>
    PROVE  IndexInv'
<1>1. content' = content /\ savedIndex' = savedIndex /\ indexEdits' = indexEdits
    OBVIOUS
<1>2. \A x : IndexFits(x)' = IndexFits(x)
    BY <1>1 DEF IndexFits
<1>3. ASSUME NEW x PROVE CallerFits(x)' = CallerFits(x)
    BY <1>1 DEF CallerFits, Indexing, CheckFits, ScanFits, IndexFits
<1>4. ASSUME NEW d \in Callers PROVE CallerFits(caller[d])'
    <2>1. CASE d = c
        <3>1. caller'[d] = r
            BY <2>1 DEF IndexInv
        <3> QED
            BY <1>1, <3>1 DEF CallerFits, Indexing, CheckFits, ScanFits, IndexFits
    <2>2. CASE d # c
        <3>1. caller'[d] = caller[d]
            BY <2>2 DEF IndexInv
        <3>2. CallerFits(caller[d])
            BY DEF IndexInv
        <3> QED
            BY <1>1, <3>1, <3>2 DEF CallerFits, Indexing, CheckFits, ScanFits, IndexFits
    <2> QED
        BY <2>1, <2>2
<1>5. (savedIndex # NotSaved => IndexFits(savedIndex))'
    BY <1>1 DEF IndexInv, IndexFits
<1>6. DOMAIN caller' = Callers
    BY DEF IndexInv
<1> QED
    BY <1>1, <1>4, <1>5, <1>6 DEF IndexInv

LEMMA AskKeepsInv ==
    ASSUME IndexInv, NEW c \in Callers, AskForIndex(c)
    PROVE  IndexInv'
<1>1. PICK hashing \in BOOLEAN :
         caller' = [caller EXCEPT ![c] =
             IF savedIndex = NotSaved THEN AtStage("scan", NotSaved, hashing)
             ELSE AtStage("check", savedIndex, hashing)]
    BY DEF AskForIndex
<1>2. UNCHANGED <<content, savedIndex, indexEdits>>
    BY DEF AskForIndex
<1>3. CASE savedIndex = NotSaved
    BY <1>1, <1>2, <1>3, AtFits, OneCaller
<1>4. CASE savedIndex # NotSaved
    <2>1. IndexFits(savedIndex)
        BY <1>4 DEF IndexInv
    <2>2. PICK r : r = AtStage("check", savedIndex, hashing)
        OBVIOUS
    <2>3. CallerFits(r)
        BY <2>1, <2>2, AtFits
    <2> QED
        BY <1>1, <1>2, <1>4, <2>2, <2>3, OneCaller
<1> QED
    BY <1>3, <1>4

LEMMA CompareKeepsInv ==
    ASSUME IndexInv, NEW c \in Callers, Compare(c)
    PROVE  IndexInv'
<1>1. PICK p \in IndexedPaths :
         /\ Visits(c, "check", p)
         /\ caller' = [caller EXCEPT ![c] =
               IF content[p] = NoFileThere THEN [caller[c] EXCEPT !.to = caller[c].to \ {p}]
               ELSE IF ~SameFile(caller[c].index.entries[p], content[p], caller[c].hashes)
               THEN AtStage("scan", NotSaved, caller[c].hashes)
               ELSE [caller[c] EXCEPT !.to = caller[c].to \ {p}, !.entries[p].size = 1]]
    BY DEF Compare
<1>2. UNCHANGED <<content, savedIndex, indexEdits>>
    BY DEF Compare
<1>3. PICK old : old = caller[c]
    OBVIOUS
<1>4. old.stage = "check" /\ p \in old.to
    BY <1>1, <1>3 DEF Visits
<1>5. Indexing(old) /\ CheckFits(old)
    BY <1>3, <1>4 DEF IndexInv, CallerFits, NotAsking
<1>6. CASE content[p] = NoFileThere
    <2>1. PICK r : r = [old EXCEPT !.to = old.to \ {p}]
        OBVIOUS
    <2>2. /\ DOMAIN r = DOMAIN old /\ r.stage = "check" /\ r.index = old.index
          /\ r.to = old.to \ {p} /\ r.entries = old.entries /\ r.before = old.before
          /\ r.hashes = old.hashes
        BY <1>4, <1>5, <2>1 DEF Indexing
    <2>3. Indexing(r)
        BY <1>5, <2>2 DEF Indexing
    <2>4. CheckFits(r)
        <3>1. r.before # indexEdits
            BY <1>4, <1>5, <1>6, <2>2 DEF CheckFits
        <3> QED
            BY <1>4, <1>5, <2>2, <3>1 DEF CheckFits
    <2>5. CallerFits(r)
        <3>1. ScanFits(r)
            BY <2>2 DEF ScanFits
        <3> QED
            BY <2>3, <2>4, <3>1 DEF CallerFits
    <2>6. caller' = [caller EXCEPT ![c] = r]
        BY <1>1, <1>3, <1>6, <2>1
    <2> QED
        BY <1>2, <2>5, <2>6, OneCaller
<1>7. CASE content[p] # NoFileThere /\ ~SameFile(old.index.entries[p], content[p], old.hashes)
    <2>1. caller' = [caller EXCEPT ![c] = AtStage("scan", NotSaved, old.hashes)]
        BY <1>1, <1>3, <1>7
    <2>2. old.hashes \in BOOLEAN
        BY <1>5 DEF Indexing
    <2> QED
        BY <1>2, <2>1, <2>2, AtFits, OneCaller
<1>8. CASE content[p] # NoFileThere /\ SameFile(old.index.entries[p], content[p], old.hashes)
    <2>1. PICK e \in Entry : e = [old.entries[p] EXCEPT !.size = 1]
        BY <1>5 DEF Indexing, Entry
    <2>2. e # NoEntry
        <3>1. e.size = 1
            BY <1>5, <2>1 DEF Indexing, Entry
        <3> QED
            BY <3>1, NoEntryIs
    <2>3. PICK r : r = [old EXCEPT !.to = old.to \ {p}, !.entries[p].size = 1]
        OBVIOUS
    <2>4. /\ DOMAIN r = DOMAIN old /\ r.stage = "check" /\ r.index = old.index
          /\ r.to = old.to \ {p} /\ r.entries = [old.entries EXCEPT ![p].size = 1]
          /\ r.before = old.before /\ r.hashes = old.hashes
        BY <1>4, <1>5, <2>3 DEF Indexing
    <2>5. /\ r.entries \in [IndexedPaths -> Entry] /\ r.entries[p] = e
          /\ \A q \in IndexedPaths \ {p} : r.entries[q] = old.entries[q]
        BY <1>5, <2>1, <2>4 DEF Indexing
    <2>6. Indexing(r)
        BY <1>5, <2>4, <2>5 DEF Indexing
    <2>7. CheckFits(r)
        <3>1. IndexFits(r.index) /\ r.index.asOf <= r.before
            BY <1>4, <1>5, <2>4 DEF CheckFits
        <3>2. ASSUME r.before = indexEdits, NEW q \in r.to
              PROVE  content[q] # NoFileThere /\ r.entries[q] = NoEntry
            BY <1>4, <1>5, <2>4, <2>5, <3>2 DEF CheckFits, Indexing
        <3>3. ASSUME r.before = indexEdits, NEW q \in IndexedPaths \ r.to
              PROVE  /\ content[q] = NoFileThere => r.entries[q] = NoEntry
                     /\ content[q] # NoFileThere =>
                           r.entries[q] # NoEntry /\ SameFile(r.index.entries[q], content[q], r.hashes)
            <4>1. CASE q = p
                BY <1>8, <2>2, <2>4, <2>5, <4>1
            <4>2. CASE q # p
                BY <1>4, <1>5, <2>4, <2>5, <3>3, <4>2 DEF CheckFits
            <4> QED
                BY <4>1, <4>2
        <3> QED
            BY <3>1, <3>2, <3>3 DEF CheckFits
    <2>8. CallerFits(r)
        <3>1. ScanFits(r)
            BY <2>4 DEF ScanFits
        <3> QED
            BY <2>6, <2>7, <3>1 DEF CallerFits
    <2>9. caller' = [caller EXCEPT ![c] = r]
        BY <1>1, <1>3, <1>8, <2>3
    <2> QED
        BY <1>2, <2>8, <2>9, OneCaller
<1> QED
    BY <1>6, <1>7, <1>8

LEMMA ReuseKeepsInv ==
    ASSUME IndexInv, NEW c \in Callers, Reuse(c)
    PROVE  IndexInv'
<1>1. UNCHANGED <<content, savedIndex, indexEdits>>
    BY DEF Reuse
<1>2. CASE SameFiles(c)
    <2>1. caller' = [caller EXCEPT ![c] = NotAsking]
        BY <1>2 DEF Reuse
    <2>2. CallerFits(NotAsking)
        BY DEF CallerFits
    <2> QED
        BY <1>1, <2>1, <2>2, OneCaller
<1>3. CASE ~SameFiles(c)
    <2>1. caller' = [caller EXCEPT ![c] = AtStage("scan", NotSaved, caller[c].hashes)]
        BY <1>3 DEF Reuse
    <2>2. caller[c].stage = "check"
        BY DEF Reuse
    <2>3. caller[c].hashes \in BOOLEAN
        BY <2>2 DEF IndexInv, CallerFits, NotAsking, Indexing
    <2> QED
        BY <1>1, <2>1, <2>3, AtFits, OneCaller
<1> QED
    BY <1>2, <1>3

LEMMA ReadSizeKeepsInv ==
    ASSUME IndexInv, NEW c \in Callers, ReadSize(c)
    PROVE  IndexInv'
<1>1. PICK p \in IndexedPaths :
         /\ Visits(c, "scan", p)
         /\ caller' = [caller EXCEPT ![c] =
               IF content[p] = NoFileThere
               THEN [caller[c] EXCEPT !.to = caller[c].to \ {p}]
               ELSE [caller[c] EXCEPT !.entries[p].size = SizeOf(content[p]), !.stage = "hash",
                                      !.to = caller[c].to \ {p}, !.file = p]]
    BY DEF ReadSize
<1>2. UNCHANGED <<content, savedIndex, indexEdits>>
    BY DEF ReadSize
<1>3. PICK old : old = caller[c]
    OBVIOUS
<1>4. old.stage = "scan" /\ p \in old.to
    BY <1>1, <1>3 DEF Visits
<1>5. Indexing(old) /\ ScanFits(old)
    BY <1>3, <1>4 DEF IndexInv, CallerFits, NotAsking
<1>6. CASE content[p] = NoFileThere
    <2>1. PICK r : r = [old EXCEPT !.to = old.to \ {p}]
        OBVIOUS
    <2>2. /\ DOMAIN r = DOMAIN old /\ r.stage = "scan"
          /\ r.to = old.to \ {p} /\ r.entries = old.entries /\ r.before = old.before
          /\ r.hashes = old.hashes
        BY <1>4, <1>5, <2>1 DEF Indexing
    <2>3. Indexing(r)
        BY <1>5, <2>2 DEF Indexing
    <2>4. r.before # indexEdits
        BY <1>4, <1>5, <1>6, <2>2 DEF ScanFits
    <2>5. CallerFits(r)
        <3>1. CheckFits(r)
            BY <2>2 DEF CheckFits
        <3>2. ScanFits(r)
            BY <2>4 DEF ScanFits
        <3> QED
            BY <2>3, <3>1, <3>2 DEF CallerFits
    <2>6. caller' = [caller EXCEPT ![c] = r]
        BY <1>1, <1>3, <1>6, <2>1
    <2> QED
        BY <1>2, <2>5, <2>6, OneCaller
<1>7. CASE content[p] # NoFileThere
    <2>1. PICK s \in Nat : s = SizeOf(content[p])
        BY SizesAre DEF IndexInv
    <2>2. PICK r : r = [old EXCEPT !.entries[p].size = s, !.stage = "hash",
                                   !.to = old.to \ {p}, !.file = p]
        OBVIOUS
    <2>3. /\ DOMAIN r = DOMAIN old /\ r.stage = "hash" /\ r.file = p
          /\ r.to = old.to \ {p} /\ r.entries = [old.entries EXCEPT ![p].size = s]
          /\ r.before = old.before /\ r.hashes = old.hashes
        BY <1>4, <1>5, <2>2 DEF Indexing
    <2>4. /\ r.entries \in [IndexedPaths -> Entry] /\ r.entries[p].size = s
          /\ \A q \in IndexedPaths \ {p} : r.entries[q] = old.entries[q]
        BY <1>5, <2>3 DEF Indexing, Entry
    <2>5. Indexing(r)
        BY <1>5, <2>3, <2>4 DEF Indexing
    <2>6. ScanFits(r)
        <3>1. ASSUME r.before = indexEdits, NEW q \in r.to
              PROVE  content[q] # NoFileThere /\ r.entries[q] = NoEntry
            BY <1>4, <1>5, <2>3, <2>4, <3>1 DEF ScanFits, Indexing
        <3>2. ASSUME r.before = indexEdits, NEW q \in IndexedPaths \ r.to, q # r.file
              PROVE  Describes(r.entries[q], content[q])
            <4>1. q \in IndexedPaths \ old.to /\ r.entries[q] = old.entries[q]
                BY <2>3, <2>4, <3>2
            <4>2. Describes(old.entries[q], content[q])
                BY <1>4, <1>5, <2>3, <3>2, <4>1 DEF ScanFits
            <4> QED
                BY <2>3, <4>1, <4>2
        <3> QED
            BY <1>7, <2>1, <2>3, <2>4, <3>1, <3>2 DEF ScanFits
    <2>7. CallerFits(r)
        <3>1. CheckFits(r)
            BY <2>3 DEF CheckFits
        <3> QED
            BY <2>5, <2>6, <3>1 DEF CallerFits
    <2>8. caller' = [caller EXCEPT ![c] = r]
        BY <1>1, <1>3, <1>7, <2>1, <2>2
    <2> QED
        BY <1>2, <2>7, <2>8, OneCaller
<1> QED
    BY <1>6, <1>7

LEMMA ReadHashKeepsInv ==
    ASSUME IndexInv, NEW c \in Callers, ReadHash(c)
    PROVE  IndexInv'
<1>1. UNCHANGED <<content, savedIndex, indexEdits>> /\ caller[c].stage = "hash"
    BY DEF ReadHash
<1>2. PICK old : old = caller[c]
    OBVIOUS
<1>3. old.stage = "hash" /\ Indexing(old) /\ ScanFits(old)
    BY <1>1, <1>2 DEF IndexInv, CallerFits, NotAsking
<1>4. PICK p \in IndexedPaths : p = old.file
    BY <1>3 DEF Indexing
<1>5. PICK fetched \in BOOLEAN :
         caller' = [caller EXCEPT
              ![c].entries[caller[c].file].hash =
                  IF caller[c].hashes /\ fetched THEN content[caller[c].file] ELSE NoFileThere,
              ![c].stage = "symbols"]
    BY DEF ReadHash
<1>6. PICK h \in Versions : h = IF old.hashes /\ fetched THEN content[p] ELSE NoFileThere
    BY RepositoryIndexAssumption DEF IndexInv
<1>8. PICK r : r = [old EXCEPT !.entries[p].hash = h, !.stage = "symbols"]
    OBVIOUS
<1>9. caller' = [caller EXCEPT ![c] = r]
    BY <1>2, <1>4, <1>5, <1>6, <1>8
<1>10. /\ DOMAIN r = DOMAIN old /\ r.stage = "symbols" /\ r.file = old.file
       /\ r.to = old.to /\ r.entries = [old.entries EXCEPT ![p].hash = h]
       /\ r.before = old.before /\ r.hashes = old.hashes
    BY <1>3, <1>8 DEF Indexing
<1>11. /\ r.entries \in [IndexedPaths -> Entry]
       /\ r.entries[p].hash = h /\ r.entries[p].size = old.entries[p].size
       /\ \A q \in IndexedPaths \ {p} : r.entries[q] = old.entries[q]
    BY <1>3, <1>10 DEF Indexing, Entry
<1>12. Indexing(r)
    BY <1>3, <1>10, <1>11 DEF Indexing
<1>14. ScanFits(r)
    <2>1. ASSUME r.before = indexEdits, NEW q \in r.to
          PROVE  content[q] # NoFileThere /\ r.entries[q] = NoEntry
        BY <1>3, <1>4, <1>10, <1>11, <2>1 DEF ScanFits, Indexing
    <2>2. ASSUME r.before = indexEdits, NEW q \in IndexedPaths \ r.to, q # r.file
          PROVE  Describes(r.entries[q], content[q])
        <3>1. r.entries[q] = old.entries[q]
            BY <1>4, <1>10, <1>11, <2>2
        <3>2. Describes(old.entries[q], content[q])
            BY <1>3, <1>10, <2>2 DEF ScanFits
        <3> QED
            BY <1>10, <3>1, <3>2 DEF Describes
    <2>3. ASSUME r.before = indexEdits
          PROVE  /\ content[r.file] # NoFileThere
                 /\ r.entries[r.file].size = SizeOf(content[r.file])
                 /\ r.entries[r.file].hash \in {NoFileThere, content[r.file]}
        <3>1. content[p] # NoFileThere /\ old.entries[p].size = SizeOf(content[p])
            BY <1>3, <1>4, <1>10, <2>3 DEF ScanFits
        <3> QED
            BY <1>4, <1>6, <1>10, <1>11, <3>1
    <2> QED
        BY <1>10, <2>1, <2>2, <2>3 DEF ScanFits
<1>15. CallerFits(r)
    <2>1. CheckFits(r)
        BY <1>10 DEF CheckFits
    <2> QED
        BY <1>12, <1>14, <2>1 DEF CallerFits
<1> QED
    BY <1>1, <1>9, <1>15, OneCaller

LEMMA ReadSymbolsKeepsInv ==
    ASSUME IndexInv, NEW c \in Callers, ReadSymbols(c)
    PROVE  IndexInv'
<1>1. /\ UNCHANGED <<content, savedIndex, indexEdits>> /\ caller[c].stage = "symbols"
      /\ caller' = [caller EXCEPT
             ![c].entries[caller[c].file].symbols = content[caller[c].file],
             ![c].stage = "scan"]
    BY DEF ReadSymbols
<1>2. PICK old : old = caller[c]
    OBVIOUS
<1>3. old.stage = "symbols" /\ Indexing(old) /\ ScanFits(old)
    BY <1>1, <1>2 DEF IndexInv, CallerFits, NotAsking
<1>4. PICK p \in IndexedPaths : p = old.file
    BY <1>3 DEF Indexing
<1>5. PICK v \in Versions : v = content[p]
    BY DEF IndexInv
<1>6. PICK r : r = [old EXCEPT !.entries[p].symbols = v, !.stage = "scan"]
    OBVIOUS
<1>7. caller' = [caller EXCEPT ![c] = r]
    BY <1>1, <1>2, <1>4, <1>5, <1>6
<1>8. /\ DOMAIN r = DOMAIN old /\ r.stage = "scan"
      /\ r.to = old.to /\ r.entries = [old.entries EXCEPT ![p].symbols = v]
      /\ r.before = old.before /\ r.hashes = old.hashes
    BY <1>3, <1>6 DEF Indexing
<1>9. /\ r.entries \in [IndexedPaths -> Entry]
      /\ r.entries[p].hash = old.entries[p].hash /\ r.entries[p].size = old.entries[p].size
      /\ r.entries[p].symbols = v
      /\ \A q \in IndexedPaths \ {p} : r.entries[q] = old.entries[q]
    BY <1>3, <1>8 DEF Indexing, Entry
<1>10. Indexing(r)
    BY <1>3, <1>8, <1>9 DEF Indexing
<1>11. ScanFits(r)
    <2>1. ASSUME r.before = indexEdits, NEW q \in r.to
          PROVE  content[q] # NoFileThere /\ r.entries[q] = NoEntry
        BY <1>3, <1>4, <1>8, <1>9, <2>1 DEF ScanFits, Indexing
    <2>2. ASSUME r.before = indexEdits, NEW q \in IndexedPaths \ r.to
          PROVE  Describes(r.entries[q], content[q])
        <3>1. CASE q # p
            <4>1. r.entries[q] = old.entries[q]
                BY <1>9, <2>2, <3>1
            <4>2. Describes(old.entries[q], content[q])
                BY <1>3, <1>4, <1>8, <2>2, <3>1 DEF ScanFits
            <4> QED
                BY <1>8, <4>1, <4>2
        <3>2. CASE q = p
            <4>1. /\ content[p] # NoFileThere /\ old.entries[p].size = SizeOf(content[p])
                  /\ old.entries[p].hash \in {NoFileThere, content[p]}
                BY <1>3, <1>4, <1>8, <2>2 DEF ScanFits
            <4> QED
                BY <1>5, <1>8, <1>9, <3>2, <4>1 DEF Describes
        <3> QED
            BY <3>1, <3>2
    <2> QED
        BY <1>8, <2>1, <2>2 DEF ScanFits
<1>12. CallerFits(r)
    <2>1. CheckFits(r)
        BY <1>8 DEF CheckFits
    <2> QED
        BY <1>10, <1>11, <2>1 DEF CallerFits
<1> QED
    BY <1>1, <1>7, <1>12, OneCaller

LEMMA SaveKeepsInv ==
    ASSUME IndexInv, NEW c \in Callers, SaveIndex(c)
    PROVE  IndexInv'
<1>1. /\ caller[c].stage = "scan" /\ caller[c].to = {}
      /\ savedIndex' = [saved |-> TRUE, entries |-> caller[c].entries,
                        edits |-> indexEdits - caller[c].before, asOf |-> indexEdits]
      /\ caller' = [caller EXCEPT ![c] = NotAsking] /\ content' = content /\ indexEdits' = indexEdits
    BY DEF SaveIndex
<1>2. PICK old : old = caller[c]
    OBVIOUS
<1>3. old.stage = "scan" /\ old.to = {} /\ Indexing(old) /\ ScanFits(old)
    BY <1>1, <1>2 DEF IndexInv, CallerFits, NotAsking
<1>4. PICK x : x = savedIndex'
    OBVIOUS
<1>5. /\ x.entries = old.entries /\ x.edits = indexEdits - old.before /\ x.asOf = indexEdits
    BY <1>1, <1>2, <1>4
<1>6. /\ old.before \in Nat /\ old.before <= indexEdits /\ indexEdits \in Nat
      /\ old.entries \in [IndexedPaths -> Entry]
    BY <1>3 DEF Indexing, IndexInv
<1>7. x.edits \in Nat /\ (x.edits = 0 => old.before = indexEdits)
    BY <1>5, <1>6
<1>8. ASSUME x.edits = 0, NEW p \in IndexedPaths
      PROVE  Describes(old.entries[p], content[p])
    BY <1>3, <1>7, <1>8 DEF ScanFits
<1>9. ASSUME x.edits = 0, NEW p \in IndexedPaths
      PROVE  x.entries[p].hash # NoFileThere => x.entries[p].symbols = x.entries[p].hash
    <2>1. CASE content[p] = NoFileThere
        BY <1>5, <1>8, <1>9, <2>1, NoEntryIs DEF Describes
    <2>2. CASE content[p] # NoFileThere
        BY <1>5, <1>8, <1>9, <2>2 DEF Describes
    <2> QED
        BY <2>1, <2>2
<1>10. ASSUME x.edits = 0, NEW p \in IndexedPaths
       PROVE  Describes(x.entries[p], content[p])
    BY <1>5, <1>8, <1>10 DEF Describes
<1>11. IndexFits(x)
    BY <1>5, <1>6, <1>7, <1>9, <1>10 DEF IndexFits
<1>12. IndexFits(savedIndex)'
    BY <1>1, <1>4, <1>11 DEF IndexFits
<1>13. ASSUME NEW d \in Callers PROVE CallerFits(caller[d])'
    <2>1. caller'[d] = NotAsking \/ caller'[d] = caller[d]
        BY <1>1 DEF IndexInv
    <2>2. CASE caller'[d] = NotAsking
        BY <2>2 DEF CallerFits
    <2>3. CASE caller'[d] = caller[d]
        <3>1. CallerFits(caller[d])
            BY DEF IndexInv
        <3> QED
            BY <1>1, <2>3, <3>1 DEF CallerFits, Indexing, CheckFits, ScanFits, IndexFits
    <2> QED
        BY <2>1, <2>2, <2>3
<1>14. DOMAIN caller' = Callers /\ content' \in [IndexedPaths -> Versions] /\ indexEdits' \in Nat
    BY <1>1 DEF IndexInv
<1> QED
    BY <1>12, <1>13, <1>14 DEF IndexInv

\* An edit ends what holds only without one.
LEMMA EditContentKeepsInv ==
    ASSUME IndexInv, EditContent
    PROVE  IndexInv'
<1>1. PICK e \in Nat : e = indexEdits' /\ e = indexEdits + 1
    BY DEF EditContent, IndexInv
<1>2. savedIndex' = savedIndex /\ caller' = caller
    BY DEF EditContent
<1>3. content' \in [IndexedPaths -> Versions]
    BY DEF EditContent, IndexInv
<1>4. ASSUME NEW x, IndexFits(x) PROVE IndexFits(x)'
    <2>1. x.asOf \in Nat /\ x.asOf <= indexEdits /\ indexEdits \in Nat
        BY <1>4 DEF IndexFits, IndexInv
    <2>2. x.asOf <= e /\ x.asOf # e
        BY <1>1, <2>1
    <2> QED
        BY <1>1, <1>4, <2>2 DEF IndexFits
<1>5. ASSUME NEW c \in Callers PROVE CallerFits(caller[c])'
    <2>1. CASE caller[c] = NotAsking
        BY <1>2, <2>1 DEF CallerFits
    <2>2. CASE caller[c] # NotAsking
        <3>1. PICK r : r = caller[c]
            OBVIOUS
        <3>2. Indexing(r) /\ CheckFits(r)
            BY <2>2, <3>1 DEF IndexInv, CallerFits
        <3>3. r.before \in Nat /\ r.before <= indexEdits /\ indexEdits \in Nat
            BY <3>2 DEF Indexing, IndexInv
        <3>4. r.before <= e /\ r.before # e
            BY <1>1, <3>3
        <3>5. Indexing(r)'
            BY <1>1, <3>2, <3>4 DEF Indexing
        <3>6. CheckFits(r)'
            <4>1. r.stage = "check" => IndexFits(r.index)' /\ r.index.asOf <= r.before
                BY <1>4, <3>2 DEF CheckFits
            <4> QED
                BY <1>1, <3>4, <4>1 DEF CheckFits
        <3>7. ScanFits(r)'
            BY <1>1, <3>4 DEF ScanFits
        <3>8. CallerFits(r)'
            BY <3>5, <3>6, <3>7 DEF CallerFits
        <3> QED
            BY <1>2, <3>1, <3>8
    <2> QED
        BY <2>1, <2>2
<1>6. (savedIndex # NotSaved => IndexFits(savedIndex))'
    <2>1. ASSUME savedIndex # NotSaved PROVE IndexFits(savedIndex)'
        <3>1. IndexFits(savedIndex)
            BY <2>1 DEF IndexInv
        <3>2. PICK x : x = savedIndex
            OBVIOUS
        <3> QED
            BY <1>2, <1>4, <3>1, <3>2
    <2> QED
        BY <1>2, <2>1
<1>7. DOMAIN caller' = Callers /\ indexEdits' \in Nat
    BY <1>1, <1>2 DEF IndexInv
<1> QED
    BY <1>3, <1>5, <1>6, <1>7 DEF IndexInv

LEMMA IndexHolds == IndexSpec => []IndexInv
<1>1. IndexInit => IndexInv
    <2> SUFFICES ASSUME IndexInit PROVE IndexInv
        OBVIOUS
    <2>1. \A c \in Callers : caller[c] = NotAsking
        BY DEF IndexInit
    <2>2. DOMAIN caller = Callers /\ content \in [IndexedPaths -> Versions] /\ indexEdits \in Nat
          /\ savedIndex = NotSaved
        BY DEF IndexInit
    <2> QED
        BY <2>1, <2>2 DEF IndexInv, CallerFits
<1>2. ASSUME IndexInv, [IndexNext]_indexVars PROVE IndexInv'
    <2>1. CASE UNCHANGED indexVars
        <3>1. /\ content' = content /\ savedIndex' = savedIndex /\ caller' = caller
              /\ indexEdits' = indexEdits
            BY <2>1 DEF indexVars
        <3>2. (savedIndex # NotSaved => IndexFits(savedIndex))'
            BY <1>2, <3>1 DEF IndexInv, IndexFits
        <3>3. ASSUME NEW c \in Callers PROVE CallerFits(caller[c])'
            <4>1. CallerFits(caller[c])
                BY <1>2 DEF IndexInv
            <4> QED
                BY <3>1, <4>1 DEF CallerFits, Indexing, CheckFits, ScanFits, IndexFits
        <3> QED
            BY <1>2, <3>1, <3>2, <3>3 DEF IndexInv
    <2>2. CASE IndexNext
        BY <1>2, <2>2, AskKeepsInv, CompareKeepsInv, ReuseKeepsInv, ReadSizeKeepsInv,
           ReadHashKeepsInv, ReadSymbolsKeepsInv, SaveKeepsInv, EditContentKeepsInv DEF IndexNext
    <2> QED
        BY <1>2, <2>1, <2>2
<1> QED
    BY <1>1, <1>2, PTL DEF IndexSpec

(* What ends a check.                                                            *)
LEMMA OnlyReuseEnds ==
    ASSUME IndexInv, IndexNext, NEW c \in Callers,
           caller[c].stage = "check", caller'[c] # caller[c]
    PROVE  \/ Reuse(c)
           \/ Compare(c)
<1>1. PICK d \in Callers :
         AskForIndex(d) \/ Compare(d) \/ Reuse(d) \/ ReadSize(d) \/ ReadHash(d) \/ ReadSymbols(d)
         \/ SaveIndex(d)
    BY DEF IndexNext, EditContent
<1>2. ASSUME d # c PROVE FALSE
    <2>1. CASE AskForIndex(d)
        BY <1>2, <2>1 DEF AskForIndex, IndexInv
    <2>2. CASE Compare(d)
        BY <1>2, <2>2 DEF Compare, IndexInv
    <2>3. CASE Reuse(d)
        BY <1>2, <2>3 DEF Reuse, IndexInv
    <2>4. CASE ReadSize(d)
        BY <1>2, <2>4 DEF ReadSize, IndexInv
    <2>5. CASE ReadHash(d)
        BY <1>2, <2>5 DEF ReadHash, IndexInv
    <2>6. CASE ReadSymbols(d)
        BY <1>2, <2>6 DEF ReadSymbols, IndexInv
    <2>7. CASE SaveIndex(d)
        BY <1>2, <2>7 DEF SaveIndex, IndexInv
    <2> QED
        BY <1>1, <2>1, <2>2, <2>3, <2>4, <2>5, <2>6, <2>7
<1>3. ~AskForIndex(c) /\ ~ReadSize(c) /\ ~ReadHash(c) /\ ~ReadSymbols(c) /\ ~SaveIndex(c)
    BY DEF AskForIndex, ReadSize, ReadHash, ReadSymbols, SaveIndex, Visits, NotAsking
<1> QED
    BY <1>1, <1>2, <1>3

LEMMA Checking ==
    ASSUME IndexInv, NEW c \in Callers, caller[c].stage = "check"
    PROVE  Indexing(caller[c]) /\ CheckFits(caller[c])
BY DEF IndexInv, CallerFits, NotAsking

\* A check without an edit that has visited every file.
LEMMA CheckedAll ==
    ASSUME IndexInv, NEW c \in Callers, caller[c].stage = "check", caller[c].to = {},
           caller[c].before = indexEdits, NEW p \in IndexedPaths
    PROVE  /\ (caller[c].entries[p] = NoEntry) <=> (content[p] = NoFileThere)
           /\ content[p] # NoFileThere => SameFile(caller[c].index.entries[p], content[p], caller[c].hashes)
<1>1. CheckFits(caller[c])
    BY Checking
<1> QED
    BY <1>1 DEF CheckFits

LEMMA ReusedFits ==
    ASSUME IndexInv, NEW c \in Callers, Reuse(c),
           caller[c].before = indexEdits, SameFiles(c), NEW p \in IndexedPaths
    PROVE  Truthful(caller[c].index.entries[p], content[p], caller[c].hashes,
                    caller[c].index.edits = 0)
<1>1. caller[c].stage = "check" /\ caller[c].to = {}
    BY DEF Reuse
<1>2. PICK x : x = caller[c].index
    OBVIOUS
<1>3. (caller[c].entries[p] = NoEntry) <=> (x.entries[p] = NoEntry)
    BY <1>2 DEF SameFiles
<1>4. IndexFits(x)
    BY <1>1, <1>2, Checking DEF CheckFits
<1>5. CASE content[p] = NoFileThere
    BY <1>1, <1>2, <1>3, <1>5, CheckedAll DEF Truthful
<1>6. CASE content[p] # NoFileThere
    <2>1. SameFile(x.entries[p], content[p], caller[c].hashes)
        BY <1>1, <1>2, <1>6, CheckedAll
    <2>2. x.edits = 0 /\ x.entries[p].hash # NoFileThere => x.entries[p].symbols = x.entries[p].hash
        BY <1>4 DEF IndexFits
    <2> QED
        BY <1>2, <1>6, <2>1, <2>2 DEF Truthful, SameFile
<1> QED
    BY <1>5, <1>6

LEMMA ReusedOne ==
    ASSUME IndexInv, IndexNext, NEW c \in Callers,
           caller[c].stage = "check", caller'[c].stage = "rest", caller[c].before = indexEdits,
           NEW p \in IndexedPaths
    PROVE  Truthful(caller[c].index.entries[p], content[p], caller[c].hashes,
                    caller[c].index.edits = 0)
<1>1. Reuse(c)
    <2>1. caller'[c] # caller[c]
        OBVIOUS
    <2>2. ASSUME Compare(c) PROVE FALSE
        <3>1. Indexing(caller[c])
            BY Checking
        <3>2. AtStage("scan", NotSaved, caller[c].hashes).stage = "scan"
            BY DEF AtStage
        <3> QED
            BY <2>2, <3>1, <3>2 DEF Compare, Indexing, IndexInv
    <2> QED
        BY <2>1, <2>2, OnlyReuseEnds
<1>2. SameFiles(c)
    <2>1. AtStage("scan", NotSaved, caller[c].hashes).stage = "scan"
        BY DEF AtStage
    <2> QED
        BY <1>1, <2>1 DEF Reuse, IndexInv
<1> QED
    BY <1>1, <1>2, ReusedFits

LEMMA UneditedStays ==
    ASSUME IndexInv, IndexNext, NEW c \in Callers,
           caller[c].stage = "check", caller'[c].stage = "scan"
    PROVE  \/ caller[c].index.asOf < indexEdits \/ caller[c].index.edits > 0
<1> SUFFICES ASSUME ~(caller[c].index.asOf < indexEdits), ~(caller[c].index.edits > 0)
             PROVE  FALSE
    OBVIOUS
<1>1. PICK x : x = caller[c].index
    OBVIOUS
<1>2. IndexFits(x) /\ x.asOf <= caller[c].before /\ Indexing(caller[c])
    BY <1>1, Checking DEF CheckFits
<1>3. x.edits = 0 /\ x.asOf = indexEdits
    BY <1>1, <1>2 DEF IndexFits, IndexInv
<1>4. caller[c].before = indexEdits
    BY <1>2, <1>3 DEF Indexing, IndexInv
<1>5. \A p \in IndexedPaths : Describes(x.entries[p], content[p])
    BY <1>1, <1>2, <1>3 DEF IndexFits
<1>6. \A p \in IndexedPaths : (x.entries[p] = NoEntry) <=> (content[p] = NoFileThere)
    <2> SUFFICES ASSUME NEW p \in IndexedPaths
                 PROVE  (x.entries[p] = NoEntry) <=> (content[p] = NoFileThere)
        OBVIOUS
    <2>1. CASE content[p] = NoFileThere
        BY <1>5, <2>1 DEF Describes
    <2>2. CASE content[p] # NoFileThere
        <3>1. x.entries[p].size = SizeOf(content[p]) /\ SizeOf(content[p]) # 0
            BY <1>5, <2>2, SizesAre DEF Describes, IndexInv
        <3> QED
            BY <2>2, <3>1, NoEntryIs
    <2> QED
        BY <2>1, <2>2
<1>7. CASE Compare(c)
    <2>1. PICK p \in IndexedPaths : content[p] # NoFileThere /\ ~SameFile(x.entries[p], content[p], caller[c].hashes)
        <3>1. PICK p \in IndexedPaths :
                 caller' = [caller EXCEPT ![c] =
                    IF content[p] = NoFileThere THEN [caller[c] EXCEPT !.to = caller[c].to \ {p}]
                    ELSE IF ~SameFile(caller[c].index.entries[p], content[p], caller[c].hashes)
                    THEN AtStage("scan", NotSaved, caller[c].hashes)
                    ELSE [caller[c] EXCEPT !.to = caller[c].to \ {p}, !.entries[p].size = 1]]
            BY <1>7 DEF Compare
        <3>2. caller'[c].stage # caller[c].stage
            OBVIOUS
        <3> QED
            BY <1>1, <1>2, <3>1, <3>2 DEF Indexing, IndexInv
    <2> QED
        BY <1>5, <1>6, <2>1 DEF Describes, SameFile
<1>8. CASE Reuse(c)
    <2>1. caller[c].to = {} /\ ~SameFiles(c)
        BY <1>8 DEF Reuse, IndexInv, NotAsking
    <2> QED
        BY <1>1, <1>4, <1>6, <2>1, CheckedAll DEF SameFiles
<1>9. caller'[c] # caller[c]
    OBVIOUS
<1> QED
    BY <1>7, <1>8, <1>9, OnlyReuseEnds

\* Whatever a scan reads of files that are edited meanwhile, and however many threads
\* ask at once: an index is reused only for the files it describes, and one made without
\* edits is reused until the next one.
THEOREM IndexIsKeptAlways == IndexSpec => IndexIsKept
<1>1. IndexInv /\ [IndexNext]_indexVars =>
        [\A c \in Callers :
            caller[c].stage = "check" /\ caller'[c].stage = "rest" /\ caller[c].before = indexEdits =>
                \A p \in IndexedPaths :
                    Truthful(caller[c].index.entries[p], content[p],
                             caller[c].hashes, caller[c].index.edits = 0)]_indexVars
    BY ReusedOne
<1>2. IndexInv /\ [IndexNext]_indexVars =>
        [\A c \in Callers :
            caller[c].stage = "check" /\ caller'[c].stage = "scan" =>
                caller[c].index.asOf < indexEdits \/ caller[c].index.edits > 0]_indexVars
    BY UneditedStays
<1> QED
    BY IndexHolds, <1>1, <1>2, PTL DEF IndexSpec, IndexIsKept, ReusedIsTruthful, UneditedIsReused

\* What is known of a repository is so: the text of a file is one version of it, its
\* imports and its tree are the repository's, and no index of changed files is used.
THEOREM AnalysisIsTrueAlways == MapSpec /\ ReadingSpec /\ IndexSpec => AnalysisIsTrue
    BY MapIsTrueAlways, ReadingIsTrueAlways, IndexIsKeptAlways, PTL DEF AnalysisIsTrue
=============================================================================
