----------------------- MODULE AutonomousBuild_proofs -----------------------
(***************************************************************************)
(* Proofs about AutonomousBuild, for every set of paths, contents,         *)
(* fingerprints and plans: type correctness, the two limits of the loop,   *)
(* and what a build does to the repository when it completes and when it   *)
(* does not.                                                               *)
(***************************************************************************)
EXTENDS AutonomousBuild, TLAPS

\* The effective plan speaks of paths of the approved plan only.
LEMMA EffectivePaths ==
    PathsOf(EffectivePlan) \subseteq PathsOf(plan)
BY DEF PathsOf, EffectivePlan

\* The paths of the effective plan are paths of the repository.
LEMMA EffectiveTyped ==
    ASSUME plan \in Plans
    PROVE  PathsOf(EffectivePlan) \subseteq Paths
<1>1. \A c \in plan : c.path \in Paths
    BY PlansAssumption DEF PlannedChange
<1>2. PathsOf(plan) \subseteq Paths
    BY <1>1 DEF PathsOf
<1> QED BY <1>2, EffectivePaths

----------------------------------------------------------------------------
(* Types and limits.                                                       *)

\* What the limits rest on: before the first attempt nothing was counted,
\* and a failure is diagnosed only when another attempt is allowed.  Only a
\* publication that breaks off leaves a part of a file.
Limits ==
    /\ TypeOK
    /\ WithinBudget
    /\ phase \in {"new", "ready"} => failures = [e \in Evidence |-> 0]
    /\ phase = "diagnosing" => attempt < maxAttempts
    /\ phase \notin Ended \cup {"restoring"} => source \in [Paths -> FileState]
    /\ phase = "restoring" => \A p \in pending : saved[p] # Untaken

LEMMA InitLimits == Init => Limits
<1> SUFFICES ASSUME Init PROVE Limits
    OBVIOUS
<1>1. 0 \in 0 .. MaxRepeated /\ 0 \in 0 .. maxAttempts
    BY BudgetsAssumption DEF Init
<1>2. Absent \in FileState
    BY DEF FileState
<1> QED
    BY <1>1, <1>2 DEF Init, Limits, TypeOK, WithinBudget, Phases, Running, Ended

LEMMA NextLimits == Limits /\ [Next]_vars => Limits'
<1> SUFFICES ASSUME Limits, [Next]_vars PROVE Limits'
    OBVIOUS
<1> USE DEF Limits, published, others
<1>t. /\ maxAttempts \in 1 .. 10 /\ MaxRepeated \in Nat \ {0} /\ attempt \in Nat
      /\ Absent \in FileState /\ Contents \subseteq FileState
    BY BudgetsAssumption DEF TypeOK, FileState
<1>1. CASE Construct
    BY <1>1, <1>t DEF Construct, TypeOK, WithinBudget, Phases, Running, Ended
<1>2. CASE Prepare
    <2>1. workspace' \in [Paths -> FileState]
        BY <1>2, <1>t DEF Prepare, TypeOK, Ended
    <2>2. attempt' \in 1 .. maxAttempts' /\ attempt' \in 0 .. maxAttempts'
        BY <1>2, <1>t DEF Prepare
    <2>3. \A e \in Evidence : failures'[e] < MaxRepeated
        BY <1>2, <1>t DEF Prepare
    <2> QED
        BY <1>2, <2>1, <2>2, <2>3
           DEF Prepare, TypeOK, WithinBudget, Phases, Running, Ended
<1>3. CASE PrepareFails
    BY <1>3 DEF PrepareFails, TypeOK, WithinBudget, Phases, Running, Ended
<1>4. ASSUME NEW contents \in [Paths -> Contents], Build(contents)
      PROVE  Limits'
    <2>1. workspace' \in [Paths -> FileState]
        BY <1>4, <1>t DEF Build, TypeOK
    <2>2. changed' \subseteq Paths
        BY <1>4, EffectiveTyped DEF Build, TypeOK
    <2> QED
        BY <1>4, <2>1, <2>2 DEF Build, TypeOK, WithinBudget, Phases, Running, Ended
<1>5. CASE BuildFails
    BY <1>5, <1>t DEF BuildFails, End, TypeOK, WithinBudget, Phases, Running, Ended
<1>6. ASSUME NEW after \in AfterCommands, ValidationPasses(after)
      PROVE  Limits'
    BY <1>6 DEF ValidationPasses, AfterCommands, TypeOK, WithinBudget, Phases,
                Running, Ended
<1>7. ASSUME NEW after \in AfterCommands, NEW e \in Evidence,
             ValidationFails(e, after)
      PROVE  Limits'
    <2>1. \A d \in Evidence : failures[d] \in Nat /\ failures[d] < MaxRepeated
        BY <1>7, <1>t DEF ValidationFails, AttemptFailed, TypeOK, WithinBudget, Running
    <2>2. failures' = [failures EXCEPT ![e] = failures[e] + 1]
        BY <1>7 DEF ValidationFails, AttemptFailed, Counted, Seen, BudgetSpent
    <2>3. failures' \in [Evidence -> 0 .. MaxRepeated]
        BY <2>1, <2>2, <1>t DEF TypeOK
    <2>4. workspace' \in [Paths -> FileState] /\ phase' \in {"failed", "diagnosing"}
        BY <1>7, <1>t DEF ValidationFails, AttemptFailed, End, AfterCommands
    <2>5. phase' = "diagnosing" =>
              /\ attempt < maxAttempts
              /\ \A d \in Evidence : failures'[d] < MaxRepeated
        <3>1. SUFFICES ASSUME phase' = "diagnosing"
                       PROVE  /\ attempt < maxAttempts
                              /\ \A d \in Evidence : failures'[d] < MaxRepeated
            OBVIOUS
        <3>2. ~(failures[e] + 1 >= MaxRepeated) /\ attempt # maxAttempts
            BY <1>7, <3>1 DEF ValidationFails, AttemptFailed, BudgetSpent, Seen, End
        <3>3. failures'[e] < MaxRepeated
            BY <3>2, <2>1, <2>2, <1>t DEF TypeOK
        <3>4. \A d \in Evidence \ {e} : failures'[d] = failures[d]
            BY <2>2 DEF TypeOK
        <3>5. attempt \in 0 .. maxAttempts
            BY DEF TypeOK
        <3> QED
            BY <3>2, <3>3, <3>4, <3>5, <2>1, <1>t
    <2>6. attempt \in 1 .. maxAttempts
        BY <1>7 DEF ValidationFails, AttemptFailed, WithinBudget, Running
    <2> QED
        BY <1>7, <2>3, <2>4, <2>5, <2>6
           DEF ValidationFails, AttemptFailed, TypeOK, WithinBudget, Phases, Running, Ended
<1>8. CASE Repair
    <2>1. attempt' \in 1 .. maxAttempts' /\ attempt' \in 0 .. maxAttempts'
        BY <1>8, <1>t DEF Repair
    <2> QED
        BY <1>8, <2>1 DEF Repair, TypeOK, WithinBudget, Phases, Running, Ended
<1>9. CASE DiagnosisFails
    BY <1>9, <1>t
       DEF DiagnosisFails, End, TypeOK, WithinBudget, Phases, Running, Ended
<1>10. CASE BeginPublish
    <2>1. saved' \in [Paths -> FileState \cup {Untaken}]
        BY <1>10, <1>t DEF BeginPublish, TypeOK, Ended
    <2>2. pending' \subseteq Paths
        BY <1>10 DEF BeginPublish, ToPublish, TypeOK
    <2> QED
        BY <1>10, <1>t, <2>1, <2>2
           DEF BeginPublish, TypeOK, WithinBudget, Phases, Running, Ended
<1>11. CASE PublishNothing \/ PublishRefused \/ Published \/ Restored
    BY <1>11, <1>t
       DEF PublishNothing, PublishRefused, Published, Restored, End,
           TypeOK, WithinBudget, Phases, Running, Ended
<1>12. ASSUME NEW p \in Paths, PublishPath(p)
       PROVE  Limits'
    <2>1. source' \in [Paths -> FileState] /\ pending' \subseteq Paths
        BY <1>12 DEF PublishPath, TypeOK, Ended
    <2> QED
        BY <1>12, <2>1 DEF PublishPath, TypeOK, WithinBudget, Phases, Running, Ended
<1>14. ASSUME NEW p \in Paths, WriteRaises(p)
       PROVE  Limits'
    <2>1. source' \in [Paths -> FileState \cup {Partial}]
        BY <1>14 DEF WriteRaises, Broken, TypeOK
    <2>2. pending' \subseteq Paths
        BY <1>14 DEF WriteRaises
    <2> QED
        BY <1>14, <2>1, <2>2
           DEF WriteRaises, TypeOK, WithinBudget, Phases, Running, Ended
<1>15. ASSUME NEW p \in Paths, RestorePath(p)
       PROVE  Limits'
    <2>0. saved[p] \in FileState
        BY <1>15 DEF RestorePath, TypeOK
    <2>1. source' \in [Paths -> FileState \cup {Partial}] /\ pending' \subseteq Paths
        BY <1>15, <2>0 DEF RestorePath, TypeOK
    <2> QED
        BY <1>15, <2>1 DEF RestorePath, TypeOK, WithinBudget, Phases, Running, Ended
<1>16. ASSUME NEW p \in Paths, RestoreRaises(p)
       PROVE  Limits'
    <2>1. source' \in [Paths -> FileState \cup {Partial}]
        BY <1>16 DEF RestoreRaises, Broken, TypeOK
    <2>2. workspace' \in [Paths -> FileState] /\ phase' = "failed" /\ torn' \subseteq Paths
        BY <1>16, <1>t DEF RestoreRaises, End, TypeOK
    <2> QED
        BY <1>16, <2>1, <2>2
           DEF RestoreRaises, TypeOK, WithinBudget, Phases, Running, Ended
<1>17. ASSUME NEW p \in Paths, NEW content \in FileState, Edit(p, content)
       PROVE  Limits'
    <2>1. /\ source' \in [Paths -> FileState \cup {Partial}]
          /\ phase \notin Ended \cup {"restoring"} => source' \in [Paths -> FileState]
          /\ theirs' \in [Paths -> FileState]
        BY <1>17 DEF Edit, TypeOK
    <2>2. edited' \subseteq Paths /\ late' \subseteq Paths
        BY <1>17 DEF Edit, TypeOK
    <2> QED
        BY <1>17, <2>1, <2>2 DEF Edit, TypeOK, WithinBudget
<1>13. CASE UNCHANGED vars
    BY <1>13 DEF vars, TypeOK, WithinBudget
<1> QED
    BY <1>1, <1>2, <1>3, <1>4, <1>5, <1>6, <1>7, <1>8, <1>9, <1>10, <1>11,
       <1>12, <1>13, <1>14, <1>15, <1>16, <1>17 DEF Next, Loop

\* The state of the loop is well typed.
THEOREM TypeCorrect == Spec => []TypeOK
<1>1. Limits => TypeOK
    BY DEF Limits
<1> QED
    BY <1>1, InitLimits, NextLimits, PTL DEF Spec

\* However the commands fail and whatever the diagnoser answers, a loop that
\* goes on has attempts left and has seen no fingerprint too often.
THEOREM LoopIsBounded == Spec => []WithinBudget
<1>1. Limits => WithinBudget
    BY DEF Limits
<1> QED
    BY <1>1, InitLimits, NextLimits, PTL DEF Spec

----------------------------------------------------------------------------
(* What a build does to the repository.                                    *)

\* The paths the publisher has backed up.
Taken == {p \in Paths : saved[p] # Untaken}

\* What has become of path p while the changed paths are written: a path that
\* was not backed up is untouched and was to be absent, one still to be
\* written is untouched, and one that was written has what was verified,
\* unless others have written it since.
PartlyWritten(p) ==
    /\ p \in changed \ Taken =>
           verified[p] = Absent /\ (p \in late \/ theirs[p] = Absent)
    /\ p \in pending => source[p] = theirs[p]
    /\ p \in Taken \ pending =>
           source[p] = verified[p] \/ (p \in late /\ source[p] = theirs[p])

\* And while they are restored.
PartlyRestored(p) ==
    /\ p \in Taken \ pending => p \in late \/ source[p] = theirs[p]
    /\ p \in pending =>
           p \in late \/ source[p] \in {theirs[p], verified[p], Partial}

\* What is published is what was verified, the backup has what others left,
\* and the source is theirs wherever the publisher has not been.
Publishing ==
    /\ phase \in {"publishing", "writing", "restoring"} => workspace = verified
    /\ phase \notin Ended \cup {"writing", "restoring"} =>
           \A p \in Paths : source[p] = theirs[p]
    /\ phase \in {"writing", "restoring"} =>
           /\ pending \subseteq Taken /\ Taken \subseteq changed
           /\ \A p \in Paths :
                  /\ p \notin Taken => source[p] = theirs[p]
                  /\ p \in Taken \ late => saved[p] = theirs[p]
    /\ phase = "writing" => \A p \in Paths : PartlyWritten(p)
    /\ phase = "restoring" => \A p \in Paths : PartlyRestored(p)

Isolation ==
    /\ Limits
    /\ FailureLeavesSource /\ PublishedIsVerified
    /\ Publishing /\ late \subseteq edited

LEMMA InitIsolation == Init => Isolation
BY InitLimits
   DEF Init, Isolation, FailureLeavesSource, PublishedIsVerified, Publishing

\* A step before publication leaves alone what the invariant speaks of.
LEMMA QuietStep ==
    ASSUME Isolation, UNCHANGED <<source, theirs>>,
           phase \in Phases \ (Ended \cup {"writing", "restoring"}),
           phase' \in Phases \ {"completed", "writing", "restoring"},
           phase' = "publishing" => workspace' = verified'
    PROVE  FailureLeavesSource' /\ PublishedIsVerified' /\ Publishing'
BY DEF Isolation, FailureLeavesSource, PublishedIsVerified, Publishing

\* Only edits add to either set.
LEMMA NextLate == late \subseteq edited /\ [Next]_vars => (late \subseteq edited)'
BY DEF Next, Loop, vars, others, Construct, Prepare, PrepareFails, Build, BuildFails,
       ValidationPasses, ValidationFails, AttemptFailed, Repair, DiagnosisFails,
       BeginPublish, PublishNothing, PublishRefused, PublishPath, Published,
       WriteRaises, RestorePath, Restored, RestoreRaises, Edit

LEMMA NextIsolation == Isolation /\ [Next]_vars => Isolation'
<1> SUFFICES ASSUME Isolation, [Next]_vars
             PROVE  FailureLeavesSource' /\ PublishedIsVerified' /\ Publishing'
    BY NextLimits, NextLate DEF Isolation
<1> DEFINE Goal == FailureLeavesSource' /\ PublishedIsVerified' /\ Publishing'
<1>t. TypeOK /\ Publishing
    BY DEF Isolation, Limits
<1>u. /\ Ended = {"rejected", "completed", "failed"}
      /\ Phases \ {"completed"} = {"new", "ready", "rejected", "failed"} \cup Running
    BY DEF Phases, Ended, Running
<1>1. CASE Construct
    <2>1. phase' \in {"ready", "rejected"}
        BY <1>1 DEF Construct
    <2> QED
        BY <1>1, <2>1, QuietStep DEF Construct, Phases, Running, Ended, others
<1>2. CASE Prepare \/ PrepareFails \/ BuildFails \/ Repair \/ DiagnosisFails
    BY <1>2, QuietStep
       DEF Prepare, PrepareFails, BuildFails, Repair, DiagnosisFails, End, Phases,
           Running, Ended, others
<1>3. ASSUME NEW contents \in [Paths -> Contents], Build(contents)
      PROVE  Goal
    BY <1>3, QuietStep DEF Build, Phases, Running, Ended, others
<1>4. ASSUME NEW after \in AfterCommands, ValidationPasses(after)
      PROVE  Goal
    BY <1>4, QuietStep DEF ValidationPasses, Phases, Running, Ended, others
<1>5. ASSUME NEW after \in AfterCommands, NEW e \in Evidence,
             ValidationFails(e, after)
      PROVE  Goal
    <2>1. phase' \in {"failed", "diagnosing"}
        BY <1>5 DEF ValidationFails, AttemptFailed, BudgetSpent, Seen, End
    <2> QED
        BY <1>5, <2>1, QuietStep
           DEF ValidationFails, AttemptFailed, Phases, Running, Ended, others
<1>6. CASE BeginPublish
    <2>1. /\ phase = "publishing" /\ phase' = "writing"
          /\ UNCHANGED <<source, workspace, changed, late, theirs, verified>>
          /\ workspace = verified
        BY <1>6, <1>t DEF BeginPublish, others, Publishing
    <2>2. \A p \in Paths : source[p] = theirs[p] /\ source[p] # Untaken
        BY <2>1, <1>t, ContentsAssumption
           DEF Publishing, Isolation, Limits, Ended, FileState, Absent, Untaken,
               TypeOK
    <2>3. /\ pending' = ToPublish /\ ToPublish \subseteq changed
          /\ \A p \in Paths :
                 saved'[p] = IF p \in ToPublish THEN source[p] ELSE Untaken
        BY <1>6 DEF BeginPublish, ToPublish
    <2>4. Taken' = ToPublish
        BY <2>2, <2>3, <1>t DEF Taken, ToPublish, TypeOK
    <2>5. \A p \in changed \ ToPublish : source[p] = Absent /\ workspace[p] = Absent
        BY DEF ToPublish
    <2>6. Publishing'
        BY <2>1, <2>2, <2>3, <2>4, <2>5 DEF Publishing, PartlyWritten, Ended
    <2> QED
        BY <2>1, <2>2, <2>6 DEF FailureLeavesSource, PublishedIsVerified
<1>7. CASE PublishNothing
    <2>1. /\ phase = "publishing" /\ phase' = "completed"
          /\ UNCHANGED <<source, changed, theirs, verified>>
          /\ workspace = verified /\ ToPublish = {}
        BY <1>7, <1>t DEF PublishNothing, End, others, Publishing
    <2>2. \A p \in Paths : source[p] = theirs[p]
        BY <2>1, <1>t DEF Publishing, Ended
    <2>3. \A p \in changed : source[p] = Absent /\ workspace[p] = Absent
        BY <2>1 DEF ToPublish
    <2> QED
        BY <2>1, <2>2, <2>3
           DEF FailureLeavesSource, PublishedIsVerified, Publishing, Ended
<1>8. CASE PublishRefused
    BY <1>8, QuietStep DEF PublishRefused, End, Phases, Running, Ended, others
<1>9. ASSUME NEW p \in Paths, PublishPath(p)
      PROVE  Goal
    <2>1. /\ phase = "writing" /\ phase' = "writing" /\ p \in pending
          /\ pending' = pending \ {p}
          /\ UNCHANGED <<workspace, changed, saved, late, theirs, verified>>
          /\ source'[p] = verified[p]
          /\ \A q \in Paths \ {p} : source'[q] = source[q]
        BY <1>9, <1>t DEF PublishPath, Publishing, others, TypeOK
    <2>2. Taken' = Taken
        BY <2>1 DEF Taken
    <2>3. Publishing'
        BY <2>1, <2>2, <1>t DEF Publishing, PartlyWritten, Ended
    <2> QED
        BY <2>1, <2>3, <2>2, <1>t
           DEF FailureLeavesSource, PublishedIsVerified, Publishing, PartlyWritten
<1>10. CASE Published
    <2>1. /\ phase = "writing" /\ phase' = "completed" /\ pending = {}
          /\ UNCHANGED <<source, changed, late, theirs, verified>>
        BY <1>10 DEF Published, End, others
    <2>2. \A p \in Paths :
              IF p \in changed
                THEN source[p] = verified[p] \/ (p \in late /\ source[p] = theirs[p])
                ELSE source[p] = theirs[p]
        BY <2>1, <1>t DEF Publishing, PartlyWritten
    <2> QED
        BY <2>1, <2>2 DEF FailureLeavesSource, PublishedIsVerified, Publishing, Ended
<1>11. ASSUME NEW p \in Paths, WriteRaises(p)
       PROVE  Goal
    <2>1. /\ phase = "writing" /\ phase' = "restoring" /\ p \in pending
          /\ pending' = Taken
          /\ UNCHANGED <<workspace, changed, saved, late, theirs, verified>>
          /\ \A q \in Paths \ {p} : source'[q] = source[q]
        BY <1>11, <1>t DEF WriteRaises, Broken, others, Taken, TypeOK
    <2>2. source'[p] = source[p] \/ source'[p] = Partial
        BY <1>11, <1>t DEF WriteRaises, Broken, TypeOK
    <2>3. Taken' = Taken
        BY <2>1 DEF Taken
    <2>4. Publishing'
        BY <2>1, <2>2, <2>3, <1>t DEF Publishing, PartlyWritten, PartlyRestored, Ended
    <2> QED
        BY <2>1, <2>4, <2>3, <1>t DEF FailureLeavesSource, PublishedIsVerified, Publishing
<1>12. ASSUME NEW p \in Paths, RestorePath(p)
       PROVE  Goal
    <2>1. /\ phase = "restoring" /\ phase' = "restoring" /\ p \in pending
          /\ pending' = pending \ {p}
          /\ UNCHANGED <<workspace, changed, saved, late, theirs, verified>>
          /\ source'[p] = saved[p]
          /\ \A q \in Paths \ {p} : source'[q] = source[q]
        BY <1>12, <1>t DEF RestorePath, others, TypeOK
    <2>2. Taken' = Taken
        BY <2>1 DEF Taken
    <2>3. Publishing'
        BY <2>1, <2>2, <1>t DEF Publishing, PartlyRestored, Ended
    <2> QED
        BY <2>1, <2>3, <2>2, <1>t DEF FailureLeavesSource, PublishedIsVerified, Publishing
<1>13. CASE Restored
    <2>1. /\ phase = "restoring" /\ phase' = "failed" /\ pending = {}
          /\ UNCHANGED <<source, changed, late, torn, theirs, verified>>
        BY <1>13 DEF Restored, End, others, published
    <2>2. \A p \in Paths : source[p] = theirs[p] \/ (p \in changed /\ p \in late)
        BY <2>1, <1>t DEF Publishing, PartlyRestored
    <2> QED
        BY <2>1, <2>2 DEF FailureLeavesSource, PublishedIsVerified, Publishing, Ended
<1>14. ASSUME NEW p \in Paths, RestoreRaises(p)
       PROVE  Goal
    <2>1. /\ phase = "restoring" /\ phase' = "failed" /\ p \in pending
          /\ torn' = pending
          /\ UNCHANGED <<changed, late, theirs, verified>>
          /\ \A q \in Paths \ {p} : source'[q] = source[q]
        BY <1>14, <1>t DEF RestoreRaises, Broken, End, others, TypeOK
    <2>2. source'[p] = source[p] \/ source'[p] = Partial
        BY <1>14, <1>t DEF RestoreRaises, Broken, TypeOK
    <2>3. \A q \in Paths :
              \/ source'[q] = theirs[q]
              \/ q \in changed /\ q \in late
              \/ q \in changed /\ q \in pending /\ source'[q] \in {verified[q], Partial}
        BY <2>1, <2>2, <1>t DEF Publishing, PartlyRestored
    <2> QED
        BY <2>1, <2>3 DEF FailureLeavesSource, PublishedIsVerified, Publishing, Ended
<1>15. ASSUME NEW p \in Paths, NEW content \in FileState, Edit(p, content)
       PROVE  Goal
    <2>1. /\ phase' = phase /\ phase \in Running
          /\ UNCHANGED <<workspace, changed, saved, pending, torn, verified>>
          /\ source'[p] = content /\ theirs'[p] = content
          /\ \A q \in Paths \ {p} : source'[q] = source[q] /\ theirs'[q] = theirs[q]
        BY <1>15, <1>t DEF Edit, published, TypeOK
    <2>2. phase \in {"writing", "restoring"} => late' = late \cup {p}
        BY <1>15 DEF Edit
    <2>3. Taken' = Taken
        BY <2>1 DEF Taken
    <2>4. Publishing'
        <3>1. CASE phase = "writing"
            BY <3>1, <2>1, <2>2, <2>3, <1>t DEF Publishing, PartlyWritten, Ended
        <3>2. CASE phase = "restoring"
            BY <3>2, <2>1, <2>2, <2>3, <1>t DEF Publishing, PartlyRestored, Ended
        <3>3. CASE phase \notin {"writing", "restoring"}
            BY <3>3, <2>1, <1>t DEF Publishing
        <3> QED
            BY <3>1, <3>2, <3>3
    <2>5. phase # "completed" /\ phase # "failed"
        BY <2>1 DEF Running
    <2> QED
        <3>1. CASE phase \in {"writing", "restoring"}
            BY <3>1, <2>1, <2>3, <2>4
               DEF FailureLeavesSource, PublishedIsVerified, Publishing
        <3>2. CASE phase \notin {"writing", "restoring"}
            <4>1. \A q \in Paths : source'[q] = theirs'[q]
                BY <3>2, <2>1, <1>t DEF Publishing, Running, Ended
            <4> QED
                BY <4>1, <2>1, <2>4, <2>5 DEF FailureLeavesSource, PublishedIsVerified
        <3> QED
            BY <3>1, <3>2
<1>16. CASE UNCHANGED vars
    BY <1>16
       DEF vars, published, others, Isolation, FailureLeavesSource,
           PublishedIsVerified, Publishing, PartlyWritten, PartlyRestored, Taken
<1> QED
    BY <1>1, <1>2, <1>3, <1>4, <1>5, <1>6, <1>7, <1>8, <1>9, <1>10, <1>11,
       <1>12, <1>13, <1>14, <1>15, <1>16 DEF Next, Loop

LEMMA AlwaysIsolated == Spec => []Isolation
BY InitIsolation, NextIsolation, PTL DEF Spec

\* A completed build put the verified content in every path it changed, and
\* what others have made of any other path is as they made it.
THEOREM CompletedIsVerified == Spec => []PublishedIsVerified
<1>1. Isolation => PublishedIsVerified
    BY DEF Isolation
<1> QED
    BY <1>1, AlwaysIsolated, PTL

\* A build that fails at any point, in any attempt and at any path of its
\* publication, leaves the source as others have made it; where the restore
\* raises as well, only paths it has not reached differ.
THEOREM FailedIsHarmless == Spec => []FailureLeavesSource
<1>1. Isolation => FailureLeavesSource
    BY DEF Isolation
<1> QED
    BY <1>1, AlwaysIsolated, PTL

----------------------------------------------------------------------------
(* What a build may change at all.                                         *)

\* The paths accumulated over the attempts are paths of the approved plan.
Approved == changed \subseteq PathsOf(plan)

LEMMA InitApproved == Init => Approved
BY DEF Init, Approved

LEMMA NextApproved == Isolation /\ Approved /\ [Next]_vars => Approved'
<1> SUFFICES ASSUME Isolation, Approved, [Next]_vars PROVE Approved'
    OBVIOUS
<1>1. CASE changed' = changed /\ plan' = plan
    BY <1>1 DEF Approved, PathsOf
<1>2. ASSUME NEW contents \in [Paths -> Contents], Build(contents)
      PROVE  Approved'
    BY <1>2, EffectivePaths DEF Build, Approved, PathsOf, Isolation, Limits
<1> QED
    BY <1>1, <1>2
       DEF Next, Loop, vars, Construct, Prepare, PrepareFails, BuildFails,
           ValidationPasses, ValidationFails, AttemptFailed, Repair, DiagnosisFails,
           BeginPublish, PublishNothing, PublishRefused, PublishPath, Published,
           WriteRaises, RestorePath, Restored, RestoreRaises, Edit

\* The loop changes the repository only at paths of the approved plan: at those
\* that were accumulated, while it publishes or restores and once it is done.
THEOREM OnlyApprovedPathsChange == Spec => []PublishesOnlyApproved
<1>1. Isolation /\ Approved /\ [Next]_vars => Approved'
    BY NextApproved
<1>2. Isolation /\ Approved => PublishesOnlyApproved
    BY DEF Isolation, Limits, TypeOK, FailureLeavesSource, PublishedIsVerified,
           Approved, PublishesOnlyApproved
<1> QED
    BY <1>1, <1>2, InitApproved, AlwaysIsolated, PTL DEF Spec

\* Whatever a loop's attempts came to, the source gets what was approved and
\* verified, or nothing but what a restore that raised has not undone.
THEOREM SourceStaysSafe == Spec => []SourceIsSafe
<1>1. PublishedIsVerified /\ FailureLeavesSource /\ PublishesOnlyApproved => SourceIsSafe
    BY DEF SourceIsSafe
<1> QED
    BY <1>1, CompletedIsVerified, FailedIsHarmless, OnlyApprovedPathsChange, PTL

----------------------------------------------------------------------------
(* The attempts' adjusted plans add up to the approved one.                *)

\* A path that neither an attempt nor others have touched is in the workspace
\* what it is in the source they made.
Untouched ==
    \A p \in Paths \ (Ignored \cup Scratch) :
        phase \in Running /\ p \notin changed \cup edited => workspace[p] = theirs[p]

\* After each build the workspace is as the approved plan wants it, whatever
\* the attempts before it left there.
Fulfilled ==
    phase \in {"validating", "publishing", "writing"} =>
        \A c \in plan : c.path \notin Scratch \cup Contradicted =>
            ((workspace[c.path] = Absent) <=> (c.operation = "delete"))

Realisation == Isolation /\ Untouched /\ Fulfilled /\ PlanRealised

LEMMA InitRealisation == Init => Realisation
BY InitIsolation
   DEF Init, Realisation, Untouched, Fulfilled, PlanRealised, Running

\* What one application of the effective plan makes of a path of which the
\* approved plan says one thing.
LEMMA BuildFulfils ==
    ASSUME TypeOK, NEW contents \in [Paths -> Contents], Build(contents),
           NEW c \in plan, c.path \notin Contradicted
    PROVE  (workspace'[c.path] = Absent) <=> (c.operation = "delete")
<1> DEFINE p == c.path
<1>1. /\ c \in PlannedChange /\ p \in Paths /\ contents[p] # Absent
      /\ c.operation \in {"create", "modify", "delete"}
    BY PlansAssumption, ContentsAssumption DEF TypeOK, PlannedChange
<1>2. \A d \in plan : d.path = p => d = c
    BY DEF Contradicted
<1>3. workspace'[p] = IF \E d \in EffectivePlan : d.path = p /\ d.operation = "delete"
                        THEN Absent
                      ELSE IF p \in PathsOf(EffectivePlan) THEN contents[p]
                      ELSE workspace[p]
    BY <1>1 DEF Build
<1>4. \A d \in EffectivePlan :
          d.path = p => (d.operation = "delete" <=> c.operation = "delete")
    BY <1>1, <1>2 DEF EffectivePlan
<1>e. c.operation # "delete" \/ workspace[p] # Absent
          => \E d \in EffectivePlan : d.path = p
    <2>1. SUFFICES ASSUME c.operation # "delete" \/ workspace[p] # Absent
                   PROVE  \E d \in EffectivePlan : d.path = p
        OBVIOUS
    <2> DEFINE operation ==
                   IF c.operation = "create" /\ workspace[p] # Absent THEN "modify"
                   ELSE IF c.operation = "modify" /\ ~(workspace[p] # Absent)
                     THEN "create"
                   ELSE c.operation
    <2>2. [path |-> p, operation |-> operation] \in EffectivePlan
        BY <2>1 DEF EffectivePlan
    <2> QED
        BY <2>2
<1>5. CASE c.operation # "delete"
    <2>1. p \in PathsOf(EffectivePlan)
        BY <1>5, <1>e DEF PathsOf
    <2> QED
        BY <1>1, <1>3, <1>4, <1>5, <2>1
<1>6. CASE c.operation = "delete" /\ workspace[p] # Absent
    <2>1. \E d \in EffectivePlan : d.path = p
        BY <1>6, <1>e
    <2> QED
        BY <1>3, <1>4, <1>6, <2>1
<1>7. CASE c.operation = "delete" /\ workspace[p] = Absent
    <2>1. p \notin PathsOf(EffectivePlan)
        BY <1>2, <1>7 DEF EffectivePlan, PathsOf
    <2> QED
        BY <1>3, <1>7, <2>1
<1> QED
    BY <1>5, <1>6, <1>7

LEMMA NextRealisation ==
    Realisation /\ Isolation' /\ [Next]_vars => Realisation'
<1> SUFFICES ASSUME Realisation, Isolation', [Next]_vars
             PROVE  Untouched' /\ Fulfilled' /\ PlanRealised'
    BY DEF Realisation
<1>t. /\ TypeOK /\ Untouched /\ Fulfilled /\ PlanRealised
      /\ Publishing /\ Publishing' /\ late \subseteq edited
      /\ \A c \in plan : c.path \in Paths
    BY PlansAssumption DEF Realisation, Isolation, Limits, TypeOK, PlannedChange
<1> USE DEF Untouched, Fulfilled, PlanRealised, others, published
<1>1. CASE Construct \/ PrepareFails
    BY <1>1 DEF Construct, PrepareFails, Running
<1>2. CASE Prepare
    <2>1. \A p \in Paths : source[p] = theirs[p]
        BY <1>2, <1>t DEF Prepare, Publishing, Ended
    <2>2. /\ phase' = "building" /\ theirs' = theirs
          /\ \A p \in Paths : workspace'[p] = IF p \in Ignored THEN Absent ELSE source[p]
        BY <1>2 DEF Prepare
    <2> QED
        BY <2>1, <2>2
<1>3. ASSUME NEW contents \in [Paths -> Contents], Build(contents)
      PROVE  Untouched' /\ Fulfilled' /\ PlanRealised'
    <2>1. Untouched'
        BY <1>t, <1>3 DEF Build, Running, PathsOf
    <2>2. Fulfilled'
        <3>1. plan' = plan /\ Contradicted' = Contradicted
            BY <1>3 DEF Build, Contradicted
        <3> QED
            BY <1>t, <1>3, <3>1, BuildFulfils
    <2> QED
        BY <1>3, <2>1, <2>2 DEF Build
<1>4. CASE BuildFails \/ DiagnosisFails \/ PublishRefused \/ Restored
    BY <1>4 DEF BuildFails, DiagnosisFails, PublishRefused, Restored, End, Running
<1>5. ASSUME NEW after \in AfterCommands, ValidationPasses(after)
      PROVE  Untouched' /\ Fulfilled' /\ PlanRealised'
    <2>1. /\ phase = "validating" /\ phase' = "publishing"
          /\ UNCHANGED <<plan, changed, edited, theirs>>
          /\ \A p \in Paths \ Scratch : workspace'[p] = workspace[p]
        BY <1>5 DEF ValidationPasses, AfterCommands
    <2> QED
        BY <1>t, <2>1 DEF Running, Contradicted
<1>6. ASSUME NEW after \in AfterCommands, NEW e \in Evidence,
             ValidationFails(e, after)
      PROVE  Untouched' /\ Fulfilled' /\ PlanRealised'
    <2>1. /\ phase = "validating" /\ phase' \in {"failed", "diagnosing"}
          /\ UNCHANGED <<changed, edited, theirs>>
          /\ phase' = "diagnosing" => workspace' = after
        BY <1>6 DEF ValidationFails, AttemptFailed, End
    <2>2. \A p \in Paths \ Scratch : after[p] = workspace[p]
        BY DEF AfterCommands
    <2> QED
        BY <1>t, <2>1, <2>2 DEF Running
<1>7. CASE Repair
    BY <1>t, <1>7 DEF Repair, Running
<1>8. CASE BeginPublish
    BY <1>t, <1>8 DEF BeginPublish, Running, Contradicted
<1>9. CASE PublishNothing \/ Published
    <2>1. /\ phase \in {"publishing", "writing"} /\ phase' = "completed"
          /\ UNCHANGED <<source, plan, changed, edited, late, theirs, verified>>
          /\ workspace = verified
        BY <1>9, <1>t DEF PublishNothing, Published, End, Publishing
    <2>2. PublishedIsVerified' /\ Contradicted' = Contradicted
        BY <2>1 DEF Isolation, Contradicted
    <2>3. ASSUME NEW c \in plan,
                 c.path \notin Ignored \cup Scratch \cup edited \cup Contradicted
          PROVE  source'[c.path] = workspace[c.path]
        <3>1. CASE c.path \in changed
            BY <1>t, <2>1, <2>2, <2>3, <3>1 DEF PublishedIsVerified
        <3>2. CASE c.path \notin changed
            <4>1. source'[c.path] = theirs[c.path]
                BY <1>t, <2>1, <2>2, <3>2 DEF PublishedIsVerified
            <4>2. workspace[c.path] = theirs[c.path]
                BY <1>t, <2>1, <2>3, <3>2 DEF Running
            <4> QED
                BY <4>1, <4>2
        <3> QED
            BY <3>1, <3>2
    <2> QED
        BY <1>t, <2>1, <2>2, <2>3 DEF Running
<1>10. ASSUME NEW p \in Paths,
              PublishPath(p) \/ WriteRaises(p) \/ RestorePath(p) \/ RestoreRaises(p)
       PROVE  Untouched' /\ Fulfilled' /\ PlanRealised'
    <2>1. /\ phase' \in {"writing", "restoring", "failed"}
          /\ phase' = "writing" => phase = "writing"
          /\ phase' # "failed" => workspace' = workspace /\ phase \in Running
          /\ UNCHANGED <<plan, changed, edited, theirs>>
        BY <1>10 DEF PublishPath, WriteRaises, RestorePath, RestoreRaises, End, Running
    <2> QED
        BY <1>t, <2>1 DEF Running, Contradicted
<1>11. ASSUME NEW p \in Paths, NEW content \in FileState, Edit(p, content)
       PROVE  Untouched' /\ Fulfilled' /\ PlanRealised'
    <2>1. /\ phase' = phase /\ phase \in Running /\ edited' = edited \cup {p}
          /\ UNCHANGED <<workspace, plan, changed>>
          /\ \A q \in Paths \ {p} : theirs'[q] = theirs[q]
        BY <1>t, <1>11 DEF Edit, TypeOK
    <2> QED
        BY <1>t, <2>1 DEF Running, Contradicted
<1>12. CASE UNCHANGED vars
    BY <1>t, <1>12 DEF vars, Contradicted
<1> QED
    BY <1>1, <1>2, <1>3, <1>4, <1>5, <1>6, <1>7, <1>8, <1>9, <1>10, <1>11, <1>12
       DEF Next, Loop

\* A completed build realised the approved plan over any number of repair
\* attempts, each of which adjusted the plan to what the earlier ones left,
\* for every plan and every answer of the generator.
THEOREM ApprovedPlanIsRealised == Spec => []PlanRealised
<1>1. Realisation => PlanRealised
    BY DEF Realisation
<1> QED
    BY <1>1, AlwaysIsolated, InitRealisation, NextRealisation, PTL DEF Spec
=============================================================================
