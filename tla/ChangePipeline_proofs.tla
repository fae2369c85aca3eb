------------------------ MODULE ChangePipeline_proofs ------------------------
(***************************************************************************)
(* Proofs about ChangePipeline, for every set of runs, paths, contents,    *)
(* plans and proposals.  Type correctness and that only planned and saved  *)
(* paths are written hold however runs interleave; that a failed run and a *)
(* rollback restore the repository is proved for runs that come one after  *)
(* the other (OneAtATime), because it is false for runs that overlap; that *)
(* such runs implement AtomicTransaction is proved last, step by step.     *)
(***************************************************************************)
EXTENDS ChangePipelineRefinement, TLAPS

\* Where a run's change set is the one its plan asked for, and backed up.
Prepared == {"applying", "writing", "validating", "done", "rolled_back",
             "half_undone"} \cup Restoring

LEMMA NormaliseCases ==
    \A op : Normalise(op) = IF op = "update" THEN "modify" ELSE op
BY DEF Normalise

\* A valid transaction names exactly the planned paths.
LEMMA ValidPaths ==
    ASSUME NEW planned, NEW generated, ValidTransaction(planned, generated)
    PROVE  PathsOf(generated) = PathsOf(planned)
<1>1. ASSUME NEW S, NEW T, Operations(S) = Operations(T), NEW c \in S
      PROVE  c.path \in PathsOf(T)
    <2>1. <<c.path, Normalise(c.operation)>> \in Operations(T)
        BY <1>1 DEF Operations
    <2>2. PICK d \in T : <<c.path, Normalise(c.operation)>>
                             = <<d.path, Normalise(d.operation)>>
        BY <2>1 DEF Operations
    <2>3. c.path = d.path
        BY <2>2
    <2> QED
        BY <2>3 DEF PathsOf
<1>2. Operations(planned) = Operations(generated)
    BY DEF ValidTransaction
<1> QED
    BY <1>1, <1>2 DEF PathsOf

----------------------------------------------------------------------------
(* What holds of each run by itself.                                       *)

Local(r) ==
    /\ pending[r] \subseteq changes[r]
    /\ files[r] \subseteq PathsOf(changes[r])
    /\ \A c \in changes[r] : c.operation # "delete" => c.content \in Contents
    /\ open[r] # NoFile => open[r].path \in PathsOf(changes[r])
    /\ open[r] # NoFile => pc[r] \in {"writing"} \cup Restoring
    /\ open[r] # NoFile /\ pc[r] \in Restoring => open[r].path \in files[r]
    /\ pending[r] # {} => pc[r] \in {"applying", "writing"}
    /\ pc[r] = "writing" => open[r] # NoFile
    /\ pc[r] \in {"backing_up"} \cup Prepared
           => PathsOf(changes[r]) = PathsOf(plan[r])
    /\ pc[r] \in Prepared => manifest[r]
    /\ pc[r] \in {"new", "generating", "backing_up"} => ~manifest[r]

Separate == TypeOK /\ \A r \in Runs : Local(r)

LEMMA InitSeparate == Init => Separate
BY DEF Init, Separate, TypeOK, Local, PC, Active, Restoring, Outcomes,
       Prepared, FileState, PathsOf

\* A run that a step leaves alone keeps what holds of it.
LEMMA LocalFrame ==
    ASSUME NEW s \in Runs, Local(s),
           pc'[s] = pc[s], plan'[s] = plan[s], changes'[s] = changes[s],
           pending'[s] = pending[s], files'[s] = files[s], open'[s] = open[s],
           manifest'[s] = manifest[s]
    PROVE  Local(s)'
BY DEF Local, PathsOf

LEMMA NextSeparate == Separate /\ [Next]_vars => Separate'
<1> SUFFICES ASSUME Separate, [Next]_vars PROVE Separate'
    OBVIOUS
<1>t. TypeOK /\ \A s \in Runs : Local(s)
    BY DEF Separate
<1>a. Absent \in FileState /\ Torn \in FileState /\ Contents \subseteq FileState
    BY DEF FileState
<1>1. ASSUME NEW r \in Runs, Start(r) PROVE Separate'
    <2>1. PICK planned \in Plans : plan' = [plan EXCEPT ![r] = planned]
        BY <1>1 DEF Start
    <2>2. TypeOK'
        BY <1>1, <1>t, <2>1, PlansAssumption
           DEF Start, Goto, TypeOK, PC, Active
    <2>3. Local(r)'
        BY <1>1, <1>t, <2>1
           DEF Start, Goto, TypeOK, Local, Prepared, Restoring
    <2>4. \A s \in Runs \ {r} : Local(s)'
        BY <1>1, <1>t, <2>1, LocalFrame DEF Start, Goto, TypeOK
    <2> QED BY <2>2, <2>3, <2>4 DEF Separate
<1>2. ASSUME NEW r \in Runs, NEW proposed \in Proposals, Generate(r, proposed)
      PROVE  Separate'
    <2>1. PathsOf(proposed) = PathsOf(plan[r])
        BY <1>2, ValidPaths DEF Generate
    <2>2. proposed \subseteq ProposedFileChange
        BY ProposalsAssumption
    <2>3. \A c \in proposed : c.operation # "delete" => c.content \in Contents
        BY <1>2, <2>2, NormaliseCases
           DEF Generate, Precondition, ProposedFileChange
    <2>4. PathsOf(proposed) \subseteq Paths
        BY <2>2 DEF PathsOf, ProposedFileChange
    <2>5. TypeOK'
        BY <1>2, <1>t, <2>2, <2>4 DEF Generate, Goto, TypeOK, PC, Active
    <2>6. Local(r)'
        BY <1>2, <1>t, <2>1, <2>3
           DEF Generate, Goto, TypeOK, Local, Prepared, Restoring
    <2>7. \A s \in Runs \ {r} : Local(s)'
        BY <1>2, <1>t, LocalFrame DEF Generate, Goto, TypeOK
    <2> QED BY <2>5, <2>6, <2>7 DEF Separate
<1>3. ASSUME NEW r \in Runs, GenerateFails(r)
      PROVE  Separate'
    <2>1. TypeOK'
        BY <1>3, <1>t, <1>a
           DEF GenerateFails, Goto, TypeOK, Local, PathsOf, PC, Active, Restoring, Outcomes,
               ProposedFileChange
    <2>2. Local(r)'
        BY <1>3, <1>t, <1>a
           DEF GenerateFails, Goto, TypeOK, Local, PathsOf, Prepared, Restoring, NoFile
    <2>3. \A s \in Runs \ {r} : Local(s)'
        BY <1>3, <1>t, LocalFrame DEF GenerateFails, Goto, TypeOK
    <2> QED BY <2>1, <2>2, <2>3 DEF Separate
<1>4. ASSUME NEW r \in Runs, NEW proposed \in Proposals, RejectChanges(r, proposed)
      PROVE  Separate'
    <2>1. TypeOK'
        BY <1>4, <1>t, <1>a
           DEF RejectChanges, Goto, TypeOK, Local, PathsOf, PC, Active, Restoring, Outcomes,
               ProposedFileChange
    <2>2. Local(r)'
        BY <1>4, <1>t, <1>a
           DEF RejectChanges, Goto, TypeOK, Local, PathsOf, Prepared, Restoring, NoFile
    <2>3. \A s \in Runs \ {r} : Local(s)'
        BY <1>4, <1>t, LocalFrame DEF RejectChanges, Goto, TypeOK
    <2> QED BY <2>1, <2>2, <2>3 DEF Separate
<1>5. ASSUME NEW r \in Runs, NEW p \in Paths, CaptureFile(r, p)
      PROVE  Separate'
    <2>1. TypeOK'
        BY <1>5, <1>t, <1>a
           DEF CaptureFile, Goto, TypeOK, Local, PathsOf, PC, Active, Restoring, Outcomes,
               ProposedFileChange
    <2>2. Local(r)'
        BY <1>5, <1>t, <1>a
           DEF CaptureFile, Goto, TypeOK, Local, PathsOf, Prepared, Restoring, NoFile
    <2>3. \A s \in Runs \ {r} : Local(s)'
        BY <1>5, <1>t, LocalFrame DEF CaptureFile, Goto, TypeOK
    <2> QED BY <2>1, <2>2, <2>3 DEF Separate
<1>6. ASSUME NEW r \in Runs, BackupFails(r)
      PROVE  Separate'
    <2>1. TypeOK'
        BY <1>6, <1>t, <1>a
           DEF BackupFails, Goto, TypeOK, Local, PathsOf, PC, Active, Restoring, Outcomes,
               ProposedFileChange
    <2>2. Local(r)'
        BY <1>6, <1>t, <1>a
           DEF BackupFails, Goto, TypeOK, Local, PathsOf, Prepared, Restoring, NoFile
    <2>3. \A s \in Runs \ {r} : Local(s)'
        BY <1>6, <1>t, LocalFrame DEF BackupFails, Goto, TypeOK
    <2> QED BY <2>1, <2>2, <2>3 DEF Separate
<1>7. ASSUME NEW r \in Runs, WriteManifest(r)
      PROVE  Separate'
    <2>1. TypeOK'
        BY <1>7, <1>t, <1>a
           DEF WriteManifest, Goto, TypeOK, Local, PathsOf, PC, Active, Restoring, Outcomes,
               ProposedFileChange
    <2>2. Local(r)'
        BY <1>7, <1>t, <1>a
           DEF WriteManifest, Goto, TypeOK, Local, PathsOf, Prepared, Restoring, NoFile
    <2>3. \A s \in Runs \ {r} : Local(s)'
        BY <1>7, <1>t, LocalFrame DEF WriteManifest, Goto, TypeOK
    <2> QED BY <2>1, <2>2, <2>3 DEF Separate
<1>8. ASSUME NEW r \in Runs, NEW c \in pending[r], OpenFile(r, c)
      PROVE  Separate'
    <2>1. TypeOK'
        BY <1>8, <1>t, <1>a, NormaliseCases
           DEF OpenFile, Goto, TypeOK, Local, PathsOf, PC, Active, Restoring, Outcomes,
               ProposedFileChange
    <2>2. Local(r)'
        BY <1>8, <1>t, <1>a, NormaliseCases
           DEF OpenFile, Goto, TypeOK, Local, PathsOf, Prepared, Restoring, NoFile
    <2>3. \A s \in Runs \ {r} : Local(s)'
        BY <1>8, <1>t, LocalFrame DEF OpenFile, Goto, TypeOK
    <2> QED BY <2>1, <2>2, <2>3 DEF Separate
<1>9. ASSUME NEW r \in Runs, WriteFile(r)
      PROVE  Separate'
    <2>1. TypeOK'
        BY <1>9, <1>t, <1>a
           DEF WriteFile, Goto, TypeOK, Local, PathsOf, PC, Active, Restoring, Outcomes,
               ProposedFileChange
    <2>2. Local(r)'
        BY <1>9, <1>t, <1>a
           DEF WriteFile, Goto, TypeOK, Local, PathsOf, Prepared, Restoring, NoFile
    <2>3. \A s \in Runs \ {r} : Local(s)'
        BY <1>9, <1>t, LocalFrame DEF WriteFile, Goto, TypeOK
    <2> QED BY <2>1, <2>2, <2>3 DEF Separate
<1>10. ASSUME NEW r \in Runs, NEW c \in pending[r], DeleteFile(r, c)
      PROVE  Separate'
    <2>1. TypeOK'
        BY <1>10, <1>t, <1>a, NormaliseCases
           DEF DeleteFile, Goto, TypeOK, Local, PathsOf, PC, Active, Restoring, Outcomes,
               ProposedFileChange
    <2>2. Local(r)'
        BY <1>10, <1>t, <1>a, NormaliseCases
           DEF DeleteFile, Goto, TypeOK, Local, PathsOf, Prepared, Restoring, NoFile
    <2>3. \A s \in Runs \ {r} : Local(s)'
        BY <1>10, <1>t, LocalFrame DEF DeleteFile, Goto, TypeOK
    <2> QED BY <2>1, <2>2, <2>3 DEF Separate
<1>11. ASSUME NEW r \in Runs, ApplyFails(r)
      PROVE  Separate'
    <2>1. TypeOK'
        BY <1>11, <1>t, <1>a
           DEF ApplyFails, Goto, BeginRestore, TypeOK, Local, PathsOf, PC, Active, Restoring, Outcomes,
               ProposedFileChange
    <2>2. Local(r)'
        BY <1>11, <1>t, <1>a
           DEF ApplyFails, Goto, BeginRestore, TypeOK, Local, PathsOf, Prepared, Restoring, NoFile
    <2>3. \A s \in Runs \ {r} : Local(s)'
        BY <1>11, <1>t, LocalFrame DEF ApplyFails, Goto, BeginRestore, TypeOK
    <2> QED BY <2>1, <2>2, <2>3 DEF Separate
<1>12. ASSUME NEW r \in Runs, Applied(r)
      PROVE  Separate'
    <2>1. TypeOK'
        BY <1>12, <1>t, <1>a
           DEF Applied, Goto, TypeOK, Local, PathsOf, PC, Active, Restoring, Outcomes,
               ProposedFileChange
    <2>2. Local(r)'
        BY <1>12, <1>t, <1>a
           DEF Applied, Goto, TypeOK, Local, PathsOf, Prepared, Restoring, NoFile
    <2>3. \A s \in Runs \ {r} : Local(s)'
        BY <1>12, <1>t, LocalFrame DEF Applied, Goto, TypeOK
    <2> QED BY <2>1, <2>2, <2>3 DEF Separate
<1>13. ASSUME NEW r \in Runs, ValidationPasses(r)
      PROVE  Separate'
    <2>1. TypeOK'
        BY <1>13, <1>t, <1>a
           DEF ValidationPasses, Goto, TypeOK, Local, PathsOf, PC, Active, Restoring, Outcomes,
               ProposedFileChange
    <2>2. Local(r)'
        BY <1>13, <1>t, <1>a
           DEF ValidationPasses, Goto, TypeOK, Local, PathsOf, Prepared, Restoring, NoFile
    <2>3. \A s \in Runs \ {r} : Local(s)'
        BY <1>13, <1>t, LocalFrame DEF ValidationPasses, Goto, TypeOK
    <2> QED BY <2>1, <2>2, <2>3 DEF Separate
<1>14. ASSUME NEW r \in Runs, ValidationFails(r)
      PROVE  Separate'
    <2>1. TypeOK'
        BY <1>14, <1>t, <1>a
           DEF ValidationFails, Goto, BeginRestore, TypeOK, Local, PathsOf, PC, Active, Restoring, Outcomes,
               ProposedFileChange
    <2>2. Local(r)'
        BY <1>14, <1>t, <1>a
           DEF ValidationFails, Goto, BeginRestore, TypeOK, Local, PathsOf, Prepared, Restoring, NoFile
    <2>3. \A s \in Runs \ {r} : Local(s)'
        BY <1>14, <1>t, LocalFrame DEF ValidationFails, Goto, BeginRestore, TypeOK
    <2> QED BY <2>1, <2>2, <2>3 DEF Separate
<1>15. ASSUME NEW r \in Runs, Rollback(r)
      PROVE  Separate'
    <2>1. TypeOK'
        BY <1>15, <1>t, <1>a
           DEF Rollback, Goto, BeginRestore, TypeOK, Local, PathsOf, PC, Active, Restoring, Outcomes,
               ProposedFileChange
    <2>2. Local(r)'
        BY <1>15, <1>t, <1>a
           DEF Rollback, Goto, BeginRestore, TypeOK, Local, PathsOf, Prepared, Restoring, NoFile
    <2>3. \A s \in Runs \ {r} : Local(s)'
        BY <1>15, <1>t, LocalFrame DEF Rollback, Goto, BeginRestore, TypeOK
    <2> QED BY <2>1, <2>2, <2>3 DEF Separate
<1>16. ASSUME NEW r \in Runs, NEW p \in Paths, OpenCopy(r, p)
      PROVE  Separate'
    <2>1. TypeOK'
        <3>1. [path |-> p, content |-> saved[r][p]]
                  \in [path : Paths, content : Contents \cup {Torn}]
            BY <1>16, <1>t DEF OpenCopy, TypeOK, FileState
        <3> QED
            BY <1>16, <1>t, <1>a, <3>1 DEF OpenCopy, TypeOK
    <2>2. Local(r)'
        BY <1>16, <1>t, <1>a
           DEF OpenCopy, Goto, TypeOK, Local, PathsOf, Prepared, Restoring, NoFile
    <2>3. \A s \in Runs \ {r} : Local(s)'
        BY <1>16, <1>t, LocalFrame DEF OpenCopy, Goto, TypeOK
    <2> QED BY <2>1, <2>2, <2>3 DEF Separate
<1>17. ASSUME NEW r \in Runs, CloseCopy(r)
      PROVE  Separate'
    <2>1. TypeOK'
        BY <1>17, <1>t, <1>a
           DEF CloseCopy, Goto, TypeOK, Local, PathsOf, PC, Active, Restoring, Outcomes,
               ProposedFileChange
    <2>2. Local(r)'
        BY <1>17, <1>t, <1>a
           DEF CloseCopy, Goto, TypeOK, Local, PathsOf, Prepared, Restoring, NoFile
    <2>3. \A s \in Runs \ {r} : Local(s)'
        BY <1>17, <1>t, LocalFrame DEF CloseCopy, Goto, TypeOK
    <2> QED BY <2>1, <2>2, <2>3 DEF Separate
<1>18. ASSUME NEW r \in Runs, NEW p \in Paths, RemoveFile(r, p)
      PROVE  Separate'
    <2>1. TypeOK'
        BY <1>18, <1>t, <1>a
           DEF RemoveFile, Goto, TypeOK, Local, PathsOf, PC, Active, Restoring, Outcomes,
               ProposedFileChange
    <2>2. Local(r)'
        BY <1>18, <1>t, <1>a
           DEF RemoveFile, Goto, TypeOK, Local, PathsOf, Prepared, Restoring, NoFile
    <2>3. \A s \in Runs \ {r} : Local(s)'
        BY <1>18, <1>t, LocalFrame DEF RemoveFile, Goto, TypeOK
    <2> QED BY <2>1, <2>2, <2>3 DEF Separate
<1>19. ASSUME NEW r \in Runs, RestoreFails(r)
      PROVE  Separate'
    <2>1. TypeOK'
        BY <1>19, <1>t, <1>a
           DEF RestoreFails, Goto, HalfRestored, TypeOK, Local, PathsOf, PC, Active, Restoring, Outcomes,
               ProposedFileChange
    <2>2. Local(r)'
        BY <1>19, <1>t, <1>a
           DEF RestoreFails, Goto, HalfRestored, TypeOK, Local, PathsOf, Prepared, Restoring, NoFile
    <2>3. \A s \in Runs \ {r} : Local(s)'
        BY <1>19, <1>t, LocalFrame DEF RestoreFails, Goto, HalfRestored, TypeOK
    <2> QED BY <2>1, <2>2, <2>3 DEF Separate
<1>20. ASSUME NEW r \in Runs, Restored(r)
      PROVE  Separate'
    <2>1. TypeOK'
        BY <1>20, <1>t, <1>a
           DEF Restored, Goto, TypeOK, Local, PathsOf, PC, Active, Restoring, Outcomes,
               ProposedFileChange
    <2>2. Local(r)'
        BY <1>20, <1>t, <1>a
           DEF Restored, Goto, TypeOK, Local, PathsOf, Prepared, Restoring, NoFile
    <2>3. \A s \in Runs \ {r} : Local(s)'
        BY <1>20, <1>t, LocalFrame DEF Restored, Goto, TypeOK
    <2> QED BY <2>1, <2>2, <2>3 DEF Separate
<1>21. CASE Crash
    <2>1. TypeOK'
        BY <1>21, <1>t
           DEF Crash, HalfRestored, TypeOK, PC, Active, Restoring, Outcomes
    <2>2. ASSUME NEW s \in Runs PROVE Local(s)'
        <3>1. /\ UNCHANGED <<plan, changes, manifest>>
              /\ pending'[s] = {} /\ files'[s] = {} /\ open'[s] = NoFile
            BY <1>21 DEF Crash
        <3>2. /\ pc[s] \in PC
              /\ pc'[s] = IF pc[s] \in Active THEN HalfRestored(s) ELSE pc[s]
            BY <1>21, <1>t DEF Crash, TypeOK
        <3>3. /\ pc'[s] = "new" => pc[s] = "new"
              /\ pc'[s] \in Outcomes \cup {"new"}
              /\ pc'[s] \in Prepared => pc[s] \in Prepared
            BY <3>2 DEF HalfRestored, PC, Outcomes, Prepared, Active, Restoring
        <3>4. PathsOf(changes[s])' = PathsOf(changes[s])
            BY <3>1 DEF PathsOf
        <3> QED
            BY <1>t, <3>1, <3>3, <3>4 DEF Local, Outcomes, Restoring
    <2> QED BY <2>1, <2>2 DEF Separate
<1>22. CASE UNCHANGED vars
    BY <1>22, <1>t, LocalFrame DEF vars, Separate, TypeOK
<1>23. ASSUME NEW r \in Runs, NEW p \in Products, CommandWrites(r, p)
      PROVE  Separate'
    <2>1. TypeOK'
        <3>1. PICK left \in FileState : repo' = [repo EXCEPT ![p] = left]
            BY <1>23 DEF CommandWrites
        <3>2. repo' \in [Paths -> FileState]
            BY <1>t, <3>1 DEF TypeOK
        <3> QED
            BY <1>23, <1>t, <3>2 DEF CommandWrites, TypeOK
    <2>2. \A s \in Runs : Local(s)'
        BY <1>23, <1>t, LocalFrame DEF CommandWrites
    <2> QED BY <2>1, <2>2 DEF Separate
<1> QED
    BY <1>1, <1>2, <1>3, <1>4, <1>5, <1>6, <1>7, <1>8, <1>9, <1>10, <1>11, <1>12, <1>13, <1>14, <1>15, <1>16, <1>17, <1>18, <1>19, <1>20, <1>21, <1>22, <1>23 DEF Next, Step, Commands

\* The state of the runs and of their backups is well typed.
THEOREM TypeCorrect == Spec => []TypeOK
<1>1. Separate => TypeOK
    BY DEF Separate
<1> QED
    BY <1>1, InitSeparate, NextSeparate, PTL DEF Spec

----------------------------------------------------------------------------
(* Writes are planned and saved.                                           *)

\* Where a file changes, an active run is at work.
LEMMA WhoWrites ==
    ASSUME Separate, [Next]_vars, NEW q \in Paths, repo'[q] # repo[q]
    PROVE  \E r \in Runs :
               /\ manifest[r]
               /\ \/ /\ q \in PathsOf(plan[r])
                     /\ pc[r] \in {"applying", "writing"} \cup Restoring
                  \/ q \in Products /\ pc[r] = "validating"
<1>t. repo \in [Paths -> FileState] /\ \A s \in Runs : Local(s)
    BY DEF Separate, TypeOK
<1>1. PICK r \in Runs :
          \/ /\ pc[r] \in {"applying", "writing"} \cup Restoring
             /\ \/ \E c \in pending[r] : q = c.path
                \/ open[r] # NoFile /\ q = open[r].path
                \/ q \in files[r]
          \/ q \in Products /\ pc[r] = "validating"
    BY <1>t DEF Next, Step, Commands, CommandWrites, vars, Start, Rollback, Crash,
        GenerateFails, Generate, RejectChanges, CaptureFile, BackupFails,
        WriteManifest, OpenFile, WriteFile, DeleteFile, ApplyFails, Applied,
        ValidationPasses, ValidationFails, OpenCopy, CloseCopy, RemoveFile,
        RestoreFails, Restored, Local
<1>2. CASE q \in Products /\ pc[r] = "validating"
    BY <1>2, <1>t DEF Local, Prepared
<1>3. CASE ~(q \in Products /\ pc[r] = "validating")
    <2>1. q \in PathsOf(changes[r])
        BY <1>1, <1>3, <1>t DEF Local, PathsOf
    <2> QED
        BY <1>1, <1>3, <2>1, <1>t DEF Local, Prepared
<1> QED
    BY <1>2, <1>3

LEMMA NextPlanned ==
    Separate /\ [Next]_vars =>
        \A p \in Paths : repo'[p] # repo[p] =>
            \E r \in Runs :
                /\ manifest[r]
                /\ \/ /\ p \in PathsOf(plan[r])
                      /\ pc[r] \in {"applying", "writing"} \cup Restoring
                   \/ p \in Products /\ pc[r] = "validating"
BY WhoWrites

\* However runs interleave, only paths of an approved plan are written, or what
\* the run's commands write, and only when the backup is complete.
THEOREM OnlyPlannedPathsChange == Spec => WritesArePlannedAndSaved
BY InitSeparate, NextSeparate, NextPlanned, PTL
   DEF Spec, WritesArePlannedAndSaved

----------------------------------------------------------------------------
(* Runs that come one after the other: the backup of the active run is the *)
(* repository as the run found it.                                         *)

Serial == \A r, s \in Runs : pc[r] \in Active /\ pc[s] \in Active => r = s

\* How the repository, the backup of run r and the repository that r found
\* are related, wherever r is.
Intact(r) ==
    /\ pc[r] \in {"generating", "backing_up"} => repo = before[r]
    /\ pc[r] = "backing_up" =>
           \A p \in PathsOf(changes[r]) \ files[r] : saved[r][p] = before[r][p]
    /\ pc[r] \in Prepared =>
           \A p \in PathsOf(changes[r]) : saved[r][p] = before[r][p]
    /\ pc[r] \in Active \ {"generating", "backing_up", "undo_done"} =>
           \A p \in Paths \ (Products \cup PathsOf(changes[r])) :
               repo[p] = before[r][p]
    /\ pc[r] \in Restoring =>
           \A p \in PathsOf(changes[r]) \ files[r] : repo[p] = before[r][p]
    /\ pc[r] \in Restoring /\ open[r] # NoFile =>
           open[r].content = saved[r][open[r].path]

Recovery == Separate /\ Serial /\ \A r \in Runs : Intact(r)

LEMMA InitRecovery == Init => Recovery
BY InitSeparate
   DEF Init, Recovery, Serial, Intact, Active, Restoring, Prepared

\* A run that is not active does not depend on the repository.
LEMMA IntactFrame ==
    ASSUME NEW s \in Runs, Intact(s), pc[s] \notin Active,
           pc'[s] = pc[s], changes'[s] = changes[s], files'[s] = files[s],
           saved'[s] = saved[s], before'[s] = before[s]
    PROVE  Intact(s)'
BY DEF Intact, Active, Restoring, Prepared, PathsOf

LEMMA NextRecovery ==
    ASSUME OneAtATime
    PROVE  Recovery /\ [Next]_vars => Recovery'
<1> SUFFICES ASSUME Recovery, [Next]_vars PROVE Recovery'
    OBVIOUS
<1>s. Separate'
    BY NextSeparate DEF Recovery
<1>t. TypeOK /\ Serial /\ \A s \in Runs : Local(s) /\ Intact(s)
    BY DEF Recovery, Separate
<1>p. \A s \in Runs : PathsOf(changes[s]) \subseteq Paths
    BY <1>t DEF TypeOK, PathsOf, ProposedFileChange
<1>u. \A s \in Runs : pc[s] \in Restoring =>
          \A q \in PathsOf(changes[s]) \ files[s] : repo[q] = before[s][q]
    BY <1>t DEF Intact
<1>v. \A s \in Runs : pc[s] = "backing_up" =>
          \A q \in PathsOf(changes[s]) \ files[s] : saved[s][q] = before[s][q]
    BY <1>t DEF Intact
<1>i. ASSUME NEW r \in Runs, pc[r] \in Active, NEW s \in Runs \ {r}
      PROVE  pc[s] \notin Active
    BY <1>i, <1>t DEF Serial
<1>1. ASSUME NEW r \in Runs, Start(r) PROVE Recovery'
    <2>1. \A s \in Runs : pc[s] \notin Active
        BY <1>1 DEF Start, Idle
    <2>2. Intact(r)' /\ Serial'
        BY <1>1, <1>t, <2>1
           DEF Start, Goto, TypeOK, Serial, Intact, Active, Prepared, Restoring
    <2>3. \A s \in Runs \ {r} : Intact(s)'
        BY <1>1, <1>t, <2>1, IntactFrame DEF Start, Goto, TypeOK
    <2> QED BY <1>s, <2>2, <2>3 DEF Recovery
<1>2. ASSUME NEW r \in Runs, Rollback(r) PROVE Recovery'
    <2>1. \A s \in Runs : pc[s] \notin Active
        BY <1>2 DEF Rollback, Idle
    <2>2. Intact(r)' /\ Serial'
        BY SMTT(30), <1>2, <1>t, <2>1
           DEF Rollback, BeginRestore, Goto, TypeOK, Serial, Intact, Active,
               Prepared, Restoring, PathsOf
    <2>3. \A s \in Runs \ {r} : Intact(s)'
        BY <1>2, <1>t, <2>1, IntactFrame DEF Rollback, BeginRestore, Goto, TypeOK
    <2> QED BY <1>s, <2>2, <2>3 DEF Recovery
<1>3. ASSUME NEW r \in Runs, GenerateFails(r)
      PROVE  Recovery'
    <2>1. pc[r] \in Active
        BY <1>3 DEF GenerateFails, Active, Restoring
    <2>2. Serial'
        BY <1>3, <1>t, <1>i, <2>1 DEF GenerateFails, Goto, TypeOK, Serial
    <2>3. Intact(r)'
        BY <1>3, <1>t
           DEF GenerateFails, Goto, TypeOK, Local, Intact, Active, Prepared,
               Restoring, PathsOf
    <2>4. \A s \in Runs \ {r} : Intact(s)'
        BY <1>3, <1>t, <1>i, <2>1, IntactFrame DEF GenerateFails, Goto, TypeOK
    <2> QED BY <1>s, <2>2, <2>3, <2>4 DEF Recovery
<1>4. ASSUME NEW r \in Runs, NEW proposed \in Proposals, Generate(r, proposed)
      PROVE  Recovery'
    <2>1. pc[r] \in Active
        BY <1>4 DEF Generate, Active, Restoring
    <2>2. Serial'
        BY <1>4, <1>t, <1>i, <2>1 DEF Generate, Goto, TypeOK, Serial
    <2>3. Intact(r)'
        BY <1>4, <1>t
           DEF Generate, Goto, TypeOK, Local, Intact, Active, Prepared,
               Restoring, PathsOf
    <2>4. \A s \in Runs \ {r} : Intact(s)'
        BY <1>4, <1>t, <1>i, <2>1, IntactFrame DEF Generate, Goto, TypeOK
    <2> QED BY <1>s, <2>2, <2>3, <2>4 DEF Recovery
<1>5. ASSUME NEW r \in Runs, NEW proposed \in Proposals, RejectChanges(r, proposed)
      PROVE  Recovery'
    <2>1. pc[r] \in Active
        BY <1>5 DEF RejectChanges, Active, Restoring
    <2>2. Serial'
        BY <1>5, <1>t, <1>i, <2>1 DEF RejectChanges, Goto, TypeOK, Serial
    <2>3. Intact(r)'
        BY <1>5, <1>t
           DEF RejectChanges, Goto, TypeOK, Local, Intact, Active, Prepared,
               Restoring, PathsOf
    <2>4. \A s \in Runs \ {r} : Intact(s)'
        BY <1>5, <1>t, <1>i, <2>1, IntactFrame DEF RejectChanges, Goto, TypeOK
    <2> QED BY <1>s, <2>2, <2>3, <2>4 DEF Recovery
<1>6. ASSUME NEW r \in Runs, NEW p \in Paths, CaptureFile(r, p)
      PROVE  Recovery'
    <2>1. pc[r] \in Active
        BY <1>6 DEF CaptureFile, Active, Restoring
    <2>2. Serial'
        BY <1>6, <1>t, <1>i, <2>1 DEF CaptureFile, Goto, TypeOK, Serial
    <2>3. Intact(r)'
        <3>1. /\ repo = before[r] /\ pc'[r] = "backing_up"
              /\ repo' = repo /\ before' = before /\ changes' = changes
              /\ open' = open
            BY <1>6, <1>t DEF CaptureFile, Intact
        <3>2. saved'[r] = [saved[r] EXCEPT ![p] = repo[p]]
            BY <1>6, <1>t DEF CaptureFile, TypeOK
        <3>3. files'[r] = files[r] \ {p}
            BY <1>6, <1>t DEF CaptureFile, TypeOK
        <3>4. \A q \in PathsOf(changes[r]) \ files'[r] :
                  saved'[r][q] = before[r][q]
            <4>1. \A q \in Paths \ {p} : saved'[r][q] = saved[r][q]
                BY <1>t, <3>2 DEF TypeOK
            <4>2. saved'[r][p] = before[r][p]
                BY <1>t, <3>1, <3>2 DEF TypeOK
            <4>3. pc[r] = "backing_up"
                BY <1>6 DEF CaptureFile
            <4> QED
                BY <1>p, <1>v, <3>3, <4>1, <4>2, <4>3
        <3> QED
            BY <3>1, <3>4 DEF Intact, Active, Prepared, Restoring, PathsOf
    <2>4. \A s \in Runs \ {r} : Intact(s)'
        BY <1>6, <1>t, <1>i, <2>1, IntactFrame DEF CaptureFile, Goto, TypeOK
    <2> QED BY <1>s, <2>2, <2>3, <2>4 DEF Recovery
<1>7. ASSUME NEW r \in Runs, BackupFails(r)
      PROVE  Recovery'
    <2>1. pc[r] \in Active
        BY <1>7 DEF BackupFails, Active, Restoring
    <2>2. Serial'
        BY <1>7, <1>t, <1>i, <2>1 DEF BackupFails, Goto, TypeOK, Serial
    <2>3. Intact(r)'
        BY <1>7, <1>t
           DEF BackupFails, Goto, TypeOK, Local, Intact, Active, Prepared,
               Restoring, PathsOf
    <2>4. \A s \in Runs \ {r} : Intact(s)'
        BY <1>7, <1>t, <1>i, <2>1, IntactFrame DEF BackupFails, Goto, TypeOK
    <2> QED BY <1>s, <2>2, <2>3, <2>4 DEF Recovery
<1>8. ASSUME NEW r \in Runs, WriteManifest(r)
      PROVE  Recovery'
    <2>1. pc[r] \in Active
        BY <1>8 DEF WriteManifest, Active, Restoring
    <2>2. Serial'
        BY <1>8, <1>t, <1>i, <2>1 DEF WriteManifest, Goto, TypeOK, Serial
    <2>3. Intact(r)'
        <3>1. /\ pc[r] = "backing_up" /\ files[r] = {} /\ pc'[r] = "applying"
              /\ UNCHANGED <<repo, changes, saved, before>>
            BY <1>8, <1>t DEF WriteManifest, Goto, TypeOK
        <3>2. /\ repo = before[r]
              /\ \A p \in PathsOf(changes[r]) : saved[r][p] = before[r][p]
            BY <1>t, <3>1 DEF Intact
        <3> QED
            BY <3>1, <3>2 DEF Intact, Active, Prepared, Restoring, PathsOf
    <2>4. \A s \in Runs \ {r} : Intact(s)'
        BY <1>8, <1>t, <1>i, <2>1, IntactFrame DEF WriteManifest, Goto, TypeOK
    <2> QED BY <1>s, <2>2, <2>3, <2>4 DEF Recovery
<1>9. ASSUME NEW r \in Runs, NEW c \in pending[r], OpenFile(r, c)
      PROVE  Recovery'
    <2>1. pc[r] \in Active
        BY <1>9 DEF OpenFile, Active, Restoring
    <2>2. Serial'
        BY <1>9, <1>t, <1>i, <2>1 DEF OpenFile, Goto, TypeOK, Serial
    <2>3. Intact(r)'
        <3>1. /\ c.path \in PathsOf(changes[r])
              /\ saved' = saved /\ before' = before /\ changes' = changes
            BY <1>9, <1>t DEF OpenFile, Local, PathsOf
        <3>2. \A q \in Paths \ {c.path} : repo'[q] = repo[q]
            BY <1>9, <1>t DEF OpenFile, TypeOK
        <3>3. /\ pc[r] \in {"applying", "writing"}
              /\ pc'[r] \in {"applying", "writing"}
            BY <1>9, <1>t DEF OpenFile, Goto, TypeOK
        <3>4. \A q \in Paths \ (Products \cup PathsOf(changes[r])) :
                  repo'[q] = before[r][q]
            BY <1>t, <3>1, <3>2, <3>3 DEF Intact, Active, Restoring
        <3> QED
            BY <1>t, <3>1, <3>3, <3>4
               DEF Intact, Active, Prepared, Restoring, PathsOf
    <2>4. \A s \in Runs \ {r} : Intact(s)'
        BY <1>9, <1>t, <1>i, <2>1, IntactFrame DEF OpenFile, Goto, TypeOK
    <2> QED BY <1>s, <2>2, <2>3, <2>4 DEF Recovery
<1>10. ASSUME NEW r \in Runs, WriteFile(r)
      PROVE  Recovery'
    <2>1. pc[r] \in Active
        BY <1>10 DEF WriteFile, Active, Restoring
    <2>2. Serial'
        BY <1>10, <1>t, <1>i, <2>1 DEF WriteFile, Goto, TypeOK, Serial
    <2>3. Intact(r)'
        <3>1. /\ open[r].path \in PathsOf(changes[r])
              /\ saved' = saved /\ before' = before /\ changes' = changes
            BY <1>10, <1>t DEF WriteFile, Local, PathsOf
        <3>2. \A q \in Paths \ {open[r].path} : repo'[q] = repo[q]
            BY <1>10, <1>t DEF WriteFile, TypeOK
        <3>3. /\ pc[r] \in {"applying", "writing"}
              /\ pc'[r] \in {"applying", "writing"}
            BY <1>10, <1>t DEF WriteFile, Goto, TypeOK
        <3>4. \A q \in Paths \ (Products \cup PathsOf(changes[r])) :
                  repo'[q] = before[r][q]
            BY <1>t, <3>1, <3>2, <3>3 DEF Intact, Active, Restoring
        <3> QED
            BY <1>t, <3>1, <3>3, <3>4
               DEF Intact, Active, Prepared, Restoring, PathsOf
    <2>4. \A s \in Runs \ {r} : Intact(s)'
        BY <1>10, <1>t, <1>i, <2>1, IntactFrame DEF WriteFile, Goto, TypeOK
    <2> QED BY <1>s, <2>2, <2>3, <2>4 DEF Recovery
<1>11. ASSUME NEW r \in Runs, NEW c \in pending[r], DeleteFile(r, c)
      PROVE  Recovery'
    <2>1. pc[r] \in Active
        BY <1>11 DEF DeleteFile, Active, Restoring
    <2>2. Serial'
        BY <1>11, <1>t, <1>i, <2>1 DEF DeleteFile, Goto, TypeOK, Serial
    <2>3. Intact(r)'
        <3>1. /\ c.path \in PathsOf(changes[r])
              /\ saved' = saved /\ before' = before /\ changes' = changes
            BY <1>11, <1>t DEF DeleteFile, Local, PathsOf
        <3>2. \A q \in Paths \ {c.path} : repo'[q] = repo[q]
            BY <1>11, <1>t DEF DeleteFile, TypeOK
        <3>3. /\ pc[r] \in {"applying", "writing"}
              /\ pc'[r] \in {"applying", "writing"}
            BY <1>11, <1>t DEF DeleteFile, Goto, TypeOK
        <3>4. \A q \in Paths \ (Products \cup PathsOf(changes[r])) :
                  repo'[q] = before[r][q]
            BY <1>t, <3>1, <3>2, <3>3 DEF Intact, Active, Restoring
        <3> QED
            BY <1>t, <3>1, <3>3, <3>4
               DEF Intact, Active, Prepared, Restoring, PathsOf
    <2>4. \A s \in Runs \ {r} : Intact(s)'
        BY <1>11, <1>t, <1>i, <2>1, IntactFrame DEF DeleteFile, Goto, TypeOK
    <2> QED BY <1>s, <2>2, <2>3, <2>4 DEF Recovery
<1>12. ASSUME NEW r \in Runs, ApplyFails(r)
      PROVE  Recovery'
    <2>1. pc[r] \in Active
        BY <1>12 DEF ApplyFails, Active, Restoring
    <2>2. Serial'
        BY <1>12, <1>t, <1>i, <2>1 DEF ApplyFails, Goto, BeginRestore, TypeOK, Serial
    <2>3. Intact(r)'
        BY <1>12, <1>t
           DEF ApplyFails, Goto, BeginRestore, TypeOK, Local, Intact, Active, Prepared,
               Restoring, PathsOf
    <2>4. \A s \in Runs \ {r} : Intact(s)'
        BY <1>12, <1>t, <1>i, <2>1, IntactFrame DEF ApplyFails, Goto, BeginRestore, TypeOK
    <2> QED BY <1>s, <2>2, <2>3, <2>4 DEF Recovery
<1>13. ASSUME NEW r \in Runs, Applied(r)
      PROVE  Recovery'
    <2>1. pc[r] \in Active
        BY <1>13 DEF Applied, Active, Restoring
    <2>2. Serial'
        BY <1>13, <1>t, <1>i, <2>1 DEF Applied, Goto, TypeOK, Serial
    <2>3. Intact(r)'
        <3>1. /\ pc[r] = "applying" /\ pc'[r] = "validating"
              /\ UNCHANGED <<repo, changes, saved, before>>
            BY <1>13, <1>t DEF Applied, Goto, TypeOK
        <3> QED
            BY <1>t, <3>1 DEF Intact, Active, Prepared, Restoring, PathsOf
    <2>4. \A s \in Runs \ {r} : Intact(s)'
        BY <1>13, <1>t, <1>i, <2>1, IntactFrame DEF Applied, Goto, TypeOK
    <2> QED BY <1>s, <2>2, <2>3, <2>4 DEF Recovery
<1>14. ASSUME NEW r \in Runs, ValidationPasses(r)
      PROVE  Recovery'
    <2>1. pc[r] \in Active
        BY <1>14 DEF ValidationPasses, Active, Restoring
    <2>2. Serial'
        BY <1>14, <1>t, <1>i, <2>1 DEF ValidationPasses, Goto, TypeOK, Serial
    <2>3. Intact(r)'
        BY <1>14, <1>t
           DEF ValidationPasses, Goto, TypeOK, Local, Intact, Active, Prepared,
               Restoring, PathsOf
    <2>4. \A s \in Runs \ {r} : Intact(s)'
        BY <1>14, <1>t, <1>i, <2>1, IntactFrame DEF ValidationPasses, Goto, TypeOK
    <2> QED BY <1>s, <2>2, <2>3, <2>4 DEF Recovery
<1>15. ASSUME NEW r \in Runs, ValidationFails(r)
      PROVE  Recovery'
    <2>1. pc[r] \in Active
        BY <1>15 DEF ValidationFails, Active, Restoring
    <2>2. Serial'
        BY <1>15, <1>t, <1>i, <2>1 DEF ValidationFails, Goto, BeginRestore, TypeOK, Serial
    <2>3. Intact(r)'
        BY SMTT(30), <1>15, <1>t
           DEF ValidationFails, Goto, BeginRestore, TypeOK, Local, Intact, Active, Prepared,
               Restoring, PathsOf
    <2>4. \A s \in Runs \ {r} : Intact(s)'
        BY <1>15, <1>t, <1>i, <2>1, IntactFrame DEF ValidationFails, Goto, BeginRestore, TypeOK
    <2> QED BY <1>s, <2>2, <2>3, <2>4 DEF Recovery
<1>16. ASSUME NEW r \in Runs, NEW p \in Paths, OpenCopy(r, p)
      PROVE  Recovery'
    <2>1. pc[r] \in Active
        BY <1>16 DEF OpenCopy, Active, Restoring
    <2>2. Serial'
        BY <1>16, <1>t, <1>i, <2>1 DEF OpenCopy, Goto, TypeOK, Serial
    <2>3. Intact(r)'
        <3>1. /\ p \in PathsOf(changes[r])
              /\ saved' = saved /\ before' = before /\ changes' = changes
            BY <1>16, <1>t DEF OpenCopy, Local, PathsOf
        <3>2. \A q \in Paths \ {p} : repo'[q] = repo[q]
            BY <1>16, <1>t DEF OpenCopy, TypeOK
        <3>3. pc' = pc /\ pc[r] \in Restoring
            BY <1>16 DEF OpenCopy
        <3>4. \A q \in PathsOf(changes[r]) \ files'[r] : repo'[q] = before[r][q]
            BY <1>16, <1>p, <1>u, <3>2, <3>3 DEF OpenCopy
        <3>5. open'[r].path = p /\ open'[r].content = saved[r][p]
            BY <1>16, <1>t DEF OpenCopy, TypeOK
        <3>7. pc[r] # "undo_done" =>
                  \A q \in Paths \ (Products \cup PathsOf(changes[r])) :
                  repo'[q] = before[r][q]
            BY <1>t, <3>1, <3>2, <3>3 DEF Intact, Active, Restoring
        <3> QED
            BY <1>t, <3>1, <3>3, <3>4, <3>5, <3>7
               DEF Intact, Active, Prepared, Restoring, PathsOf
    <2>4. \A s \in Runs \ {r} : Intact(s)'
        BY <1>16, <1>t, <1>i, <2>1, IntactFrame DEF OpenCopy, Goto, TypeOK
    <2> QED BY <1>s, <2>2, <2>3, <2>4 DEF Recovery
<1>17. ASSUME NEW r \in Runs, CloseCopy(r)
      PROVE  Recovery'
    <2>1. pc[r] \in Active
        BY <1>17 DEF CloseCopy, Active, Restoring
    <2>2. Serial'
        BY <1>17, <1>t, <1>i, <2>1 DEF CloseCopy, Goto, TypeOK, Serial
    <2>3. Intact(r)'
        <3>1. /\ open[r].path \in PathsOf(changes[r])
              /\ saved' = saved /\ before' = before /\ changes' = changes
            BY <1>17, <1>t DEF CloseCopy, Local, PathsOf
        <3>2. \A q \in Paths \ {open[r].path} : repo'[q] = repo[q]
            BY <1>17, <1>t DEF CloseCopy, TypeOK
        <3>3. pc' = pc /\ pc[r] \in Restoring
            BY <1>17 DEF CloseCopy
        <3>4. repo'[open[r].path] = before[r][open[r].path]
            BY <1>17, <1>t, <3>1, <3>3
               DEF CloseCopy, TypeOK, Intact, Prepared, PathsOf,
                   ProposedFileChange
        <3>5. files'[r] = files[r] \ {open[r].path} /\ open'[r] = NoFile
            BY <1>17, <1>t DEF CloseCopy, TypeOK
        <3>6. \A q \in PathsOf(changes[r]) \ files'[r] : repo'[q] = before[r][q]
            BY <1>p, <1>u, <3>2, <3>3, <3>4, <3>5
        <3>7. pc[r] # "undo_done" =>
                  \A q \in Paths \ (Products \cup PathsOf(changes[r])) :
                  repo'[q] = before[r][q]
            BY <1>t, <3>1, <3>2, <3>3 DEF Intact, Active, Restoring
        <3> QED
            BY <1>t, <3>1, <3>3, <3>5, <3>6, <3>7
               DEF Intact, Active, Prepared, Restoring, PathsOf
    <2>4. \A s \in Runs \ {r} : Intact(s)'
        BY <1>17, <1>t, <1>i, <2>1, IntactFrame DEF CloseCopy, Goto, TypeOK
    <2> QED BY <1>s, <2>2, <2>3, <2>4 DEF Recovery
<1>18. ASSUME NEW r \in Runs, NEW p \in Paths, RemoveFile(r, p)
      PROVE  Recovery'
    <2>1. pc[r] \in Active
        BY <1>18 DEF RemoveFile, Active, Restoring
    <2>2. Serial'
        BY <1>18, <1>t, <1>i, <2>1 DEF RemoveFile, Goto, TypeOK, Serial
    <2>3. Intact(r)'
        <3>1. /\ p \in PathsOf(changes[r])
              /\ saved' = saved /\ before' = before /\ changes' = changes
            BY <1>18, <1>t DEF RemoveFile, Local, PathsOf
        <3>2. \A q \in Paths \ {p} : repo'[q] = repo[q]
            BY <1>18, <1>t DEF RemoveFile, TypeOK
        <3>3. pc' = pc /\ pc[r] \in Restoring
            BY <1>18 DEF RemoveFile
        <3>4. repo'[p] = before[r][p]
            BY <1>18, <1>t, <3>1, <3>3
               DEF RemoveFile, TypeOK, Intact, Prepared
        <3>5. files'[r] = files[r] \ {p} /\ open'[r] = NoFile
            BY <1>18, <1>t DEF RemoveFile, TypeOK
        <3>6. \A q \in PathsOf(changes[r]) \ files'[r] : repo'[q] = before[r][q]
            BY <1>p, <1>u, <3>2, <3>3, <3>4, <3>5
        <3>7. pc[r] # "undo_done" =>
                  \A q \in Paths \ (Products \cup PathsOf(changes[r])) :
                  repo'[q] = before[r][q]
            BY <1>t, <3>1, <3>2, <3>3 DEF Intact, Active, Restoring
        <3> QED
            BY <1>t, <3>1, <3>3, <3>5, <3>6, <3>7
               DEF Intact, Active, Prepared, Restoring, PathsOf
    <2>4. \A s \in Runs \ {r} : Intact(s)'
        BY <1>18, <1>t, <1>i, <2>1, IntactFrame DEF RemoveFile, Goto, TypeOK
    <2> QED BY <1>s, <2>2, <2>3, <2>4 DEF Recovery
<1>19. ASSUME NEW r \in Runs, RestoreFails(r)
      PROVE  Recovery'
    <2>1. pc[r] \in Active
        BY <1>19 DEF RestoreFails, Active, Restoring
    <2>2. Serial'
        BY <1>19, <1>t, <1>i, <2>1 DEF RestoreFails, Goto, HalfRestored, TypeOK, Serial
    <2>3. Intact(r)'
        BY <1>19, <1>t
           DEF RestoreFails, Goto, HalfRestored, TypeOK, Local, Intact, Active, Prepared,
               Restoring, PathsOf
    <2>4. \A s \in Runs \ {r} : Intact(s)'
        BY <1>19, <1>t, <1>i, <2>1, IntactFrame DEF RestoreFails, Goto, HalfRestored, TypeOK
    <2> QED BY <1>s, <2>2, <2>3, <2>4 DEF Recovery
<1>20. ASSUME NEW r \in Runs, Restored(r)
      PROVE  Recovery'
    <2>1. pc[r] \in Active
        BY <1>20 DEF Restored, Active, Restoring
    <2>2. Serial'
        BY <1>20, <1>t, <1>i, <2>1 DEF Restored, Goto, TypeOK, Serial
    <2>3. Intact(r)'
        BY <1>20, <1>t
           DEF Restored, Goto, TypeOK, Local, Intact, Active, Prepared,
               Restoring, PathsOf
    <2>4. \A s \in Runs \ {r} : Intact(s)'
        BY <1>20, <1>t, <1>i, <2>1, IntactFrame DEF Restored, Goto, TypeOK
    <2> QED BY <1>s, <2>2, <2>3, <2>4 DEF Recovery
<1>21. CASE Crash
    <2>1. \A s \in Runs : pc'[s] \notin Active
        BY <1>21, <1>t DEF Crash, HalfRestored, Active, Restoring
    <2>2. \A s \in Runs : Intact(s)'
        BY <1>21, <1>t, <2>1
           DEF Crash, HalfRestored, TypeOK, Intact, Active, Restoring,
               Prepared, PathsOf
    <2> QED BY <1>s, <2>1, <2>2 DEF Recovery, Serial
<1>22. CASE UNCHANGED vars
    <2>1. \A s \in Runs : Intact(s)'
        BY <1>22, <1>t DEF vars, Intact, PathsOf
    <2> QED BY <1>22, <1>s, <1>t, <2>1 DEF vars, Recovery, Serial
<1>23. ASSUME NEW r \in Runs, NEW p \in Products, CommandWrites(r, p)
      PROVE  Recovery'
    <2>1. pc[r] \in Active /\ pc[r] = "validating"
        BY <1>23 DEF CommandWrites, Active
    <2>2. Serial'
        BY <1>23, <1>t DEF CommandWrites, Serial
    <2>3. Intact(r)'
        <3>1. /\ UNCHANGED <<pc, changes, saved, before>>
              /\ \A q \in Paths \ {p} : repo'[q] = repo[q]
            BY <1>23, <1>t DEF CommandWrites, TypeOK
        <3>2. \A q \in Paths \ (Products \cup PathsOf(changes[r])) :
                  repo'[q] = before[r][q]
            BY <1>t, <2>1, <3>1 DEF Intact, Active, Restoring
        <3> QED
            BY <1>t, <2>1, <3>1, <3>2
               DEF Intact, Active, Prepared, Restoring, PathsOf
    <2>4. \A s \in Runs \ {r} : Intact(s)'
        BY <1>23, <1>t, <1>i, <2>1, IntactFrame DEF CommandWrites
    <2> QED BY <1>s, <2>2, <2>3, <2>4 DEF Recovery
<1> QED
    BY <1>1, <1>2, <1>3, <1>4, <1>5, <1>6, <1>7, <1>8, <1>9, <1>10, <1>11, <1>12, <1>13, <1>14, <1>15, <1>16, <1>17, <1>18, <1>19, <1>20, <1>21, <1>22, <1>23 DEF Next, Step, Commands

LEMMA RecoveryHolds == ASSUME OneAtATime PROVE Spec => []Recovery
BY InitRecovery, NextRecovery, PTL DEF Spec

\* When the active run has put every file back, or touched none, what it
\* answers for is what the run found.
LEMMA NothingLeft ==
    ASSUME Recovery, NEW r \in Runs,
           pc[r] \in {"undo_apply", "undo_validation"} /\ files[r] = {}
    PROVE  \A p \in Guarded(r) : repo[p] = before[r][p]
<1>1. PathsOf(changes[r]) = PathsOf(plan[r])
    BY DEF Recovery, Separate, Local, Prepared, Restoring
<1> QED
    BY <1>1 DEF Recovery, Intact, Active, Restoring, Guarded

\* A run fails before it wrote anything, or by the end of a restore, which is
\* also how a rollback ends.
LEMMA HowRunsEnd ==
    ASSUME TypeOK, [Next]_vars, NEW r \in Runs, pc'[r] # pc[r],
           pc'[r] \in {"failed", "rolled_back"}
    PROVE  \/ Restored(r)
           \/ /\ pc[r] \in {"generating", "backing_up"} /\ pc'[r] = "failed"
              /\ repo' = repo
<1> USE DEF Goto, TypeOK
<1>1. PICK q \in Runs : Start(q) \/ Rollback(q) \/ Step(q)
    BY DEF Next, vars, Crash, HalfRestored, Commands, CommandWrites
<1>2. CASE Start(q) \/ Rollback(q)
    BY <1>2 DEF Start, Rollback, BeginRestore
<1>3. CASE GenerateFails(q) \/ BackupFails(q) \/ WriteManifest(q)
           \/ \E p \in Paths : CaptureFile(q, p)
    BY <1>3 DEF GenerateFails, BackupFails, WriteManifest, CaptureFile
<1>4. CASE \E proposed \in Proposals :
               Generate(q, proposed) \/ RejectChanges(q, proposed)
    BY <1>4 DEF Generate, RejectChanges
<1>5. CASE WriteFile(q) \/ \E c \in pending[q] : OpenFile(q, c) \/ DeleteFile(q, c)
    BY <1>5 DEF WriteFile, OpenFile, DeleteFile
<1>6. CASE ApplyFails(q) \/ Applied(q) \/ ValidationPasses(q) \/ ValidationFails(q)
    BY <1>6 DEF ApplyFails, Applied, ValidationPasses, ValidationFails, BeginRestore
<1>7. CASE CloseCopy(q) \/ \E p \in Paths : OpenCopy(q, p) \/ RemoveFile(q, p)
    BY <1>7 DEF CloseCopy, OpenCopy, RemoveFile
<1>8. CASE RestoreFails(q)
    BY <1>8 DEF RestoreFails, HalfRestored
<1>9. CASE Restored(q)
    <2>1. q = r
        BY <1>9 DEF Restored
    <2> QED
        BY <1>9, <2>1
<1> QED
    BY <1>1, <1>2, <1>3, <1>4, <1>5, <1>6, <1>7, <1>8, <1>9 DEF Step

LEMMA NextRestores ==
    Recovery /\ [Next]_vars =>
        \A r \in Runs : pc[r] # "failed" /\ pc'[r] = "failed" =>
            \A p \in Guarded(r) : repo'[p] = before[r][p]
<1> SUFFICES ASSUME Recovery, [Next]_vars, NEW r \in Runs,
                    pc[r] # "failed", pc'[r] = "failed"
             PROVE  \A p \in Guarded(r) : repo'[p] = before[r][p]
    OBVIOUS
<1>1. TypeOK /\ Intact(r)
    BY DEF Recovery, Separate
<1>2. CASE Restored(r)
    <2>1. /\ repo' = repo /\ files[r] = {}
          /\ pc[r] \in {"undo_apply", "undo_validation"}
        BY <1>1, <1>2 DEF Restored, Restoring, Goto, TypeOK
    <2> QED
        BY <2>1, NothingLeft
<1>3. CASE pc[r] \in {"generating", "backing_up"} /\ repo' = repo
    BY <1>1, <1>3 DEF Intact
<1> QED
    BY <1>1, <1>2, <1>3, HowRunsEnd

\* A failed run leaves the repository as it found it, whichever write,
\* unlink or validation command failed, but for what its commands made at
\* other paths.
THEOREM FailedRunsRestore ==
    ASSUME OneAtATime PROVE Spec => FailureRestores
BY RecoveryHolds, NextRestores, PTL DEF Spec, FailureRestores

LEMMA NextUndoes ==
    Recovery /\ [Next]_vars =>
        \A r \in Runs : pc[r] = "undo_done" /\ pc'[r] = "rolled_back" =>
            \A p \in PathsOf(plan[r]) : repo'[p] = before[r][p]
<1> SUFFICES ASSUME Recovery, [Next]_vars, NEW r \in Runs,
                    pc[r] = "undo_done", pc'[r] = "rolled_back"
             PROVE  \A p \in PathsOf(plan[r]) : repo'[p] = before[r][p]
    OBVIOUS
<1>1. TypeOK /\ Intact(r) /\ Local(r)
    BY DEF Recovery, Separate
<1>2. Restored(r)
    BY <1>1, HowRunsEnd
<1>3. repo' = repo /\ files[r] = {}
    BY <1>2 DEF Restored
<1> QED
    BY <1>1, <1>3 DEF Intact, Local, Restoring, Prepared

\* A rollback that ends has undone the task, also when it is the second
\* attempt after one that broke off.
THEOREM RollbacksRestore ==
    ASSUME OneAtATime PROVE Spec => RollbackRestores
BY RecoveryHolds, NextUndoes, PTL DEF Spec, RollbackRestores

LEMMA RecoveryIsRecoverable == Recovery => AlwaysRecoverable
<1> SUFFICES ASSUME Recovery, NEW r \in Runs, pc[r] \in Active \ {"undo_done"}
             PROVE  IF manifest[r]
                      THEN \A p \in Guarded(r) :
                               before[r][p] = IF p \in PathsOf(changes[r])
                                                THEN saved[r][p] ELSE repo[p]
                      ELSE repo = before[r]
    BY DEF AlwaysRecoverable
<1>1. Local(r) /\ Intact(r)
    BY DEF Recovery, Separate
<1>2. CASE pc[r] \in {"generating", "backing_up"}
    BY <1>1, <1>2 DEF Local, Intact
<1>3. CASE pc[r] \in Prepared
    <2>1. PathsOf(changes[r]) = PathsOf(plan[r])
        BY <1>1, <1>3 DEF Local
    <2>2. \A p \in Guarded(r) : before[r][p] = IF p \in PathsOf(changes[r])
                                                 THEN saved[r][p] ELSE repo[p]
        BY <1>1, <1>3, <2>1 DEF Intact, Active, Prepared, Restoring, Guarded
    <2> QED
        BY <1>1, <1>3, <2>2 DEF Local
<1> QED
    BY <1>2, <1>3 DEF Active, Prepared, Restoring

\* A crash can be repaired from the backup at every moment of a run.
THEOREM CrashesAreRecoverable ==
    ASSUME OneAtATime PROVE Spec => []AlwaysRecoverable
BY RecoveryHolds, RecoveryIsRecoverable, PTL

\* When runs do not overlap, a run that fails and a rollback that ends have both
\* given the repository back.
THEOREM FailuresAreUndone ==
    ASSUME OneAtATime PROVE Spec => FailureUndone
BY FailedRunsRestore, RollbacksRestore, PTL DEF FailureUndone

----------------------------------------------------------------------------
(* What a run that goes well makes of the repository.                      *)

\* What a change puts at its path.
Value(c) == IF Normalise(c.operation) = "delete" THEN Absent ELSE c.content

\* The change set of run r has v as a result for path p.
Makes(r, p, v) == \E c \in changes[r] : c.path = p /\ v = Value(c)

\* A path whose change was taken from the list holds what a change made of
\* it, unless it is the file that is being written, which is going to, or one
\* that a command may have written.
Progress(r) ==
    /\ pc[r] = "writing" => Makes(r, open[r].path, open[r].content)
    /\ pc[r] \in {"applying", "writing", "validating"} =>
           \A c \in changes[r] \ pending[r] :
               \/ Makes(r, c.path, repo[c.path])
               \/ pc[r] = "writing" /\ open[r].path = c.path
               \/ c.path \in Products

\* The repository f has the work of the done runs: a path that done runs
\* changed and no command writes is as one of them left it.
HasWork(f) ==
    \A p \in Paths \ Products :
        (\E r \in Runs : pc[r] = "done" /\ p \in PathsOf(changes[r])) =>
            \E r \in Runs : pc[r] = "done" /\ Makes(r, p, f[p])

\* No run was rolled back or damaged so far; it would stay so for ever.
Undisturbed ==
    \A r \in Runs : pc[r] \in {"new", "done", "failed"} \cup (Active \ {"undo_done"})

\* The done runs' work is in the repository when no run is active, and in what
\* the active run found and may have to put back.
Kept ==
    Undisturbed => /\ Idle => HasWork(repo)
                   /\ \A r \in Runs : pc[r] \in Active => HasWork(before[r])

Advance == Recovery /\ (\A r \in Runs : Progress(r)) /\ Kept

LEMMA InitAdvance == Init => Advance
<1> SUFFICES ASSUME Init PROVE Advance
    OBVIOUS
<1>1. \A r \in Runs : pc[r] = "new" /\ changes[r] = {}
    BY DEF Init
<1>2. \A r \in Runs : Progress(r)
    BY <1>1 DEF Progress
<1>3. Kept
    BY <1>1 DEF Kept, HasWork, Active, Restoring
<1> QED
    BY <1>2, <1>3, InitRecovery DEF Advance

\* A run in one of its steps is active, and leaves the other runs alone.
LEMMA StepShape ==
    ASSUME TypeOK, NEW r \in Runs, Step(r)
    PROVE  /\ pc[r] \in Active /\ before' = before
           /\ \A s \in Runs \ {r} : pc'[s] = pc[s] /\ changes'[s] = changes[s]
           /\ pc'[r] \in (Active \ {"undo_done"}) \cup {"failed", "done"}
                  => pc[r] # "undo_done"
           /\ pc'[r] = "done" => ValidationPasses(r)
           /\ pc'[r] # "new"
<1> USE DEF Goto, TypeOK, Active, Restoring
<1>1. CASE GenerateFails(r) \/ BackupFails(r) \/ WriteManifest(r)
           \/ \E p \in Paths : CaptureFile(r, p)
    BY <1>1 DEF GenerateFails, BackupFails, WriteManifest, CaptureFile
<1>2. CASE \E proposed \in Proposals :
               Generate(r, proposed) \/ RejectChanges(r, proposed)
    BY <1>2 DEF Generate, RejectChanges
<1>3. CASE WriteFile(r) \/ \E c \in pending[r] : OpenFile(r, c) \/ DeleteFile(r, c)
    BY <1>3 DEF WriteFile, OpenFile, DeleteFile
<1>4. CASE ApplyFails(r) \/ Applied(r) \/ ValidationFails(r)
    BY <1>4 DEF ApplyFails, Applied, ValidationFails, BeginRestore
<1>5. CASE ValidationPasses(r)
    BY <1>5 DEF ValidationPasses
<1>6. CASE CloseCopy(r) \/ \E p \in Paths : OpenCopy(r, p) \/ RemoveFile(r, p)
    BY <1>6 DEF CloseCopy, OpenCopy, RemoveFile
<1>7. CASE RestoreFails(r) \/ Restored(r)
    BY <1>7 DEF RestoreFails, Restored, HalfRestored
<1> QED
    BY <1>1, <1>2, <1>3, <1>4, <1>5, <1>6, <1>7 DEF Step

\* Only these steps leave a run where Progress says something of it.
LEMMA ProgressFrame ==
    ASSUME NEW s \in Runs,
           pc'[s] \notin {"applying", "writing", "validating"}
    PROVE  Progress(s)'
BY DEF Progress

LEMMA StepProgress ==
    ASSUME Recovery, NEW r \in Runs, Progress(r), Step(r)
    PROVE  Progress(r)'
<1>t. TypeOK /\ Local(r)
    BY DEF Recovery, Separate
<1>p. \A c \in changes[r] : c.path \in Paths
    BY <1>t DEF TypeOK, ProposedFileChange
<1>1. CASE WriteManifest(r)
    BY <1>t, <1>1 DEF WriteManifest, Goto, TypeOK, Progress
<1>2. ASSUME NEW c \in pending[r], OpenFile(r, c) PROVE Progress(r)'
    <2>1. /\ pc[r] = "applying" /\ pc'[r] = "writing"
          /\ changes' = changes /\ pending'[r] = pending[r] \ {c}
          /\ open'[r] = [path |-> c.path, content |-> c.content]
          /\ \A p \in Paths \ {c.path} : repo'[p] = repo[p]
        BY <1>t, <1>2 DEF OpenFile, Goto, TypeOK
    <2>2. c \in changes[r] /\ Value(c) = c.content
        BY <1>t, <1>2 DEF Local, OpenFile, Value
    <2>3. Makes(r, open[r].path, open[r].content)'
        BY <2>1, <2>2 DEF Makes
    <2>4. ASSUME NEW d \in changes[r] \ pending'[r], d.path # c.path,
                 d.path \notin Products
          PROVE  Makes(r, d.path, repo[d.path])'
        <3>1. d \in changes[r] \ pending[r] /\ repo'[d.path] = repo[d.path]
            BY <1>p, <2>1, <2>4
        <3>2. Makes(r, d.path, repo[d.path])
            BY <2>1, <2>4, <3>1 DEF Progress
        <3> QED
            BY <2>1, <3>1, <3>2 DEF Makes
    <2> QED
        BY <2>1, <2>3, <2>4 DEF Progress
<1>3. CASE WriteFile(r)
    <2>1. /\ pc[r] = "writing" /\ pc'[r] = "applying"
          /\ changes' = changes /\ pending' = pending
          /\ \A p \in Paths : repo'[p] = IF p = open[r].path
                                           THEN open[r].content ELSE repo[p]
        BY <1>t, <1>3 DEF WriteFile, Goto, TypeOK
    <2>2. Makes(r, open[r].path, open[r].content)
        BY <2>1 DEF Progress
    <2>3. ASSUME NEW d \in changes[r] \ pending[r], d.path \notin Products
          PROVE  Makes(r, d.path, repo[d.path])'
        <3>1. Makes(r, d.path, repo'[d.path])
            BY <1>p, <2>1, <2>2, <2>3 DEF Progress
        <3> QED
            BY <2>1, <3>1 DEF Makes
    <2> QED
        BY <2>1, <2>3 DEF Progress
<1>4. ASSUME NEW c \in pending[r], DeleteFile(r, c) PROVE Progress(r)'
    <2>1. /\ pc[r] = "applying" /\ pc'[r] = "applying"
          /\ changes' = changes /\ pending'[r] = pending[r] \ {c}
          /\ \A p \in Paths : repo'[p] = IF p = c.path THEN Absent ELSE repo[p]
        BY <1>t, <1>4 DEF DeleteFile, TypeOK
    <2>2. c \in changes[r] /\ Value(c) = Absent
        BY <1>t, <1>4 DEF Local, DeleteFile, Value
    <2>3. ASSUME NEW d \in changes[r] \ pending'[r], d.path \notin Products
          PROVE  Makes(r, d.path, repo[d.path])'
        <3>1. CASE d.path = c.path
            BY <1>p, <2>1, <2>2, <3>1 DEF Makes
        <3>2. CASE d.path # c.path
            <4>1. d \in changes[r] \ pending[r] /\ repo'[d.path] = repo[d.path]
                BY <1>p, <2>1, <2>3, <3>2
            <4>2. Makes(r, d.path, repo[d.path])
                BY <2>1, <2>3, <4>1 DEF Progress
            <4> QED
                BY <2>1, <4>1, <4>2 DEF Makes
        <3> QED
            BY <3>1, <3>2
    <2> QED
        BY <2>1, <2>3 DEF Progress
<1>5. CASE Applied(r)
    <2>1. /\ pc[r] = "applying" /\ pc'[r] = "validating"
          /\ UNCHANGED <<repo, changes, pending>>
        BY <1>t, <1>5 DEF Applied, Goto, TypeOK
    <2> QED
        BY <2>1 DEF Progress, Makes
<1>6. CASE GenerateFails(r) \/ BackupFails(r) \/ \E p \in Paths : CaptureFile(r, p)
    BY <1>t, <1>6, ProgressFrame
       DEF GenerateFails, BackupFails, CaptureFile, Goto, TypeOK
<1>7. CASE \E proposed \in Proposals :
               Generate(r, proposed) \/ RejectChanges(r, proposed)
    BY <1>t, <1>7, ProgressFrame DEF Generate, RejectChanges, Goto, TypeOK
<1>8. CASE ApplyFails(r) \/ ValidationPasses(r) \/ ValidationFails(r)
    BY <1>t, <1>8, ProgressFrame
       DEF ApplyFails, ValidationPasses, ValidationFails, BeginRestore, Goto, TypeOK
<1>9. CASE CloseCopy(r) \/ \E p \in Paths : OpenCopy(r, p) \/ RemoveFile(r, p)
    BY <1>t, <1>9, ProgressFrame
       DEF CloseCopy, OpenCopy, RemoveFile, Restoring, TypeOK
<1>10. CASE RestoreFails(r) \/ Restored(r)
    BY <1>t, <1>10, ProgressFrame
       DEF RestoreFails, Restored, HalfRestored, Goto, TypeOK
<1> QED
    BY <1>1, <1>2, <1>3, <1>4, <1>5, <1>6, <1>7, <1>8, <1>9, <1>10 DEF Step

\* Neither the start of a run or of a rollback nor a crash leaves a run where
\* Progress says something, and a run stays where it is when another one steps.
LEMMA NextProgress ==
    ASSUME Recovery, \A r \in Runs : Progress(r), [Next]_vars, NEW s \in Runs
    PROVE  Progress(s)'
<1>t. TypeOK /\ Serial
    BY DEF Recovery, Separate
<1>1. ASSUME NEW r \in Runs, Step(r) PROVE Progress(s)'
    <2>1. CASE r = s
        BY <1>1, <2>1, StepProgress
    <2>2. CASE r # s
        <3>1. pc[s] \notin Active /\ pc'[s] = pc[s]
            BY <1>t, <1>1, <2>2, StepShape DEF Serial
        <3> QED
            BY <3>1, ProgressFrame DEF Active
    <2> QED
        BY <2>1, <2>2
<1>2. ASSUME NEW r \in Runs, Start(r) \/ Rollback(r) PROVE Progress(s)'
    <2>1. /\ pc'[s] # pc[s] => pc'[s] \in {"generating", "undo_done"}
          /\ UNCHANGED <<repo, changes>>
          /\ pc'[s] = pc[s] => pending'[s] = pending[s] /\ open'[s] = open[s]
        BY <1>t, <1>2 DEF Start, Rollback, BeginRestore, Goto, TypeOK
    <2> QED
        BY <2>1 DEF Progress, Makes
<1>3. CASE Crash
    <2>1. pc'[s] \notin {"applying", "writing", "validating"}
        BY <1>t, <1>3 DEF Crash, HalfRestored, Active
    <2> QED
        BY <2>1, ProgressFrame
<1>4. CASE UNCHANGED vars
    BY <1>4 DEF vars, Progress, Makes
<1>5. ASSUME NEW r \in Runs, NEW q \in Products, CommandWrites(r, q)
      PROVE  Progress(s)'
    <2>1. /\ pc[r] = "validating" /\ UNCHANGED <<pc, changes, pending, open>>
          /\ \A p \in Paths \ Products : repo'[p] = repo[p]
        BY <1>t, <1>5 DEF CommandWrites, TypeOK
    <2>2. pc[s] # "writing" /\ \A c \in changes[s] : c.path \in Paths
        BY <1>t, <2>1 DEF Serial, Active, TypeOK, ProposedFileChange
    <2> QED
        BY <2>1, <2>2 DEF Progress, Makes
<1> QED
    BY <1>1, <1>2, <1>3, <1>4, <1>5 DEF Next, Commands

\* A run that ends as done did all it had to, and nothing else, where its
\* commands did not write.
LEMMA DoneIsWritten ==
    ASSUME Recovery, NEW r \in Runs, Progress(r), pc[r] = "validating"
    PROVE  /\ \A p \in PathsOf(changes[r]) \ Products : Makes(r, p, repo[p])
           /\ \A p \in Paths \ (Products \cup PathsOf(changes[r])) :
                  repo[p] = before[r][p]
<1>1. Local(r) /\ Intact(r)
    BY DEF Recovery, Separate
<1>2. pending[r] = {}
    BY <1>1 DEF Local
<1>3. \A c \in changes[r] : c.path \in Products \/ Makes(r, c.path, repo[c.path])
    BY <1>2 DEF Progress
<1> QED
    BY <1>1, <1>3 DEF PathsOf, Intact, Active, Restoring

\* A step that neither ends a run as done nor changes what one has to do
\* leaves its work where it is.
LEMMA HasWorkFrame ==
    ASSUME NEW f, NEW g, HasWork(f), \A p \in Paths \ Products : g[p] = f[p],
           \A s \in Runs : pc'[s] = "done" <=> pc[s] = "done",
           \A s \in Runs : pc[s] = "done" => changes'[s] = changes[s]
    PROVE  \A p \in Paths \ Products :
               (\E r \in Runs : pc'[r] = "done" /\ p \in PathsOf(changes'[r])) =>
                   \E r \in Runs : /\ pc'[r] = "done"
                                   /\ \E c \in changes'[r] :
                                          c.path = p /\ g[p] = Value(c)
BY DEF HasWork, Makes, PathsOf

LEMMA NextKept ==
    ASSUME OneAtATime, Recovery, \A r \in Runs : Progress(r), Kept, [Next]_vars
    PROVE  Kept'
<1> SUFFICES ASSUME Undisturbed'
             PROVE  /\ Idle' => HasWork(repo)'
                    /\ \A r \in Runs : pc'[r] \in Active => HasWork(before[r])'
    BY DEF Kept
<1>t. TypeOK /\ Serial /\ \A s \in Runs : Local(s)
    BY DEF Recovery, Separate
<1>1. ASSUME NEW r \in Runs, Start(r) PROVE Kept'
    <2>1. /\ Idle /\ pc[r] = "new" /\ pc'[r] = "generating"
          /\ \A s \in Runs \ {r} : pc'[s] = pc[s]
          /\ before'[r] = repo
          /\ changes' = changes
        BY <1>t, <1>1 DEF Start, Goto, TypeOK
    <2>2. Undisturbed /\ HasWork(repo)
        BY <2>1 DEF Undisturbed, Kept
    <2>3. HasWork(before[r])'
        BY <2>1, <2>2, HasWorkFrame DEF HasWork, Makes
    <2>4. ~Idle' /\ \A s \in Runs : pc'[s] \in Active => s = r
        BY <2>1 DEF Idle, Active
    <2> QED
        BY <2>3, <2>4 DEF Kept
<1>2. ASSUME NEW r \in Runs, Rollback(r) PROVE FALSE
    BY <1>t, <1>2 DEF Rollback, BeginRestore, Goto, TypeOK, Undisturbed, Active
<1>3. ASSUME Crash PROVE FALSE
    <2>1. PICK r \in Runs : pc[r] \in Active
        BY <1>3 DEF Crash, Idle
    <2>2. pc'[r] \in {"half_undone", "damaged"}
        BY <1>3, <2>1 DEF Crash, HalfRestored
    <2> QED
        BY <2>2 DEF Undisturbed, Active, Restoring
<1>4. ASSUME NEW r \in Runs, Step(r) PROVE Kept'
    <2>1. /\ pc[r] \in Active /\ before' = before
          /\ \A s \in Runs \ {r} : pc'[s] = pc[s] /\ changes'[s] = changes[s]
          /\ pc'[r] \in (Active \ {"undo_done"}) \cup {"failed", "done"}
                 => pc[r] # "undo_done"
          /\ pc'[r] = "done" => ValidationPasses(r)
          /\ pc'[r] # "new"
        BY <1>t, <1>4, StepShape
    <2>2. \A s \in Runs \ {r} : pc[s] \notin Active
        BY <1>t, <2>1 DEF Serial
    <2>3. pc[r] # "undo_done" /\ pc'[r] \in Active \cup {"failed", "done"}
        BY <2>1 DEF Undisturbed
    <2>4. Undisturbed /\ HasWork(before[r])
        <3>1. Undisturbed
            BY <2>1, <2>3 DEF Undisturbed
        <3> QED
            BY <2>1, <3>1 DEF Kept
    <2>5. CASE pc'[r] \in Active
        <3>1. HasWork(before[r])'
            BY <2>1, <2>4, <2>5, HasWorkFrame
               DEF HasWork, Makes, Active, Restoring
        <3> QED
            BY <2>1, <2>2, <2>5, <3>1 DEF Kept, Idle
    <2>6. CASE pc'[r] = "failed"
        <3>1. \A p \in Paths \ Products : repo'[p] = before[r][p]
            BY <2>1, <2>6, NextRestores DEF Active, Restoring, Guarded
        <3>2. HasWork(repo)'
            BY <2>1, <2>4, <2>6, <3>1, HasWorkFrame
               DEF HasWork, Makes, Active, Restoring
        <3>3. \A s \in Runs : pc'[s] \notin Active
            BY <2>1, <2>2, <2>6 DEF Active, Restoring
        <3> QED
            BY <3>2, <3>3 DEF Kept
    <2>7. CASE pc'[r] = "done"
        <3>1. pc[r] = "validating" /\ repo' = repo /\ changes' = changes
            BY <2>1, <2>7 DEF ValidationPasses
        <3>2. /\ \A p \in PathsOf(changes[r]) \ Products : Makes(r, p, repo[p])
              /\ \A p \in Paths \ (Products \cup PathsOf(changes[r])) :
                     repo[p] = before[r][p]
            BY <3>1, DoneIsWritten
        <3>3. ASSUME NEW p \in Paths \ Products, NEW s \in Runs,
                     pc'[s] = "done", p \in PathsOf(changes'[s])
              PROVE  \E q \in Runs : pc'[q] = "done" /\ Makes(q, p, repo[p])'
            <4>1. CASE p \in PathsOf(changes[r])
                BY <2>7, <3>1, <3>2, <4>1 DEF Makes
            <4>2. CASE p \notin PathsOf(changes[r])
                <5>1. s # r /\ pc[s] = "done" /\ p \in PathsOf(changes[s])
                    BY <2>1, <3>1, <3>3, <4>2
                <5>2. PICK q \in Runs : pc[q] = "done" /\ Makes(q, p, before[r][p])
                    BY <2>4, <5>1 DEF HasWork
                <5>3. pc'[q] = "done" /\ repo'[p] = before[r][p]
                    BY <2>1, <3>1, <3>2, <4>2, <5>2
                <5> QED
                    BY <3>1, <5>2, <5>3 DEF Makes
            <4> QED
                BY <4>1, <4>2
        <3>4. HasWork(repo)'
            BY <3>3 DEF HasWork, PathsOf
        <3>5. \A s \in Runs : pc'[s] \notin Active
            BY <2>1, <2>2, <2>7 DEF Active, Restoring
        <3> QED
            BY <3>4, <3>5 DEF Kept
    <2> QED
        BY <2>3, <2>5, <2>6, <2>7
<1>5. CASE UNCHANGED vars
    BY <1>5 DEF vars, Kept, Undisturbed, Idle, HasWork, Makes, PathsOf
<1>6. ASSUME NEW r \in Runs, NEW q \in Products, CommandWrites(r, q) PROVE Kept'
    <2>1. ~Idle /\ UNCHANGED <<pc, changes, before>>
        BY <1>6 DEF CommandWrites, Idle, Active
    <2> QED
        BY <2>1 DEF Kept, Undisturbed, Idle, HasWork, Makes, PathsOf
<1> QED
    BY <1>1, <1>2, <1>3, <1>4, <1>5, <1>6 DEF Next, Commands, Kept

LEMMA NextAdvance ==
    ASSUME OneAtATime
    PROVE  Advance /\ [Next]_vars => Advance'
BY NextRecovery, NextProgress, NextKept DEF Advance

LEMMA AdvanceHolds == ASSUME OneAtATime PROVE Spec => []Advance
BY InitAdvance, NextAdvance, PTL DEF Spec

\* A change set makes of a path what one of its changes says, and of a path it
\* does not name what was there.
LEMMA ResultsAreValues ==
    ASSUME NEW r \in Runs, NEW p, NEW old
    PROVE  /\ \A v : Makes(r, p, v) => v \in Results(r, p, old)
           /\ p \notin PathsOf(changes[r]) => Results(r, p, old) = {old}
BY DEF Results, Makes, PathsOf, Value

LEMMA AdvanceKeepsCompleted == Advance => CompletedChangesStay
<1> SUFFICES ASSUME Advance, \A r \in Runs : pc[r] \in {"new", "done", "failed"},
                    NEW p \in Paths \ Products, NEW s \in Runs,
                    pc[s] = "done", p \in PathsOf(changes[s])
             PROVE  \E r \in Runs : /\ pc[r] = "done" /\ p \in PathsOf(changes[r])
                                    /\ repo[p] \in Results(r, p, repo[p])
    BY DEF CompletedChangesStay
<1>1. Undisturbed /\ Idle
    BY DEF Undisturbed, Idle, Active, Restoring
<1>2. PICK r \in Runs : pc[r] = "done" /\ Makes(r, p, repo[p])
    BY <1>1 DEF Advance, Kept, HasWork
<1>3. p \in PathsOf(changes[r])
    BY <1>2 DEF Makes, PathsOf
<1> QED
    BY <1>2, <1>3, ResultsAreValues

\* When every run so far is done or failed, a path that done runs changed, and no
\* command writes, is as one of them left it, for any number of runs: putting a failed run's backup
\* back takes nothing from a run that completed.
THEOREM CompletedWorkStays ==
    ASSUME OneAtATime PROVE Spec => []CompletedChangesStay
BY AdvanceHolds, AdvanceKeepsCompleted, PTL

LEMMA NextCompletes ==
    ASSUME Advance, [Next]_vars, NEW r \in Runs,
           pc[r] = "validating", pc'[r] = "done"
    PROVE  /\ PathsOf(changes[r]) = PathsOf(plan[r])
           /\ \A p \in Paths \ Products :
                  repo'[p] \in Results(r, p, before[r][p])
<1>t. Recovery /\ TypeOK /\ Local(r) /\ Progress(r)
    BY DEF Advance, Recovery, Separate
<1>1. repo' = repo
    <2>1. PICK q \in Runs : Start(q) \/ Rollback(q) \/ Step(q)
        BY DEF Next, vars, Crash, HalfRestored, Commands, CommandWrites
    <2>2. q = r
        BY <1>t, <2>1, StepShape
           DEF Start, Rollback, BeginRestore, Goto, TypeOK
    <2>3. ValidationPasses(r)
        BY <1>t, <2>1, <2>2, StepShape DEF Start, Rollback
    <2> QED
        BY <2>3 DEF ValidationPasses
<1>2. PathsOf(changes[r]) = PathsOf(plan[r])
    BY <1>t DEF Local, Prepared
<1>3. ASSUME NEW p \in Paths \ Products PROVE repo[p] \in Results(r, p, before[r][p])
    <2>1. CASE p \in PathsOf(changes[r])
        BY <1>t, <2>1, DoneIsWritten, ResultsAreValues
    <2>2. CASE p \notin PathsOf(changes[r])
        BY <1>t, <2>2, DoneIsWritten, ResultsAreValues
    <2> QED
        BY <2>1, <2>2
<1> QED
    BY <1>1, <1>2, <1>3

\* A run that ends as done has written every planned path as the generator
\* proposed and no other path, but where its commands wrote, however many
\* writes, backups and other runs came before.
THEOREM DoneRunsAreComplete ==
    ASSUME OneAtATime PROVE Spec => DoneIsComplete
<1>1. Advance /\ [Next]_vars =>
          \A r \in Runs : pc[r] = "validating" /\ pc'[r] = "done" =>
              /\ PathsOf(changes[r]) = PathsOf(plan[r])
              /\ \A p \in Paths \ Products :
                     repo'[p] \in Results(r, p, before[r][p])
    BY NextCompletes
<1> QED
    BY <1>1, AdvanceHolds, PTL DEF Spec, DoneIsComplete


\* What an active run may have left where: outside its plan, and what its
\* commands make, the repository is what it was when the run, or its rollback,
\* began.
Framed(r) ==
    /\ pc[r] \in Active =>
           \A p \in Paths \ PathsOf(plan[r]) :
               \/ p \in Products /\ pc[r] # "undo_done"
               \/ repo[p] = base[p]
    /\ pc[r] \in Active \ {"undo_done"} => base = before[r]

\* A path of the plan that is neither still to be changed nor open has its new
\* content, or none.
Whole == Contents \cup {Absent}
Written(r) ==
    /\ pc[r] = "validating" => pending[r] = {}
    /\ (pc[r] = "writing" /\ open[r] # NoFile) => open[r].content \in Contents
    /\ pc[r] \in {"applying", "writing", "validating"} =>
           \A p \in PathsOf(plan[r]) \ Products :
               \/ repo[p] \in Whole
               \/ p \in PathsOf(pending[r])
               \/ pc[r] = "writing" /\ p = open[r].path

Refined == Recovery /\ \A r \in Runs : Framed(r) /\ Written(r)

LEMMA InitRefined == Init => Refined
BY InitRecovery DEF Init, Refined, Framed, Written, Active, Restoring

----------------------------------------------------------------------------
(* Refined is an invariant.                                                *)

\* A run is active after a step because it was before, on the same plan and in
\* the same repository, or because it or its rollback began.
LEMMA ActiveBefore ==
    ASSUME TypeOK, [Next]_vars, NEW r \in Runs, pc'[r] \in Active
    PROVE  \/ /\ pc[r] \in Active
              /\ pc[r] = "undo_done" <=> pc'[r] = "undo_done"
              /\ plan'[r] = plan[r] /\ before'[r] = before[r]
              /\ base' = base \/ \E q \in Runs \ {r} : Start(q) \/ Rollback(q)
           \/ Start(r) \/ Rollback(r)
<1> USE DEF TypeOK, Goto, Active, Restoring
<1>1. CASE UNCHANGED vars
    BY <1>1 DEF vars
<1>2. CASE Crash
    BY <1>2 DEF Crash, HalfRestored
<1>3. ASSUME NEW q \in Runs, Start(q) \/ Rollback(q)
      PROVE  \/ /\ pc[r] \in Active
                /\ pc[r] = "undo_done" <=> pc'[r] = "undo_done"
                /\ plan'[r] = plan[r] /\ before'[r] = before[r]
                /\ q # r
             \/ q = r
    BY <1>3 DEF Start, Rollback, BeginRestore
<1>4. ASSUME NEW q \in Runs, Step(q)
      PROVE  /\ pc[r] \in Active
             /\ pc[r] = "undo_done" <=> pc'[r] = "undo_done"
             /\ plan' = plan /\ before' = before /\ base' = base
    <2>1. CASE GenerateFails(q) \/ BackupFails(q) \/ WriteManifest(q)
               \/ \E p \in Paths : CaptureFile(q, p)
        BY <1>4, <2>1 DEF GenerateFails, BackupFails, WriteManifest, CaptureFile
    <2>2. CASE \E proposed \in Proposals :
                   Generate(q, proposed) \/ RejectChanges(q, proposed)
        BY <1>4, <2>2 DEF Generate, RejectChanges
    <2>3. CASE WriteFile(q) \/ \E c \in pending[q] : OpenFile(q, c) \/ DeleteFile(q, c)
        BY <1>4, <2>3 DEF WriteFile, OpenFile, DeleteFile
    <2>4. CASE ApplyFails(q) \/ Applied(q) \/ ValidationPasses(q) \/ ValidationFails(q)
        BY <1>4, <2>4 DEF ApplyFails, Applied, ValidationPasses, ValidationFails, BeginRestore
    <2>5. CASE CloseCopy(q) \/ \E p \in Paths : OpenCopy(q, p) \/ RemoveFile(q, p)
        BY <1>4, <2>5 DEF CloseCopy, OpenCopy, RemoveFile
    <2>6. CASE RestoreFails(q) \/ Restored(q)
        BY <1>4, <2>6 DEF RestoreFails, Restored, HalfRestored
    <2> QED
        BY <1>4, <2>1, <2>2, <2>3, <2>4, <2>5, <2>6 DEF Step
<1>5. ASSUME NEW q \in Runs, Commands(q)
      PROVE  /\ pc' = pc /\ plan' = plan /\ before' = before /\ base' = base
    BY <1>5 DEF Commands, CommandWrites
<1> QED
    BY <1>1, <1>2, <1>3, <1>4, <1>5 DEF Next

LEMMA NextFramed ==
    ASSUME OneAtATime, Recovery, Recovery', [Next]_vars, NEW r \in Runs, Framed(r)
    PROVE  Framed(r)'
<1>1. TypeOK /\ TypeOK' /\ Serial /\ Separate
    BY DEF Recovery, Separate
<1> SUFFICES ASSUME pc'[r] \in Active PROVE Framed(r)'
    BY DEF Framed
<1>2. CASE Start(r) \/ Rollback(r)
    BY <1>1, <1>2 DEF Start, Rollback, BeginRestore, Goto, TypeOK, Framed, PathsOf
<1>3. CASE /\ pc[r] \in Active
           /\ pc[r] = "undo_done" <=> pc'[r] = "undo_done"
           /\ plan'[r] = plan[r] /\ before'[r] = before[r]
           /\ base' = base \/ \E q \in Runs \ {r} : Start(q) \/ Rollback(q)
    <2>1. base' = base
        BY <1>3 DEF Start, Rollback, Idle
    <2>2. ASSUME NEW p \in Paths \ PathsOf(plan[r]),
                 ~(p \in Products /\ pc[r] # "undo_done")
          PROVE  repo'[p] = repo[p]
        <3>1. \A q \in Runs :
                  pc[q] \in {"applying", "writing", "validating"} \cup Restoring
                      => q = r
            BY <1>1, <1>3 DEF Serial, Active
        <3> QED
            BY <1>1, <2>2, <3>1, NextPlanned
    <2> QED
        BY <1>3, <2>1, <2>2 DEF Framed, PathsOf
<1> QED
    BY <1>1, <1>2, <1>3, ActiveBefore

\* A run that a step leaves alone, in its own plan, keeps what it has written.
LEMMA WrittenFrame ==
    ASSUME NEW r \in Runs, Written(r), plan'[r] = plan[r], pc'[r] = pc[r],
           pending'[r] = pending[r], open'[r] = open[r],
           \A p \in PathsOf(plan[r]) \ Products : repo'[p] = repo[p]
    PROVE  Written(r)'
BY DEF Written, PathsOf, Whole

LEMMA NextWritten ==
    ASSUME Recovery, Recovery', [Next]_vars, NEW r \in Runs, Written(r)
    PROVE  Written(r)'
<1> DEFINE Doing == {"applying", "writing", "validating"}
<1>1. /\ TypeOK /\ TypeOK' /\ Serial /\ Separate /\ Local(r) /\ Local(r)'
      /\ PathsOf(plan[r]) \subseteq Paths
    BY DEF Recovery, Separate, TypeOK, PathsOf, PlannedChange
<1> SUFFICES ASSUME pc'[r] \in Doing PROVE Written(r)'
    BY DEF Written
<1>2. CASE UNCHANGED vars
    BY <1>2, WrittenFrame DEF vars
<1>3. CASE Crash
    BY <1>1, <1>3 DEF Crash, HalfRestored, TypeOK, Active, Restoring
<1>4. ASSUME NEW q \in Runs, Start(q) \/ Rollback(q) PROVE Written(r)'
    BY <1>1, <1>4, WrittenFrame DEF Start, Rollback, BeginRestore, Goto, TypeOK, Restoring
<1>5. ASSUME NEW q \in Runs \ {r}, Step(q) PROVE Written(r)'
    <2>1. pc'[r] = pc[r] /\ plan'[r] = plan[r] /\ pending'[r] = pending[r]
          /\ open'[r] = open[r]
        BY <1>1, <1>5
           DEF Step, GenerateFails, Generate, RejectChanges, CaptureFile, BackupFails,
               WriteManifest, OpenFile, WriteFile, DeleteFile, ApplyFails, Applied,
               ValidationPasses, ValidationFails, OpenCopy, CloseCopy, RemoveFile,
               RestoreFails, Restored, BeginRestore, Goto, TypeOK
    <2>2. pc[r] \in Active
        BY <2>1 DEF Active
    <2>3. pc[q] \in Active
        BY <1>5
           DEF Step, GenerateFails, Generate, RejectChanges, CaptureFile, BackupFails,
               WriteManifest, OpenFile, WriteFile, DeleteFile, ApplyFails, Applied,
               ValidationPasses, ValidationFails, OpenCopy, CloseCopy, RemoveFile,
               RestoreFails, Restored, Active
    <2> QED
        BY <1>1, <2>2, <2>3 DEF Serial
<1>6. CASE WriteManifest(r)
    <2>1. pending'[r] = changes'[r] /\ pc'[r] = "applying"
        BY <1>1, <1>6 DEF WriteManifest, Goto, TypeOK
    <2>2. PathsOf(changes'[r]) = PathsOf(plan'[r])
        BY <1>1, <2>1 DEF Local, Prepared, PathsOf
    <2> QED
        BY <2>1, <2>2 DEF Written, PathsOf
<1>7. ASSUME NEW c \in pending[r], OpenFile(r, c) PROVE Written(r)'
    <2>1. /\ pc[r] = "applying" /\ pc'[r] = "writing"
          /\ plan' = plan /\ pending'[r] = pending[r] \ {c}
          /\ open'[r] = [path |-> c.path, content |-> c.content]
          /\ \A p \in Paths \ {c.path} : repo'[p] = repo[p]
        BY <1>1, <1>7 DEF OpenFile, Goto, TypeOK
    <2>2. c.content \in Contents
        BY <1>1, <1>7 DEF OpenFile, Local, Normalise
    <2>3. ASSUME NEW p \in PathsOf(plan[r]) \ Products, p # c.path
          PROVE  repo'[p] \in Whole \/ p \in PathsOf(pending'[r])
        BY <1>1, <2>1, <2>3 DEF Written, PathsOf
    <2> QED
        BY <2>1, <2>2, <2>3 DEF Written, PathsOf
<1>8. CASE WriteFile(r)
    <2>1. /\ pc[r] = "writing" /\ pc'[r] = "applying" /\ plan' = plan
          /\ pending' = pending
          /\ repo' = [repo EXCEPT ![open[r].path] = open[r].content]
        BY <1>1, <1>8 DEF WriteFile, Goto, TypeOK
    <2>2. open[r].content \in Whole
        BY <1>1, <2>1 DEF Written, Local, Whole
    <2>3. ASSUME NEW p \in PathsOf(plan[r]) \ Products
          PROVE  repo'[p] \in Whole \/ p \in PathsOf(pending[r])
        BY <1>1, <2>1, <2>2, <2>3 DEF Written, TypeOK
    <2> QED
        BY <2>1, <2>3 DEF Written, PathsOf
<1>9. ASSUME NEW c \in pending[r], DeleteFile(r, c) PROVE Written(r)'
    <2>1. /\ pc[r] = "applying" /\ pc' = pc /\ plan' = plan
          /\ pending'[r] = pending[r] \ {c} /\ open' = open
          /\ repo' = [repo EXCEPT ![c.path] = Absent]
        BY <1>1, <1>9 DEF DeleteFile, TypeOK
    <2>2. ASSUME NEW p \in PathsOf(plan[r]) \ Products
          PROVE  repo'[p] \in Whole \/ p \in PathsOf(pending'[r])
        <3>1. CASE p = c.path
            BY <1>1, <2>1, <2>2, <3>1 DEF TypeOK, Whole
        <3>2. CASE p # c.path
            <4>1. repo'[p] = repo[p]
                BY <1>1, <2>1, <2>2, <3>2 DEF TypeOK
            <4>2. repo[p] \in Whole \/ p \in PathsOf(pending[r])
                BY <2>1, <2>2 DEF Written
            <4> QED
                BY <2>1, <3>2, <4>1, <4>2 DEF PathsOf
        <3> QED
            BY <3>1, <3>2
    <2> QED
        BY <2>1, <2>2 DEF Written, PathsOf
<1>10. CASE Applied(r)
    BY <1>1, <1>10 DEF Applied, Goto, TypeOK, Written, PathsOf
<1>11. CASE \/ GenerateFails(r) \/ BackupFails(r)
            \/ \E proposed \in Proposals :
                   Generate(r, proposed) \/ RejectChanges(r, proposed)
            \/ \E p \in Paths : CaptureFile(r, p)
    BY <1>1, <1>11
       DEF GenerateFails, BackupFails, Generate, RejectChanges, CaptureFile, Goto, TypeOK
<1>12. CASE ApplyFails(r) \/ ValidationPasses(r) \/ ValidationFails(r)
    BY <1>1, <1>12
       DEF ApplyFails, ValidationPasses, ValidationFails, BeginRestore, Goto, TypeOK
<1>13. CASE \/ CloseCopy(r) \/ RestoreFails(r) \/ Restored(r)
            \/ \E p \in Paths : OpenCopy(r, p) \/ RemoveFile(r, p)
    BY <1>1, <1>13
       DEF CloseCopy, RestoreFails, Restored, HalfRestored, OpenCopy, RemoveFile, Goto,
           TypeOK, Restoring
<1>14. ASSUME NEW q \in Runs, NEW p \in Products, CommandWrites(q, p)
       PROVE  Written(r)'
    BY <1>1, <1>14, WrittenFrame DEF CommandWrites, TypeOK
<1> QED
    BY <1>2, <1>3, <1>4, <1>5, <1>6, <1>7, <1>8, <1>9, <1>10, <1>11, <1>12, <1>13, <1>14
       DEF Next, Step, Commands

LEMMA RefinedHolds == ASSUME OneAtATime PROVE Spec => []Refined
<1>1. Refined /\ [Next]_vars => Refined'
    BY NextRecovery, NextFramed, NextWritten DEF Refined
<1> QED
    BY <1>1, InitRefined, PTL DEF Spec

----------------------------------------------------------------------------
(* What AtomicTransaction sees of a step.                                  *)

LEMMA Phases ==
    /\ PhaseOf("new") = "new" /\ PhaseOf("done") = "committed"
    /\ PhaseOf("failed") = "aborted" /\ PhaseOf("undo_done") = "undoing"
    /\ PhaseOf("rolled_back") = "undone" /\ PhaseOf("damaged") = "broken"
    /\ PhaseOf("half_undone") = "half_undone"
    /\ \A label \in Active \ {"undo_done"} : PhaseOf(label) = "open"
BY DEF PhaseOf, Active, Restoring

\* A run's own phase moves with it, the others' stay.
LEMMA PhaseMoves ==
    ASSUME TypeOK, NEW r \in Runs, NEW label, Goto(r, label)
    PROVE  [q \in Runs |-> PhaseOf(pc'[q])]
               = [[q \in Runs |-> PhaseOf(pc[q])] EXCEPT ![r] = PhaseOf(label)]
BY DEF Goto, TypeOK

LEMMA InitAtomic == Init => Atomic!Init
<1> SUFFICES ASSUME Init PROVE Atomic!Init
    OBVIOUS
<1>1. Idle /\ \A r \in Runs : pc[r] = "new" /\ plan[r] = {} /\ before[r] = repo
    BY DEF Init, Idle, Active, Restoring
<1>2. [r \in Runs |-> PhaseOf(pc[r])] = [r \in Runs |-> "new"]
    BY <1>1, Phases
<1>3. [r \in Runs |-> PathsOf(plan[r])] = [r \in Runs |-> {}]
    BY <1>1 DEF PathsOf
<1> QED
    BY <1>1, <1>2, <1>3 DEF Init, Atomic!Init

\* Nothing is seen of a step within a run.
LEMMA Unseen ==
    ASSUME TypeOK, NEW r \in Runs, NEW label \in Active \ {"undo_done"},
           pc[r] \in Active \ {"undo_done"}, Goto(r, label),
           plan' = plan, before' = before, base' = base
    PROVE  UNCHANGED Atomic!vars
<1>1. ~Idle /\ ~Idle'
    BY DEF Idle, Goto, TypeOK
<1>2. [q \in Runs |-> PhaseOf(pc'[q])] = [q \in Runs |-> PhaseOf(pc[q])]
    BY Phases DEF Goto, TypeOK
<1> QED
    BY <1>1, <1>2 DEF Atomic!vars

LEMMA UnseenCopy ==
    ASSUME NEW r \in Runs, pc[r] \in Active,
           pc' = pc, plan' = plan, before' = before, base' = base
    PROVE  UNCHANGED Atomic!vars
<1>1. ~Idle /\ ~Idle'
    BY DEF Idle
<1> QED
    BY <1>1 DEF Atomic!vars

\* Where a run ends, no other is active: what was base shows as the repository.
LEMMA Revealed ==
    ASSUME TypeOK, Serial, NEW r \in Runs, pc[r] \in Active,
           NEW label \in Outcomes, Goto(r, label)
    PROVE  ~Idle /\ Idle'
<1>1. ~Idle
    BY DEF Idle
<1>2. \A q \in Runs : pc'[q] \notin Active
    BY DEF Goto, TypeOK, Serial, Outcomes, Active, Restoring
<1> QED
    BY <1>1, <1>2 DEF Idle

LEMMA StartBegins ==
    ASSUME OneAtATime, TypeOK, NEW r \in Runs, Start(r)
    PROVE  Atomic!Begin(r)
<1>1. Idle /\ ~Idle' /\ base' = repo
    BY DEF Start, Goto, Idle, TypeOK, Active
<1>2. PICK planned \in Plans : plan' = [plan EXCEPT ![r] = planned]
    BY DEF Start
<1>3. PathsOf(planned) \in SUBSET Paths
    BY <1>2, PlansAssumption DEF PathsOf, PlannedChange
<1>4. [q \in Runs |-> PathsOf(plan'[q])]
          = [[q \in Runs |-> PathsOf(plan[q])] EXCEPT ![r] = PathsOf(planned)]
    BY <1>2 DEF TypeOK
<1>5. Atomic!Goto(r, "open")
    BY Phases, PhaseMoves DEF Start, Atomic!Goto, Active, Restoring
<1>6. Atomic!Quiet
    BY <1>1, Phases DEF Atomic!Quiet, Idle, PhaseOf, TypeOK, PC, Outcomes
<1>7. PhaseOf(pc[r]) = "new"
    BY Phases DEF Start
<1> QED
    BY <1>1, <1>3, <1>4, <1>5, <1>6, <1>7 DEF Atomic!Begin, Start

LEMMA RollbackBegins ==
    ASSUME OneAtATime, TypeOK, NEW r \in Runs, Rollback(r)
    PROVE  Atomic!BeginUndo(r)
<1>1. Idle /\ ~Idle' /\ base' = repo
    BY DEF Rollback, BeginRestore, Goto, Idle, TypeOK, Active, Restoring
<1>2. Atomic!Goto(r, "undoing")
    BY Phases, PhaseMoves DEF Rollback, BeginRestore, Atomic!Goto
<1>3. Atomic!Quiet
    BY <1>1, Phases DEF Atomic!Quiet, Idle, PhaseOf, TypeOK, PC, Outcomes
<1>4. PhaseOf(pc[r]) \in {"committed", "undone", "half_undone"}
    BY Phases DEF Rollback
<1> QED
    BY <1>1, <1>2, <1>3, <1>4 DEF Atomic!BeginUndo, Rollback

LEMMA FailureAborts ==
    ASSUME Refined, Refined', [Next]_vars, NEW r \in Runs, Goto(r, "failed"),
           pc[r] \in Active \ {"undo_done"}, plan' = plan, before' = before
    PROVE  Atomic!Abort(r)
<1>1. TypeOK /\ Serial /\ Recovery /\ base = before[r]
    BY DEF Refined, Recovery, Separate, Framed
<1>2. ~Idle /\ Idle'
    BY <1>1, Revealed DEF Outcomes
<1>3. \A p \in Paths \ (Products \ PathsOf(plan[r])) : repo'[p] = base[p]
    BY <1>1, NextRestores DEF Goto, TypeOK, Active, Restoring, Guarded
<1>4. Atomic!Goto(r, "aborted")
    BY <1>1, Phases, PhaseMoves DEF Atomic!Goto
<1>5. PhaseOf(pc[r]) = "open"
    BY Phases
<1>6. Atomic!Changes({}, Products \ PathsOf(plan[r]))
    BY <1>2, <1>3 DEF Atomic!Changes, Refined, Recovery, Separate, TypeOK, FileState
<1> QED
    BY <1>1, <1>4, <1>5, <1>6 DEF Atomic!Abort

\* What a step that ends an active run leaves as the repository.
LEMMA OnlyPlanned ==
    ASSUME Refined, Refined', NEW r \in Runs, pc[r] \in Active, repo' = repo,
           Idle', plan' = plan, NEW whole \in SUBSET PathsOf(plan[r]), NEW free,
           PathsOf(plan[r]) \ whole \subseteq free,
           pc[r] # "undo_done" => Products \subseteq free,
           \A p \in whole \ free : repo[p] \in Whole
    PROVE  Atomic!Changes(whole, free)
<1>1. repo \in [Paths -> Contents \cup {Absent} \cup {Torn}]
    BY DEF Refined, Recovery, Separate, TypeOK, FileState
<1>2. ~Idle
    BY DEF Idle
<1>3. \A p \in Paths \ free : p \notin whole => repo[p] = base[p]
    BY DEF Refined, Framed
<1> QED
    BY <1>1, <1>2, <1>3 DEF Atomic!Changes, Whole

LEMMA PassingCommits ==
    ASSUME Refined, Refined', NEW r \in Runs, ValidationPasses(r)
    PROVE  Atomic!Commit(r)
<1>1. /\ TypeOK /\ Serial /\ pc[r] = "validating" /\ pc[r] \in Active \ {"undo_done"}
      /\ Goto(r, "done") /\ repo' = repo /\ plan' = plan /\ before' = before
    BY DEF Refined, Recovery, Separate, ValidationPasses, Active
<1>2. ~Idle /\ Idle'
    BY <1>1, Revealed DEF Outcomes
<1>3. \A p \in PathsOf(plan[r]) \ Products : repo[p] \in Whole
    BY <1>1 DEF Refined, Written, PathsOf
<1>4. Atomic!Changes(PathsOf(plan[r]), Products)
    BY <1>1, <1>2, <1>3, OnlyPlanned
<1>5. Atomic!Goto(r, "committed")
    BY <1>1, Phases, PhaseMoves DEF Atomic!Goto
<1>6. PhaseOf(pc[r]) = "open"
    BY <1>1, Phases
<1> QED
    BY <1>1, <1>4, <1>5, <1>6 DEF Atomic!Commit

LEMMA RestoreUndoes ==
    ASSUME Refined, NEW r \in Runs, Restored(r), pc[r] = "undo_done"
    PROVE  Atomic!Undo(r)
<1>1. /\ TypeOK /\ Serial /\ pc[r] \in Active
      /\ Goto(r, "rolled_back") /\ repo' = repo /\ plan' = plan /\ before' = before
      /\ files[r] = {}
    BY DEF Refined, Recovery, Separate, Restored, Active, Restoring
<1>2. ~Idle /\ Idle'
    BY <1>1, Revealed DEF Outcomes
<1>3. /\ \A p \in PathsOf(plan[r]) : repo[p] = before[r][p]
      /\ \A p \in Paths \ PathsOf(plan[r]) : repo[p] = base[p]
    BY <1>1 DEF Refined, Recovery, Separate, Local, Intact, Framed, Prepared, Restoring
<1>4. repo = [p \in Paths |-> IF p \in PathsOf(plan[r]) THEN before[r][p] ELSE base[p]]
    BY <1>1, <1>3 DEF TypeOK
<1>5. Atomic!Goto(r, "undone")
    BY <1>1, Phases, PhaseMoves DEF Atomic!Goto
<1> QED
    BY <1>1, <1>2, <1>4, <1>5, Phases DEF Atomic!Undo

\* A run that is cut off leaves anything, but only at the paths of its plan and
\* where its commands write.
LEMMA CutOffBreaks ==
    ASSUME Refined, Refined', NEW r \in Runs, pc[r] \in Active,
           Goto(r, HalfRestored(r)), repo' = repo, plan' = plan, before' = before
    PROVE  Atomic!Break(r)
<1>1. TypeOK /\ Serial /\ HalfRestored(r) \in Outcomes
    BY DEF Refined, Recovery, Separate, HalfRestored, Outcomes
<1>2. ~Idle /\ Idle'
    BY <1>1, Revealed
<1>3. CASE pc[r] = "undo_done"
    <2>1. Atomic!Goto(r, "half_undone") /\ PhaseOf(pc[r]) = "undoing"
        BY <1>1, <1>3, Phases, PhaseMoves DEF Atomic!Goto, HalfRestored
    <2>2. Atomic!Changes({}, PathsOf(plan[r]))
        BY <1>2, <1>3, OnlyPlanned
    <2> QED
        BY <2>1, <2>2 DEF Atomic!Break
<1>4. CASE pc[r] # "undo_done"
    <2>1. Atomic!Goto(r, "broken") /\ PhaseOf(pc[r]) = "open"
        BY <1>1, <1>4, Phases, PhaseMoves DEF Atomic!Goto, HalfRestored
    <2>2. Atomic!Changes({}, PathsOf(plan[r]) \cup Products)
        BY <1>2, <1>4, OnlyPlanned
    <2> QED
        BY <2>1, <2>2 DEF Atomic!Break
<1> QED
    BY <1>3, <1>4

\* Every step of the pipeline is one of the atomic transaction, or unseen.
LEMMA NextAtomic ==
    ASSUME OneAtATime, Refined, Refined', [Next]_vars
    PROVE  [Atomic!Next]_(Atomic!vars)
<1>1. TypeOK /\ Serial /\ Recovery
    BY DEF Refined, Recovery, Separate
<1>2. CASE UNCHANGED vars
    BY <1>2 DEF vars, Atomic!vars, Idle
<1>3. CASE Crash
    <2>1. PICK r \in Runs : pc[r] \in Active
        BY <1>3 DEF Crash, Idle
    <2>2. \A q \in Runs \ {r} : pc[q] \notin Active
        BY <1>1, <2>1 DEF Serial
    <2>3. Goto(r, HalfRestored(r))
        BY <1>1, <1>3, <2>1, <2>2 DEF Crash, Goto, TypeOK
    <2>4. Atomic!Break(r)
        BY <1>3, <2>1, <2>3, CutOffBreaks DEF Crash
    <2> QED
        BY <2>4 DEF Atomic!Next
<1>4. ASSUME NEW r \in Runs, Start(r) \/ Rollback(r)
      PROVE  Atomic!Next
    BY <1>1, <1>4, StartBegins, RollbackBegins DEF Atomic!Next
<1>5. ASSUME NEW r \in Runs, Step(r)
      PROVE  Atomic!Next \/ UNCHANGED Atomic!vars
    <2>1. CASE \/ GenerateFails(r) \/ BackupFails(r)
               \/ \E proposed \in Proposals : RejectChanges(r, proposed)
               \/ Restored(r) /\ pc[r] # "undo_done"
        <3>1. /\ Goto(r, "failed") /\ pc[r] \in Active \ {"undo_done"}
              /\ plan' = plan /\ before' = before
            BY <2>1 DEF GenerateFails, BackupFails, RejectChanges, Restored, Active, Restoring
        <3> QED
            BY <3>1, FailureAborts DEF Atomic!Next
    <2>2. CASE \/ WriteFile(r) \/ ApplyFails(r) \/ Applied(r) \/ WriteManifest(r)
               \/ ValidationFails(r)
               \/ \E c \in pending[r] : OpenFile(r, c)
               \/ \E proposed \in Proposals : Generate(r, proposed)
        <3>1. /\ plan' = plan /\ before' = before /\ base' = base
              /\ pc[r] \in Active \ {"undo_done"}
              /\ \E label \in Active \ {"undo_done"} : Goto(r, label)
            BY <2>2
               DEF WriteFile, ApplyFails, Applied, WriteManifest, ValidationFails, OpenFile,
                   Generate, BeginRestore, Active, Restoring
        <3> QED
            BY <1>1, <3>1, Unseen
    <2>3. CASE \/ CloseCopy(r)
               \/ \E p \in Paths : OpenCopy(r, p) \/ RemoveFile(r, p) \/ CaptureFile(r, p)
               \/ \E c \in pending[r] : DeleteFile(r, c)
        <3>1. /\ pc' = pc /\ plan' = plan /\ before' = before /\ base' = base
              /\ pc[r] \in Active
            BY <2>3
               DEF CloseCopy, OpenCopy, RemoveFile, CaptureFile, DeleteFile, Active
        <3> QED
            BY <3>1, UnseenCopy
    <2>4. CASE ValidationPasses(r)
        BY <2>4, PassingCommits DEF Atomic!Next
    <2>5. CASE Restored(r) /\ pc[r] = "undo_done"
        BY <2>5, RestoreUndoes DEF Atomic!Next
    <2>6. CASE RestoreFails(r)
        <3>1. /\ Goto(r, HalfRestored(r)) /\ pc[r] \in Active
              /\ repo' = repo /\ plan' = plan /\ before' = before
            BY <2>6 DEF RestoreFails, Active
        <3> QED
            BY <3>1, CutOffBreaks DEF Atomic!Next
    <2> QED
        BY <1>5, <2>1, <2>2, <2>3, <2>4, <2>5, <2>6 DEF Step
<1>6. ASSUME NEW r \in Runs, Commands(r) PROVE UNCHANGED Atomic!vars
    BY <1>6, UnseenCopy DEF Commands, CommandWrites, Active
<1> QED
    BY <1>2, <1>3, <1>4, <1>5, <1>6 DEF Next

\* A run is all or nothing: as long as runs come one after the other the
\* pipeline implements AtomicTransaction, whatever fails and wherever it dies.
THEOREM PipelineIsAtomic == ASSUME OneAtATime PROVE Spec => AllOrNothing
<1>1. Init => Atomic!Init
    BY InitAtomic
<1>2. Refined /\ Refined' /\ [Next]_vars => [Atomic!Next]_(Atomic!vars)
    BY NextAtomic
<1> QED
    BY <1>1, <1>2, RefinedHolds, PTL DEF Spec, AllOrNothing, Atomic!Spec
=============================================================================
