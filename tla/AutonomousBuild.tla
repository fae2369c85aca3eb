--------------------------- MODULE AutonomousBuild ---------------------------
(***************************************************************************)
(* The autonomous execution of Code Builder V2: AutonomousBuildLoop        *)
(* (autonomous.py) with the WorkspaceAttemptRunner, EvidenceDiagnoser and  *)
(* VerifiedWorkspacePublisher of runtime.py, on a disposable copy of the   *)
(* repository (workspace.py).                                              *)
(*                                                                         *)
(* One loop in one thread.  The source repository is shared with whoever   *)
(* else edits it (Edit), at any time, so the result is published path by   *)
(* path.  In the workspace, which nobody else sees and which is thrown     *)
(* away when an attempt raises, applying a change set is one step.         *)
(***************************************************************************)
EXTENDS Naturals, FiniteSetsExt

CONSTANTS
    Paths,          \* repository-relative paths
    Contents,       \* what a file may hold
    Evidence,       \* fingerprints of failed validations
    Plans,          \* the ChangePlans the planner may return
    Budgets,        \* the max_attempts a request may ask for
    MaxRepeated,    \* max_repeated_failure_fingerprints (2 in the code)
    MaxPublished,   \* VerifiedWorkspacePublisher.max_changed_files
    Ignored,        \* paths the workspace copy leaves out (_ignore)
    Scratch,        \* paths the validation commands may write or remove
    MaxEdited       \* bound: how many paths others edit while the loop runs

Absent == "absent"
FileState == Contents \cup {Absent}

\* What a write that raised may leave of a file; a path no backup was taken of.
Partial == "partial"
Untaken == "untaken"

PlannedChange == [path : Paths, operation : {"create", "modify", "delete"}]

ASSUME PlansAssumption == Plans \subseteq SUBSET PlannedChange
ASSUME BudgetsAssumption ==
    Budgets \subseteq 1 .. 10 /\ MaxRepeated \in Nat \ {0}    \* TaskRequest
ASSUME ContentsAssumption ==
    Contents \cap {Absent, Partial, Untaken} = {} /\ MaxPublished \in Nat
ASSUME EditsAssumption == MaxEdited \in Nat
ASSUME PathsAssumption == Ignored \subseteq Paths /\ Scratch \subseteq Paths

VARIABLES
    source,         \* the repository
    workspace,      \* the disposable copy
    phase,          \* where the loop is
    maxAttempts,    \* self.max_attempts
    plan,           \* the approved plan
    attempt,        \* the number of the attempt
    changed,        \* changed_paths accumulated over the attempts
    failures,       \* fingerprints: how often each was seen
    backup,         \* backup_id of the published change, if any
    saved,          \* the publisher's backup: what it found in each path
    pending,        \* the paths it has still to write, or to restore
    torn,           \* history: paths a restore that raised has not reached
    edited,         \* history: source paths changed by others
    late,           \* history: the ones changed while they were published
    theirs,         \* history: the source as others have made it
    verified        \* history: the workspace when validation passed

\* What only publication changes, and what only others' edits do.
published == <<backup, saved, pending, torn>>
others == <<edited, late, theirs>>

vars == <<source, workspace, phase, maxAttempts, plan, attempt, changed,
          failures, published, others, verified>>

Running == {"building", "validating", "diagnosing", "publishing", "writing",
            "restoring"}
Ended == {"rejected", "completed", "failed"}
Phases == {"new", "ready"} \cup Running \cup Ended

Init ==
    /\ source \in [Paths -> FileState]
    /\ workspace = [p \in Paths |-> Absent]
    /\ phase = "new"
    /\ maxAttempts \in Budgets
    /\ plan \in Plans
    /\ attempt = 0
    /\ changed = {}
    /\ failures = [e \in Evidence |-> 0]
    /\ backup = "none"
    /\ saved = [p \in Paths |-> Untaken] /\ pending = {} /\ torn = {}
    /\ edited = {} /\ late = {} /\ theirs = source
    /\ verified = workspace

\* workspace.cleanup() in the finally clause.
End(outcome) ==
    /\ phase' = outcome
    /\ workspace' = [p \in Paths |-> Absent]

----------------------------------------------------------------------------

\* AutonomousBuildLoop.__post_init__ checks the limits it is built with.
Construct ==
    /\ phase = "new"
    /\ phase' = IF /\ maxAttempts \in 1 .. 10
                   /\ MaxRepeated \in 1 .. maxAttempts
                  THEN "ready" ELSE "rejected"
    /\ UNCHANGED <<source, workspace, maxAttempts, plan, attempt, changed,
                   failures, published, others, verified>>

\* workspace_service.prepare copies the repository.
Prepare ==
    /\ phase = "ready"
    /\ workspace' = [p \in Paths |-> IF p \in Ignored THEN Absent ELSE source[p]]
    /\ attempt' = 1
    /\ phase' = "building"
    /\ UNCHANGED <<source, maxAttempts, plan, changed, failures, published,
                   others, verified>>

PrepareFails ==
    /\ phase = "ready"
    /\ phase' = "failed"
    /\ UNCHANGED <<source, workspace, maxAttempts, plan, attempt, changed,
                   failures, published, others, verified>>

----------------------------------------------------------------------------
(* One attempt: WorkspaceAttemptRunner.run_attempt.                        *)

\* _effective_plan: the approved plan, adjusted to what the workspace holds
\* after the earlier attempts.
EffectivePlan ==
    LET exists(p) == workspace[p] # Absent
        adjust(c) ==
            IF c.operation = "create" /\ exists(c.path) THEN "modify"
            ELSE IF c.operation = "modify" /\ ~exists(c.path) THEN "create"
            ELSE c.operation
        kept == {c \in plan : c.operation = "delete" => exists(c.path)}
    IN  {[path |-> c.path, operation |-> adjust(c)] : c \in kept}

\* What applier.apply requires of a plan and of changes that follow it.
Applicable(changes) ==
    /\ \A c, d \in changes : c.path = d.path => c = d
    /\ \A c \in changes :
           (c.operation = "create") = (workspace[c.path] = Absent)

PathsOf(changes) == {c.path : c \in changes}

\* Mutant: only the paths of the last attempt count as changed.
BuildForgetsPaths(contents) ==
    /\ phase = "building"
    /\ EffectivePlan # {}
    /\ Applicable(EffectivePlan)
    /\ workspace' = [p \in Paths |->
           IF \E c \in EffectivePlan : c.path = p /\ c.operation = "delete"
             THEN Absent
           ELSE IF p \in PathsOf(EffectivePlan) THEN contents[p]
           ELSE workspace[p]]
    /\ changed' = PathsOf(EffectivePlan)
    /\ phase' = "validating"
    /\ UNCHANGED <<source, maxAttempts, plan, attempt, failures, published,
                   others, verified>>

\* The generator follows the effective plan and its changes are applied to
\* the workspace, on top of what earlier attempts left there.  An answer
\* without changes is refused, so an empty plan can only fail.
Build(contents) ==
    /\ phase = "building"
    /\ EffectivePlan # {}
    /\ Applicable(EffectivePlan)
    /\ workspace' = [p \in Paths |->
           IF \E c \in EffectivePlan : c.path = p /\ c.operation = "delete"
             THEN Absent
           ELSE IF p \in PathsOf(EffectivePlan) THEN contents[p]
           ELSE workspace[p]]
    /\ changed' = changed \cup PathsOf(EffectivePlan)
    /\ phase' = "validating"
    /\ UNCHANGED <<source, maxAttempts, plan, attempt, failures, published,
                   others, verified>>

\* Generation or application raises, for instance because the generated
\* changes do not follow the plan, or a validation command cannot be
\* started: the exception leaves the loop.
BuildFails ==
    /\ phase \in {"building", "validating"}
    /\ End("failed")
    /\ UNCHANGED <<source, maxAttempts, plan, attempt, changed, failures,
                   published, others, verified>>

\* What the validation commands may leave in the workspace.
AfterCommands == {w \in [Paths -> FileState] :
                      \A p \in Paths \ Scratch : w[p] = workspace[p]}

ValidationPasses(after) ==
    /\ phase = "validating"
    /\ workspace' = after
    /\ verified' = after
    /\ phase' = "publishing"
    /\ UNCHANGED <<source, maxAttempts, plan, attempt, changed, failures,
                   published, others>>

\* An attempt that failed: the loop stops or has the failure diagnosed.
AttemptFailed(counted, stop, after) ==
    /\ phase = "validating"
    /\ failures' = counted
    /\ IF stop THEN End("failed")
               ELSE phase' = "diagnosing" /\ workspace' = after
    /\ UNCHANGED <<source, maxAttempts, plan, attempt, changed, published, others, verified>>

Seen(e) == failures[e] + 1
Counted(e) == [failures EXCEPT ![e] = Seen(e)]
BudgetSpent == attempt = maxAttempts

\* Mutants: the repeat limit off by one; an attempt that failed is tried again
\* as it is.
FailsOneTooMany(e, after) ==
    AttemptFailed(Counted(e), Seen(e) > MaxRepeated \/ BudgetSpent, after)

FailsTriedAgain(e, after) ==
    /\ phase = "validating"
    /\ phase' = "building" /\ workspace' = after
    /\ UNCHANGED <<source, maxAttempts, plan, attempt, changed, failures,
                   published, others, verified>>

\* A validation command fails or times out with evidence e.  The loop stops
\* at the repeat limit and at the attempt budget, in this order.
ValidationFails(e, after) ==
    AttemptFailed(Counted(e), Seen(e) >= MaxRepeated \/ BudgetSpent, after)

\* The diagnoser returns a repair instruction: the next attempt.
Repair ==
    /\ phase = "diagnosing"
    /\ attempt' = attempt + 1
    /\ phase' = "building"
    /\ UNCHANGED <<source, workspace, maxAttempts, plan, changed, failures,
                   published, others, verified>>

\* The diagnoser raises or returns an empty instruction.
DiagnosisFails ==
    /\ phase = "diagnosing"
    /\ End("failed")
    /\ UNCHANGED <<source, maxAttempts, plan, attempt, changed, failures,
                   published, others, verified>>

----------------------------------------------------------------------------
(* VerifiedWorkspacePublisher.publish: it reads the changed paths, takes a  *)
(* backup of those in the source and has the applier write them one by one. *)

\* Paths that exist on either side; a path created and deleted again in the
\* workspace is skipped.
ToPublish == {p \in changed : source[p] # Absent \/ workspace[p] # Absent}

BeginPublish ==
    /\ phase = "publishing"
    /\ Cardinality(changed) <= MaxPublished
    /\ ToPublish # {}
    /\ saved' = [p \in Paths |-> IF p \in ToPublish THEN source[p] ELSE Untaken]
    /\ pending' = ToPublish
    /\ phase' = "writing"
    /\ UNCHANGED <<source, workspace, maxAttempts, plan, attempt, changed,
                   failures, backup, torn, others, verified>>

\* Nothing to publish.
PublishNothing ==
    /\ phase = "publishing"
    /\ Cardinality(changed) <= MaxPublished
    /\ ToPublish = {}
    /\ backup' = "empty"
    /\ End("completed")
    /\ UNCHANGED <<source, maxAttempts, plan, attempt, changed, failures, saved,
                   pending, torn, others, verified>>

\* Too many files, or anything raises before the first write.
PublishRefused ==
    /\ phase = "publishing"
    /\ End("failed")
    /\ UNCHANGED <<source, maxAttempts, plan, attempt, changed, failures,
                   published, others, verified>>

PublishPath(p) ==
    /\ phase = "writing" /\ p \in pending
    /\ source' = [source EXCEPT ![p] = workspace[p]]
    /\ pending' = pending \ {p}
    /\ UNCHANGED <<workspace, phase, maxAttempts, plan, attempt, changed, failures,
                   backup, saved, torn, others, verified>>

Published ==
    /\ phase = "writing" /\ pending = {}
    /\ backup' = "taken"
    /\ End("completed")
    /\ UNCHANGED <<source, maxAttempts, plan, attempt, changed, failures, saved,
                   pending, torn, others, verified>>

\* What is left of path p when making it `content' raises: it is as it was, or
\* written in part.
Broken(p, content) ==
    \E left \in {source[p]} \cup (IF content = Absent THEN {} ELSE {Partial}) :
        source' = [source EXCEPT ![p] = left]

\* Mutant: the paths written so far are left when a write raises.
WriteRaisesUnrestored(p) ==
    /\ phase = "writing" /\ p \in pending
    /\ Broken(p, workspace[p])
    /\ pending' = {} /\ phase' = "restoring"
    /\ UNCHANGED <<workspace, maxAttempts, plan, attempt, changed, failures,
                   backup, saved, torn, others, verified>>

\* A write raises: the backup is restored, every path of it.
WriteRaises(p) ==
    /\ phase = "writing" /\ p \in pending
    /\ Broken(p, workspace[p])
    /\ pending' = {q \in Paths : saved[q] # Untaken}
    /\ phase' = "restoring"
    /\ UNCHANGED <<workspace, maxAttempts, plan, attempt, changed, failures,
                   backup, saved, torn, others, verified>>

RestorePath(p) ==
    /\ phase = "restoring" /\ p \in pending
    /\ source' = [source EXCEPT ![p] = saved[p]]
    /\ pending' = pending \ {p}
    /\ UNCHANGED <<workspace, phase, maxAttempts, plan, attempt, changed, failures,
                   backup, saved, torn, others, verified>>

Restored ==
    /\ phase = "restoring" /\ pending = {}
    /\ End("failed")
    /\ UNCHANGED <<source, maxAttempts, plan, attempt, changed, failures,
                   published, others, verified>>

\* The restore raises as well, and what it has not reached stays as it is.
RestoreRaises(p) ==
    /\ phase = "restoring" /\ p \in pending
    /\ Broken(p, saved[p])
    /\ torn' = pending
    /\ End("failed")
    /\ UNCHANGED <<maxAttempts, plan, attempt, changed, failures, backup, saved,
                   pending, others, verified>>

\* Somebody else changes a file of the source repository meanwhile.  (An edit
\* before the copy is made leads to a source that Init has as well.)
Edit(p, content) ==
    /\ phase \in Running
    /\ source[p] # content
    /\ Cardinality(edited \cup {p}) <= MaxEdited
    /\ source' = [source EXCEPT ![p] = content]
    /\ theirs' = [theirs EXCEPT ![p] = content]
    /\ edited' = edited \cup {p}
    /\ late' = IF phase \in {"writing", "restoring"} THEN late \cup {p} ELSE late
    /\ UNCHANGED <<workspace, phase, maxAttempts, plan, attempt, changed,
                   failures, published, verified>>

Loop ==
    \/ Construct \/ Prepare \/ PrepareFails
    \/ (\E contents \in [Paths -> Contents] : Build(contents))
    \/ BuildFails
    \/ (\E after \in AfterCommands :
           \/ ValidationPasses(after)
           \/ \E e \in Evidence : ValidationFails(e, after))
    \/ Repair \/ DiagnosisFails
    \/ BeginPublish \/ PublishNothing \/ PublishRefused \/ Published \/ Restored
    \/ (\E p \in Paths :
           PublishPath(p) \/ WriteRaises(p) \/ RestorePath(p) \/ RestoreRaises(p))

Next == Loop \/ \E p \in Paths, content \in FileState : Edit(p, content)

Spec == Init /\ [][Next]_vars

\* The loop runs on: model calls and commands have timeouts.
FairSpec == Spec /\ WF_vars(Loop)

----------------------------------------------------------------------------
(* Properties.                                                             *)

TypeOK ==
    /\ source \in [Paths -> FileState \cup {Partial}]
    /\ workspace \in [Paths -> FileState]
    /\ phase \in Phases
    /\ maxAttempts \in Budgets
    /\ plan \in Plans
    /\ attempt \in 0 .. maxAttempts
    /\ changed \subseteq Paths
    /\ failures \in [Evidence -> 0 .. MaxRepeated]
    /\ backup \in {"none", "empty", "taken"}
    /\ saved \in [Paths -> FileState \cup {Untaken}]
    /\ pending \subseteq Paths /\ torn \subseteq Paths
    /\ edited \subseteq Paths /\ late \subseteq Paths
    /\ theirs \in [Paths -> FileState]
    /\ verified \in [Paths -> FileState]

\* A loop that goes on is within both of its limits: the range of the for
\* statement, and the count of each fingerprint, which is compared after
\* the increment and before the next attempt.
WithinBudget ==
    phase \in Running =>
        /\ attempt \in 1 .. maxAttempts
        /\ \A e \in Evidence : failures[e] < MaxRepeated

\* A completed build put exactly the verified content in every path it
\* changed, and every other path is as others have made it, whenever they did;
\* only an edit of the very path that is being published may win over it.
PublishedIsVerified ==
    phase = "completed" =>
        \A p \in Paths :
            IF p \in changed
              THEN source[p] = verified[p] \/ (p \in late /\ source[p] = theirs[p])
              ELSE source[p] = theirs[p]

\* A build that did not complete leaves the source as others have made it,
\* their edits included, whatever its attempts did to the workspace and
\* however many paths it had published when a write raised.  Only two things
\* are lost: a path that others edit while it is published may be put back to
\* what the backup has, and where the restore raises as well, the paths it
\* has not reached may have the verified content or a part of a file.
FailureLeavesSource ==
    phase \in Phases \ {"completed"} =>
        \A p \in Paths :
            \/ source[p] = theirs[p]
            \/ /\ p \in changed
               /\ \/ phase \in {"writing", "restoring"}
                  \/ phase = "failed" /\ p \in late
                  \/ phase = "failed" /\ p \in torn
                        /\ source[p] \in {verified[p], Partial}

\* Paths a plan asks two different things of.
Contradicted == {c.path : c \in {d \in plan :
                    \E e \in plan : e.path = d.path /\ e # d}}

\* A completed build realises the approved plan, over any number of repair
\* attempts that each adjust it: what was to be deleted is gone and what
\* was to be written is there.  A deletion of a path that the copy leaves
\* out may be dropped.
PlanRealised ==
    phase = "completed" =>
        \A c \in plan :
            c.path \notin Ignored \cup Scratch \cup edited \cup Contradicted
                => (source[c.path] = Absent) = (c.operation = "delete")

\* Where the source is not as others have made it, in publishing, in restoring
\* and ever after, the approved plan names the path.
PublishesOnlyApproved ==
    \A p \in Paths : source[p] # theirs[p] => p \in PathsOf(plan)

\* Whatever its attempts came to, the loop does to the source what was approved
\* and verified, or nothing but what a restore that raised has not undone.
SourceIsSafe == PublishedIsVerified /\ FailureLeavesSource /\ PublishesOnlyApproved

\* The loop ends whatever the model and the commands answer.
LoopEnds == <>(phase \in Ended)
=============================================================================
