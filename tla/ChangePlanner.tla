---------------------------- MODULE ChangePlanner ----------------------------
(***************************************************************************)
(* PlanningService (planning_service.py): the model proposes a plan, which *)
(* is normalised against the repository; a plan that is refused is asked   *)
(* for again, and once more from the fallback model.  The repository is    *)
(* looked at when the plan arrives, while the analysis is older.           *)
(***************************************************************************)
EXTENDS Naturals, Sequences, FiniteSets, SequencesExt

CONSTANTS
    PlanPaths,          \* paths, each for all of its spellings
    Inside,             \* <<p, q>>: p lies in the directory q, if q is one
    BlockedPaths,       \* those evaluate_safe_path refuses
    Disabled,           \* operations that allow_..._operations turn off
    MaxRepairs          \* maximum_repair_attempts

Nowhere == "nowhere"
ASSUME ChangePlannerAssumption ==
    /\ BlockedPaths \subseteq PlanPaths /\ Nowhere \notin PlanPaths
    /\ Inside \subseteq PlanPaths \X PlanPaths
    /\ Disabled \subseteq STRING /\ MaxRepairs \in Nat

Operations == {"create", "update", "delete", "rename"}
Risks == 1 .. 4         \* low, medium, high, critical
NoPlan ==
    [files |-> <<>>, steps |-> <<>>, risk |-> 0, needs |-> {}, warned |-> {}, long |-> FALSE]
NoModel == [changes |-> <<>>, risk |-> 0, needs |-> {}, warned |-> {}]

VARIABLES
    present,        \* the files of the repository
    indexed,        \* those of its analysis
    asking,         \* what runs: "model", "fallback", "supplied", or how it ended
    answers,        \* answers and failures of the model so far
    moved,          \* the repository has been edited since the analysis
    plan,           \* the normalised plan; needs: dependencies of its files that
                    \* are paths, warned: those it warns about, long: its title has
                    \* more than the 200 characters the ChangePlan takes
    handed           \* the ChangePlan of models.py made from it

plannerVars == <<present, indexed, asking, answers, moved, plan, handed>>

\* No file lies inside another one; what holds files is a directory.
NoneInside(files) == \A p, q \in files : <<p, q>> \notin Inside
Folders(files) == {q \in PlanPaths : \E p \in files : <<p, q>> \in Inside}
OnDisk == present \cup Folders(present)

PlannerInit ==
    /\ present \in SUBSET PlanPaths /\ NoneInside(present) /\ indexed = present
    /\ asking \in {"model", "supplied"} /\ answers = 0 /\ moved = FALSE /\ plan = NoPlan
    /\ handed = NoModel

(* --------------------------- normalisation ---------------------------- *)

\* _normalize_repository_path and evaluate_safe_path: a path that has to exist
\* is looked for, and may be a directory.
Safe(p, mayBeNew) == p \notin BlockedPaths /\ (mayBeNew \/ p \in OnDisk)
Existing(p) == p \in OnDisk \cup indexed

\* Mutant: the analysis alone says whether a path is taken.
AllowedByIndex(c) ==
    /\ c.op = "create" => c.path \notin BlockedPaths /\ c.path \notin indexed
    /\ c.op # "create" => Safe(c.path, FALSE)
    /\ c.op = "rename" => c.to # Nowhere /\ Safe(c.to, TRUE) /\ ~Existing(c.to)

\* _normalize_file_change
Allowed(c) ==
    /\ c.op \notin Disabled
    /\ c.op = "create" => Safe(c.path, TRUE) /\ ~Existing(c.path)
    /\ c.op # "create" => Safe(c.path, FALSE)
    /\ c.op = "rename" => /\ c.to # Nowhere /\ Safe(c.to, TRUE)
                          /\ c.to # c.path /\ ~Existing(c.to)
Normal(c) ==
    [c EXCEPT !.to = IF c.op = "rename" THEN @ ELSE Nowhere,
              !.risk = IF c.op = "delete" /\ @ = 1 THEN 2 ELSE @]

\* Sources and destinations all differ.
Ends(c) == <<c.path>> \o (IF c.op = "rename" THEN <<c.to>> ELSE <<>>)
Distinct(files) ==
    \A i, j \in DOMAIN files : \A m \in DOMAIN Ends(files[i]), n \in DOMAIN Ends(files[j]) :
        Ends(files[i])[m] = Ends(files[j])[n] => i = j /\ m = n

\* _normalize_steps: sorted by their orders; an order stands for the first step
\* that has it.
Sorted(steps) == SortSeq(steps, LAMBDA s, t : s.order < t.order)
NewOrder(sorted, order) ==
    IF \E i \in DOMAIN sorted : sorted[i].order = order
    THEN CHOOSE i \in DOMAIN sorted :
            /\ sorted[i].order = order
            /\ \A j \in 1 .. i - 1 : sorted[j].order # order
    ELSE 0
StepsAllowed(sorted, paths) ==
    /\ sorted # <<>>
    /\ \A i \in DOMAIN sorted :
          /\ sorted[i].paths \subseteq paths
          /\ \A d \in sorted[i].deps : NewOrder(sorted, d) \in 1 .. i - 1
Renumbered(sorted) ==
    [i \in DOMAIN sorted |->
        [order |-> i, deps |-> {NewOrder(sorted, d) : d \in sorted[i].deps},
         paths |-> sorted[i].paths]]

\* normalize_generated_plan; what it asks of the criteria and tests is `told'.
Touched(files) == UNION {ToSet(Ends(files[i])) : i \in DOMAIN files}
Accepted(draft) ==
    /\ draft.files # <<>> /\ draft.told
    /\ \A i \in DOMAIN draft.files : Allowed(draft.files[i])
    /\ Distinct(draft.files)
    /\ StepsAllowed(Sorted(draft.steps), Touched(draft.files))
\* _validate_dependency_paths: one that is neither there nor planned is kept, with
\* a warning.
Warned(draft) == draft.needs \ (Touched(draft.files) \cup OnDisk)
Highest(risks) == CHOOSE r \in risks : \A q \in risks : q <= r
OverallRisk(draft, files) == Highest({draft.risk} \cup {files[i].risk : i \in DOMAIN files})
Normalised(draft) ==
    LET files == [i \in DOMAIN draft.files |-> Normal(draft.files[i])]
    IN [files |-> files, steps |-> Renumbered(Sorted(draft.steps)),
        risk |-> OverallRisk(draft, files), needs |-> draft.needs, warned |-> Warned(draft),
        long |-> draft.long]

(* ------------------------------ attempts ------------------------------ *)

Changes == [op : Operations, path : PlanPaths, to : PlanPaths \cup {Nowhere}, risk : Risks]
Steps == [order : 1 .. 2, deps : SUBSET (1 .. 2), paths : SUBSET PlanPaths]

\* What the planning model writes: neither risks nor dependencies.
CompactDraft(draft) ==
    /\ draft.needs = {} /\ draft.risk = 1
    /\ \A i \in DOMAIN draft.files : draft.files[i].risk = 1
    /\ \A i \in DOMAIN draft.steps : draft.steps[i].deps = {}

Running == asking \in {"model", "fallback"}

\* create_normalized_change_plan: what follows an attempt that failed.
Retry ==
    asking' = IF asking = "fallback" THEN "failed"
              ELSE IF answers < MaxRepairs THEN "model" ELSE "fallback"

Accept(draft) ==
    /\ Accepted(draft)
    /\ plan' = Normalised(draft) /\ answers' = answers + 1
    /\ asking' = IF Running THEN "planned" ELSE "checked"
    /\ UNCHANGED <<present, indexed, moved, handed>>

\* The answer is a plan, or one that is refused, or no plan at all.
Answer(drafts) == Running /\ \E d \in drafts : CompactDraft(d) /\ Accept(d)
Refuse ==
    /\ Running /\ Retry /\ answers' = answers + 1
    /\ UNCHANGED <<present, indexed, moved, plan, handed>>

\* A configuration that is wrong, or a cancelled request, ends it at once.
GiveUp ==
    /\ Running /\ asking' = "failed" /\ answers' = answers + 1
    /\ UNCHANGED <<present, indexed, moved, plan, handed>>

\* validate_change_plan
Supply(drafts) ==
    /\ asking = "supplied"
    /\ \/ \E d \in drafts : Accept(d)
       \/ /\ asking' = "failed"
          /\ UNCHANGED <<present, indexed, answers, moved, plan, handed>>

(* ----------------------------- conversion ----------------------------- *)

\* _convert_file_changes_for_model: texts are not known yet, and empty.  The model
\* has no field for where a renamed file goes, nor for the steps of a plan.
Converted(c) ==
    [path |-> c.path, type |-> IF c.op = "update" THEN "modify" ELSE c.op,
     previous |-> IF c.op = "rename" THEN c.path ELSE Nowhere,
     old |-> c.op \in {"update", "delete"}, new |-> c.op \in {"create", "update", "rename"},
     risk |-> c.risk]

\* ProposedFileChange.validate_change_payload
ValidChange(m) ==
    CASE m.type = "create" -> m.new /\ ~m.old
      [] m.type = "modify" -> m.old /\ m.new
      [] m.type = "delete" -> m.old /\ ~m.new
      [] m.type = "rename" -> m.previous # Nowhere /\ m.new
      [] OTHER -> FALSE

\* to_change_plan_model: the warnings are the plan's, the dependencies its files'.
\* A plan the models of models.py do not take is lost: it is not asked for again.
Convert ==
    /\ asking = "planned"
    /\ LET changes == [i \in DOMAIN plan.files |-> Converted(plan.files[i])]
       IN IF ~plan.long /\ \A i \in DOMAIN changes : ValidChange(changes[i])
          THEN /\ handed' = [changes |-> changes, risk |-> plan.risk, needs |-> plan.needs,
                            warned |-> plan.warned]
               /\ asking' = "handed"
          ELSE asking' = "failed" /\ UNCHANGED handed
    /\ UNCHANGED <<present, indexed, answers, moved, plan>>

\* Somebody edits the repository meanwhile.
EditRepository ==
    /\ ~moved /\ moved' = TRUE
    /\ \E p \in PlanPaths :
          present' = IF p \in present THEN present \ {p} ELSE present \cup {p}
    /\ NoneInside(present')
    /\ UNCHANGED <<indexed, asking, answers, plan, handed>>

(* ----------------------------- properties ----------------------------- *)

\* Attempts: all repairs, then the fallback, once.
PlannerTypeOK ==
    /\ asking \in {"model", "fallback", "supplied", "planned", "checked", "handed", "failed"}
    /\ present \subseteq PlanPaths /\ NoneInside(present) /\ answers <= MaxRepairs + 2
    /\ asking = "fallback" => answers = MaxRepairs + 1

\* What a change makes of the files, and whether it can be made at all.
Effect(c, files) ==
    CASE c.op = "create" -> files \cup {c.path}
      [] c.op = "update" -> files
      [] c.op = "delete" -> files \ {c.path}
      [] c.op = "rename" -> (files \ {c.path}) \cup {c.to}
Placed(c) == CASE c.op = "create" -> {c.path} [] c.op = "rename" -> {c.to} [] OTHER -> {}
Possible(c, files) ==
    /\ (c.path \in files) = (c.op # "create")
    /\ \A p \in Placed(c) : /\ p \notin files \cup Folders(files)
                            /\ \A q \in files : <<p, q>> \notin Inside

\* The planner does not tell files from directories: it takes a change of a path
\* that is a directory, of one inside a file, and two changes one inside the other.
OfFiles(c, files) ==
    /\ c.op = "create" \/ c.path \notin Folders(files)
    /\ \A p \in Placed(c), q \in files : <<p, q>> \notin Inside
Disjoint(c, e) ==
    \A p \in ToSet(Ends(c)), q \in ToSet(Ends(e)) : <<p, q>> \notin Inside /\ <<q, p>> \notin Inside

\* Whatever moved on since the analysis, a plan that is accepted creates and moves to
\* what is not there and changes what is; and as far as its changes are of files, apart
\* from one another, they can be made in any order.
PlanIsPossible ==
    [][plan' # plan =>
        \A i \in DOMAIN plan'.files :
            LET c == plan'.files[i]
            IN /\ (c.path \in OnDisk) = (c.op # "create") /\ Placed(c) \cap OnDisk = {}
               /\ OfFiles(c, present) => Possible(c, present)
               /\ \A j \in DOMAIN plan'.files \ {i} :
                     LET e == plan'.files[j]
                     IN OfFiles(c, present) /\ OfFiles(e, present) /\ Disjoint(c, e) =>
                            Possible(c, Effect(e, present))]_plannerVars

\* Steps are numbered through, depend on earlier ones and speak of the plan's
\* files.
StepsInOrder ==
    \A i \in DOMAIN plan.steps :
        /\ plan.steps[i].order = i /\ plan.steps[i].deps \subseteq 1 .. i - 1
        /\ plan.steps[i].paths \subseteq Touched(plan.files)

\* No change is riskier than its plan, and a deletion is never a low risk.
RiskCovered ==
    \A i \in DOMAIN plan.files :
        /\ plan.files[i].risk <= plan.risk
        /\ plan.files[i].op = "delete" => plan.risk >= 2

\* A plan the model made is handed on unless its title is too long, with each change
\* of it at its place and of its kind and no less risk; and what a file of it depends
\* on was there or in the plan, unless it says that it is not.
PlanIsGiven ==
    /\ plan # NoPlan => \/ asking \in {"planned", "checked", "handed"}
                        \/ asking = "failed" /\ plan.long
    /\ asking = "handed" =>
          /\ Len(handed.changes) = Len(plan.files) /\ handed.risk = plan.risk
          /\ \A i \in DOMAIN plan.files :
                LET m == handed.changes[i]  c == plan.files[i]
                IN /\ m.path = c.path /\ m.risk = c.risk
                   /\ m.old = (c.op \in {"update", "delete"})
                   /\ m.type \in {"delete", "rename"} => m.type = c.op
    /\ moved \/ plan.needs \ plan.warned \subseteq OnDisk \cup Touched(plan.files)

\* A plan that is accepted can be carried out in its order, and says its risk.
PlansAreSound == []PlannerTypeOK /\ []StepsInOrder /\ []RiskCovered /\ []PlanIsGiven /\ PlanIsPossible
=============================================================================
