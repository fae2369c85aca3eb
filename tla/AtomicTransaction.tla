------------------------- MODULE AtomicTransaction -------------------------
(***************************************************************************)
(* What Code Builder V2 promises about a repository: a task changes the    *)
(* files of its plan all at once or not at all, and a completed task can   *)
(* be undone.  The one exception is a transaction that could not be        *)
(* finished (the process died, or putting the backup back failed): it may  *)
(* leave anything, but only at the paths of its plan.  What the task's own *)
(* validation commands make at their products is no part of the promise.   *)
(***************************************************************************)
CONSTANTS
    Runs,           \* the transactions
    Paths,
    Contents,       \* what a file of a committed transaction may be
    Garbage,        \* what an unfinished one may leave instead
    Products        \* the paths a transaction's commands may write

VARIABLES
    repo,           \* the repository as seen between transactions
    phase,          \* where each transaction is
    scope,          \* the paths of its plan
    pre             \* the repository when it began

vars == <<repo, phase, scope, pre>>

Phases == {"new", "open", "committed", "aborted", "undoing", "undone",
           "broken", "half_undone"}

Quiet == \A r \in Runs : phase[r] \notin {"open", "undoing"}

Init ==
    /\ repo \in [Paths -> Contents]
    /\ phase = [r \in Runs |-> "new"]
    /\ scope = [r \in Runs |-> {}]
    /\ pre = [r \in Runs |-> repo]

Goto(r, label) == phase' = [phase EXCEPT ![r] = label]

\* The paths of `whole' may get a new content, those of `free' anything, and
\* the others keep theirs.
Changes(whole, free) ==
    /\ repo' \in [Paths -> Contents \cup Garbage]
    /\ \A p \in Paths \ free :
           IF p \in whole THEN repo'[p] \in Contents ELSE repo'[p] = repo[p]

Begin(r) ==
    /\ phase[r] = "new" /\ Quiet
    /\ \E S \in SUBSET Paths : scope' = [scope EXCEPT ![r] = S]
    /\ pre' = [pre EXCEPT ![r] = repo]
    /\ Goto(r, "open")
    /\ UNCHANGED repo

Commit(r) ==
    /\ phase[r] = "open"
    /\ Changes(scope[r], Products)
    /\ Goto(r, "committed")
    /\ UNCHANGED <<scope, pre>>

Abort(r) ==
    /\ phase[r] = "open"
    /\ Changes({}, Products \ scope[r])
    /\ Goto(r, "aborted")
    /\ UNCHANGED <<scope, pre>>

BeginUndo(r) ==
    /\ phase[r] \in {"committed", "undone", "half_undone"} /\ Quiet
    /\ Goto(r, "undoing")
    /\ UNCHANGED <<repo, scope, pre>>

Undo(r) ==
    /\ phase[r] = "undoing"
    /\ repo' = [p \in Paths |-> IF p \in scope[r] THEN pre[r][p] ELSE repo[p]]
    /\ Goto(r, "undone")
    /\ UNCHANGED <<scope, pre>>

\* The transaction, or the undoing, is cut off.
Break(r) ==
    /\ \/ /\ phase[r] = "open" /\ Goto(r, "broken")
          /\ Changes({}, scope[r] \cup Products)
       \/ /\ phase[r] = "undoing" /\ Goto(r, "half_undone")
          /\ Changes({}, scope[r])
    /\ UNCHANGED <<scope, pre>>

Next == \E r \in Runs :
            \/ Begin(r) \/ Commit(r) \/ Abort(r)
            \/ BeginUndo(r) \/ Undo(r) \/ Break(r)

Spec == Init /\ [][Next]_vars
=============================================================================
