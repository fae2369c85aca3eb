---------------------- MODULE ChangePipelineRefinement ----------------------
(***************************************************************************)
(* ChangePipeline implements AtomicTransaction as long as runs come one    *)
(* after the other.  While a run is active the repository counts as what   *)
(* it was when the run, or its rollback, began; its outcome decides what   *)
(* becomes visible at once.                                                *)
(***************************************************************************)
EXTENDS ChangePipeline

PhaseOf(label) ==
    CASE label = "new" -> "new"
      [] label \in Active \ {"undo_done"} -> "open"
      [] label = "done" -> "committed"
      [] label = "failed" -> "aborted"
      [] label = "undo_done" -> "undoing"
      [] label = "rolled_back" -> "undone"
      [] label = "damaged" -> "broken"
      [] label = "half_undone" -> "half_undone"

Atomic == INSTANCE AtomicTransaction WITH
    Contents <- Contents \cup {Absent},
    Garbage <- {Torn},
    repo <- IF Idle THEN repo ELSE base,
    phase <- [r \in Runs |-> PhaseOf(pc[r])],
    scope <- [r \in Runs |-> PathsOf(plan[r])],
    pre <- before

\* The pipeline is all or nothing: every behaviour of it, failures, crashes
\* and rollbacks included, is one of AtomicTransaction.
AllOrNothing == Atomic!Spec
=============================================================================
