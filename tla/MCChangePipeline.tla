------------------------- MODULE MCChangePipeline -------------------------
(* Small instances of ChangePipeline for TLC. *)
EXTENDS ChangePipelineRefinement, TLC

\* Plans of one change.
Singles == {{c} : c \in PlannedChange}
Writes == {{c} : c \in {d \in PlannedChange : d.operation # "delete"}}
HandWrites == {P \in Writes : PathsOf(P) \cap Products = {}}
Pairs == {{c, d} : c, d \in PlannedChange}
\* Two different operations, on two paths or, contradicting, on one.
MixedPlans ==
    {P \in Pairs : \A c, d \in P : c # d => c.operation # d.operation}
        \ Singles

\* The proposals that answer such plans, rightly or not: one change or two,
\* the same path twice included, with content or without.
Answer(c) ==
    IF c.operation = "delete"
      THEN {[path |-> c.path, operation |-> "delete", content |-> NoContent]}
      ELSE {[path |-> c.path, content |-> v,
             operation |-> IF c.operation = "modify" THEN "update"
                                                     ELSE "create"] :
               v \in Contents \cup {NoContent}}

Answers == UNION {Answer(c) : c \in PlannedChange}
SimpleProposals == {{a, b} : a, b \in Answers}

\* Runs and contents are interchangeable; paths are not, one is a product.
Interchangeable == Permutations(Runs) \cup Permutations(Contents)
===========================================================================
