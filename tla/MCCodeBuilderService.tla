----------------------- MODULE MCCodeBuilderService -----------------------
(* Small instances of CodeBuilderService for TLC. *)
EXTENDS CodeBuilderService, TLC

\* Tasks that the pipeline executes, approved by hand.
PipelineRequests == {[auto_apply |-> FALSE, autonomous |-> FALSE]}

\* One of each: by hand through the pipeline, and autonomous at once.
MixedRequests == {[auto_apply |-> FALSE, autonomous |-> FALSE],
                  [auto_apply |-> TRUE, autonomous |-> TRUE]}

\* Threads and ids are interchangeable.
Interchangeable == Permutations(Workers) \cup Permutations(Tasks)
===========================================================================
