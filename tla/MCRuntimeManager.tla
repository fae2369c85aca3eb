-------------------------- MODULE MCRuntimeManager --------------------------
(* Small instances of RuntimeManager for TLC. *)
EXTENDS RuntimeManager, TLC

\* Job ids are interchangeable.
Interchangeable == Permutations(Jobs)
=============================================================================
