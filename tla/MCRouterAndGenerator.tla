------------------------ MODULE MCRouterAndGenerator ------------------------
(***************************************************************************)
(* Small instances of TaskRouter and ChangeGenerator for TLC.  They share  *)
(* nothing and are looked at one at a time.                                *)
(***************************************************************************)
EXTENDS TaskRouter, ChangeGenerator, TLC

CONSTANTS groq, huggingface, ollama, p1, p2, p3, p4

VARIABLE live       \* the one that is looked at: "router" or "generator"

ThreeProviders == <<groq, huggingface, ollama>>

\* A plan for the fast path, and one that is generated in batches.
SmallAndLarge == {<<p1, p2>>, <<p1, p2, p3>>}

\* One file or two, planned or not.
OneOrTwo == {<<p>> : p \in Paths} \cup {<<p, q>> : p \in Paths, q \in Paths}

allVars == <<live, routerVars, vars>>
OneInit ==
    /\ live \in {"router", "generator"} /\ RouterInit /\ Init
    /\ live = "router" => plan = <<p1, p2>> /\ batchSize = 1
RouterMoves == live = "router" /\ RouterNext /\ UNCHANGED <<live, vars>>
GeneratorMoves == live = "generator" /\ Next /\ UNCHANGED <<live, routerVars>>
OneNext == RouterMoves \/ GeneratorMoves

\* What goes on by itself in the one that is looked at: every request to a
\* provider has a timeout and every wait an end; the threads of the router, and
\* the second halves of its handlers, need nobody.
OneSpec ==
    /\ OneInit /\ [][OneNext]_allVars
    /\ WF_allVars(GeneratorMoves)
    /\ \A r \in Runs : WF_allVars(live = "router" /\ Thread(r) /\ UNCHANGED <<live, vars>>)
    /\ \A t \in Tasks : WF_allVars(live = "router" /\ EndRollback(t) /\ UNCHANGED <<live, vars>>)
    /\ WF_allVars(live = "router" /\ CommitKey /\ UNCHANGED <<live, vars>>)

\* A generation ends, with a change set or with an error.
GenerationEnds == <>(live = "generator" => status # "asking")
=============================================================================
