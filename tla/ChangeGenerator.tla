--------------------------- MODULE ChangeGenerator ---------------------------
(***************************************************************************)
(* OllamaChangeGenerator and the provider fallback of OllamaClient         *)
(* (code_builder_v2/ollama.py), with GenerationProgress (models.py).       *)
(*                                                                         *)
(* One call of generate(): a plan of three files or more is generated in   *)
(* batches, a smaller one at once.  Each batch is asked of the providers in *)
(* order, some of whose failures are tried again; an answer that is JSON    *)
(* but breaks the schema of a change set starts the round of providers      *)
(* anew.  A change is the path it is for; what prompts say is left out.     *)
(***************************************************************************)
EXTENDS Naturals, SequencesExt

CONSTANTS
    Providers,   \* the configured providers, in order of priority
    Metered,     \* those whose 429 and 5xx are told apart: Groq, and Hugging
                 \* Face if the response of its client's error is truthy
    Paths,       \* relative paths
    Plans,       \* plan.changes, in the order of sorted_changes
    BatchSizes,  \* request.batch_size
    Answers      \* the change sets a provider may answer with

ASSUME PlansAssumption ==
    /\ Providers \in Seq(Range(Providers))
    /\ Plans \subseteq Seq(Paths)
    /\ BatchSizes \subseteq Nat \ {0}
    /\ Answers \subseteq Seq(Paths)

MaxTries == 3       \* max_retries + 1
SchemaTries == 3    \* max_schema_retries + 1

\* How a request fails within a provider: 429; a 5xx; text that holds no JSON
\* object; anything else, an empty answer included.
Failure == {"limited", "broken", "garbled", "refused"}

VARIABLES
    plan, batchSize,
    index,      \* progress.current_file_index
    produced,   \* all_changes
    limited,    \* progress.rate_limited_providers
    attempt,    \* how often the schema was broken
    turn,       \* position of the provider that is asked
    tries,      \* how often this provider failed in a way it tries again
    status,
    asked,      \* history: requests for this batch that got no change set
    obeyed      \* history: every answer was a beginning of its batch

vars == <<plan, batchSize, index, produced, limited, attempt, turn, tries,
          status, asked, obeyed>>

\* Without progress (a small plan) rate limits are not remembered.
Incremental == Len(plan) >= 3

\* get_next_batch(); the fast path asks for the whole plan.
Batch ==
    IF ~Incremental THEN plan
    ELSE SubSeq(plan, index + 1,
                IF index + batchSize <= Len(plan) THEN index + batchSize
                ELSE Len(plan))

Init ==
    /\ plan \in Plans
    /\ batchSize \in BatchSizes
    /\ index = 0
    /\ produced = <<>>
    /\ limited = {}
    /\ attempt = 0 /\ turn = 1 /\ tries = 0
    /\ status = "asking"
    /\ asked = 0
    /\ obeyed = TRUE

----------------------------------------------------------------------------
(* generate_json and the loops within the providers.                       *)

Asking == status = "asking" /\ turn <= Len(Providers)

\* A provider that hit its limit in an earlier batch or round is passed over.
Skipped == Incremental /\ Providers[turn] \in limited

Request == Asking /\ ~Skipped /\ asked' = asked + 1

\* What a provider tries again itself.
Retried(p) == IF p \in Metered THEN {"limited", "broken", "garbled"}
                               ELSE {"garbled"}

Skip ==
    /\ Asking /\ Skipped
    /\ turn' = turn + 1
    /\ UNCHANGED <<plan, batchSize, index, produced, limited, attempt, tries,
                   status, asked, obeyed>>

TryAgain(f) ==
    /\ Request
    /\ f \in Retried(Providers[turn]) /\ tries + 1 < MaxTries
    /\ tries' = tries + 1
    /\ UNCHANGED <<plan, batchSize, index, produced, limited, attempt, turn,
                   status, obeyed>>

\* Mutant: only the last limit is remembered.
GiveUpForgets(f) ==
    /\ Request
    /\ f \in Retried(Providers[turn]) => tries + 1 >= MaxTries
    /\ limited' = IF Incremental /\ f = "limited" /\ Providers[turn] \in Metered
                  THEN {Providers[turn]} ELSE limited
    /\ turn' = turn + 1 /\ tries' = 0
    /\ UNCHANGED <<plan, batchSize, index, produced, attempt, status, obeyed>>

\* The provider raises, and the next one is asked; a rate limit is remembered
\* for the rest of the generation.
GiveUp(f) ==
    /\ Request
    /\ f \in Retried(Providers[turn]) => tries + 1 >= MaxTries
    /\ limited' = IF Incremental /\ f = "limited" /\ Providers[turn] \in Metered
                  THEN limited \cup {Providers[turn]} ELSE limited
    /\ turn' = turn + 1 /\ tries' = 0
    /\ UNCHANGED <<plan, batchSize, index, produced, attempt, status, obeyed>>

\* All providers failed, or none is configured: generate() raises.
OutOfProviders ==
    /\ status = "asking" /\ turn > Len(Providers)
    /\ status' = "failed"
    /\ UNCHANGED <<plan, batchSize, index, produced, limited, attempt, turn,
                   tries, asked, obeyed>>

----------------------------------------------------------------------------
(* The loops of _generate_fast_path and _generate_incremental.             *)

\* A round of the providers begins.
Restarted == turn' = 1 /\ tries' = 0

\* The answer breaks the schema ("modify" for an operation does, though the
\* prompt asks for it): asked again with the error, and in the end raised.
BreakSchema ==
    /\ Request
    /\ \/ /\ attempt + 1 < SchemaTries
          /\ attempt' = attempt + 1
          /\ Restarted
          /\ UNCHANGED status
       \/ /\ attempt + 1 >= SchemaTries
          /\ status' = "failed"
          /\ UNCHANGED <<attempt, turn, tries>>
    /\ UNCHANGED <<plan, batchSize, index, produced, limited, obeyed>>

\* Mutants: progress counts what was asked for, not what came; an answer
\* without any change is taken.
AnswerCountsBatch(files) ==
    /\ Asking /\ ~Skipped /\ files # <<>>
    /\ produced' = produced \o files
    /\ obeyed' = (obeyed /\ IsPrefix(files, Batch))
    /\ index' = index + Len(Batch)
    /\ status' = IF Incremental /\ index' < Len(plan) THEN status ELSE "returned"
    /\ attempt' = 0 /\ asked' = 0 /\ Restarted
    /\ UNCHANGED <<plan, batchSize, limited>>

AnswerMaybeEmpty(files) ==
    /\ Asking /\ ~Skipped
    /\ \E some \in {files, <<>>} :
           /\ produced' = produced \o some
           /\ obeyed' = (obeyed /\ IsPrefix(some, Batch))
           /\ index' = index + Len(some)
    /\ status' = IF Incremental /\ index' < Len(plan) THEN status ELSE "returned"
    /\ attempt' = 0 /\ asked' = 0 /\ Restarted
    /\ UNCHANGED <<plan, batchSize, limited>>

\* A change set, which is never empty.  mark_batch_completed counts the files
\* that came, whichever they are; on the fast path the first answer is the
\* result.
Answer(files) ==
    /\ Asking /\ ~Skipped /\ files # <<>>
    /\ produced' = produced \o files
    /\ obeyed' = (obeyed /\ IsPrefix(files, Batch))
    /\ index' = index + Len(files)
    /\ status' = IF Incremental /\ index' < Len(plan) THEN status ELSE "returned"
    /\ attempt' = 0 /\ asked' = 0 /\ Restarted
    /\ UNCHANGED <<plan, batchSize, limited>>

----------------------------------------------------------------------------

Next ==
    \/ Skip \/ OutOfProviders \/ BreakSchema
    \/ \E f \in Failure : TryAgain(f) \/ GiveUp(f)
    \/ \E files \in Answers : Answer(files)

Spec == Init /\ [][Next]_vars

----------------------------------------------------------------------------
(* Properties.                                                             *)

\* Type invariant.
TypeOK ==
    /\ plan \in Plans
    /\ batchSize \in BatchSizes
    /\ index \in Nat
    /\ produced \in Seq(Paths)
    /\ limited \subseteq Metered
    /\ attempt \in 0 .. SchemaTries - 1
    /\ turn \in 1 .. Len(Providers) + 1
    /\ tries \in 0 .. MaxTries - 1
    /\ status \in {"asking", "returned", "failed"}
    /\ asked \in Nat
    /\ obeyed \in BOOLEAN

\* However failures of the three loops (tries of a provider, providers,
\* repairs of the schema) are mixed, no batch makes more requests than their
\* product.
RequestsBounded ==
    LET most == SchemaTries * Len(Providers) * MaxTries
    IN  asked <= most /\ (Asking => asked < most)

\* Providers that leave off the end of a batch, but otherwise do as they are
\* told, give the plan in the end: the files left off are asked for again,
\* none is asked for twice, and a small plan gets at most a beginning of it.
PlanFollowed ==
    obeyed => /\ IsPrefix(produced, plan)
              /\ status = "returned" /\ Incremental => produced = plan

\* An incremental generation never returns too little: if a planned file is
\* missing, some answer held a file that was not planned or came twice, which
\* the transaction check can see.
ReturnedIsWhole ==
    status = "returned" /\ Incremental
    /\ IsInjective(produced) /\ Range(produced) \subseteq Range(plan)
        => Range(produced) = Range(plan)

\* A provider that reached its rate limit while some batch was generated is
\* left alone in that batch and in all later ones.
LimitedLeftAlone ==
    [][/\ limited \subseteq limited'
       /\ asked' > asked \/ produced' # produced =>
              Providers[turn] \notin limited]_vars

\* Both: providers are asked no more than the limits of the loops and their own
\* rate limits allow.
ProvidersSpared == []RequestsBounded /\ LimitedLeftAlone

\* What is returned is the plan, as far as the providers did as they were told.
PlanGenerated == PlanFollowed /\ ReturnedIsWhole
=============================================================================
