---------------------------- MODULE ImageProviders ----------------------------
(***************************************************************************)
(* ProviderManager (providers/manager.py): which provider makes an image.  *)
(* A request asks the configured providers that can do what it wants one   *)
(* after the other, each some times; a provider that failed for a reason   *)
(* that passes is left alone for a while by the requests that come later.  *)
(* The times until then are shared by all requests; the list of providers  *)
(* a request goes through is made when it comes and never again.           *)
(***************************************************************************)
EXTENDS MediaJobs, FiniteSets

CONSTANTS
    Providers, Position,    \* those of the registry, and the place of each in the order
    Direct,                 \* "flux": asked without the manager if named
    ImageRequests,
    MaxPerProvider,         \* IMAGE_PROVIDER_MAX_ATTEMPTS_PER_PROVIDER
    DefaultCooldown,        \* IMAGE_PROVIDER_COOLDOWN_SECONDS
    RetryAfter,             \* waits that a provider asks for
    MaxClock                \* bound on time
ASSUME ImageProvidersAssumption ==
    /\ MaxPerProvider \in Nat \ {0} /\ DefaultCooldown \in Nat /\ MaxClock \in Nat
    /\ RetryAfter \subseteq Nat \ {0} /\ Direct \in Providers /\ IsFiniteSet(ImageRequests)
    /\ "" \notin Providers /\ Position \in [Providers -> Nat \ {0}]
    /\ \A p, q \in Providers : Position[p] = Position[q] => p = q

\* ProviderError as the manager reads it: the same provider may be asked again, or
\* another one at once, or nobody is to be asked; and how long this one is to be left
\* alone (0: it does not say).  An error that is retryable is one to fail over.
Errors ==
    [sort : {"again", "next"}, after : RetryAfter \cup {0}] \cup [sort : {"fatal"}, after : {0}]
\* An answer without images, and an exception that is no ProviderError.
NoImages == [sort |-> "again", after |-> 0]
Unexpected == [sort |-> "unexpected", after |-> 0]

VARIABLES
    able,           \* configured providers that can do what is asked for
    autoFallback,   \* IMAGE_PROVIDER_AUTO_FALLBACK
    clock,
    cooldown,       \* _cooldowns
    served,         \* usage: of every provider
    routing,        \* the requests
    demanded,       \* history: the longest wait that followed from a failure
    resting         \* history: of every request, the providers to be left alone when
                    \* it came that have not failed since

history == <<demanded, resting>>
routingVars == <<able, autoFallback, clock, cooldown, served, routing, history>>

Nobody == ""
NotAsked == [at |-> "idle"]
Abandoned == [at |-> "abandoned"]
RoutingInit ==
    /\ able \in SUBSET Providers /\ autoFallback \in BOOLEAN
    /\ clock = 0 /\ cooldown = [p \in Providers |-> 0] /\ demanded = cooldown
    /\ served = [p \in Providers |-> 0]
    /\ routing = [r \in ImageRequests |-> NotAsked] /\ resting = [r \in ImageRequests |-> {}]

\* _order_names: of the candidates that are left the first one is next, after the one
\* that is named.
FirstOf(left) == CHOOSE p \in left : \A q \in left : Position[p] <= Position[q]

\* Mutant: the cooldowns are not looked at.
CandidatesHotOrCold == able

\* _candidates: _cooldown_until drops a time that is over.
Candidates == {p \in able : cooldown[p] <= clock}

NoFailures == [p \in Providers |-> 0]

\* A request that is to go through the candidates, or that nobody can do.
Begun(named, candidates, direct) ==
    IF candidates = {}
    THEN [at |-> "failed", outcome |-> "unsupported", candidates |-> {}, direct |-> direct,
          attempted |-> {}, sorts |-> {}]
    ELSE [at |-> "asking", outcome |-> "none", candidates |-> candidates, direct |-> direct,
          provider |-> FirstOf(IF named \in candidates THEN {named} ELSE candidates),
          attempt |-> 1, attempted |-> {}, failures |-> NoFailures, sorts |-> {}]
Come(r, request) ==
    /\ routing[r] = NotAsked
    /\ routing' = [routing EXCEPT ![r] = request]
    /\ resting' = [resting EXCEPT ![r] = {p \in Providers : demanded[p] > clock}]
    /\ UNCHANGED <<able, autoFallback, clock, cooldown, served, demanded>>

\* _route begins; of an edit the provider named may be flux too.
AskForImages(r) ==
    \E named \in Providers \cup {Nobody} : Come(r, Begun(named, Candidates, FALSE))

\* generate_result: a request that names flux asks it alone, resting or not, if it
\* can do what is wanted.
AskDirectly(r) ==
    \E candidates \in {{}, {Direct}} : Come(r, Begun(Direct, candidates, TRUE))

\* The call leaves for the provider.
AskProvider(r) ==
    /\ routing[r].at = "asking"
    /\ routing' = [routing EXCEPT ![r].at = "waiting", ![r].attempted = @ \cup {routing[r].provider}]
    /\ UNCHANGED <<able, autoFallback, clock, cooldown, served, history>>

\* Images come back; flux refuses when it is not configured.
Deliver(r) ==
    /\ routing[r].at = "waiting" /\ routing[r].provider \in able
    /\ routing' = [routing EXCEPT ![r].at = "done", ![r].outcome = "images"]
    /\ served' = [served EXCEPT ![routing[r].provider] = @ + 1]
    /\ UNCHANGED <<able, autoFallback, clock, cooldown, history>>

\* _mark_failure: a later failure may shorten the time.
MarkFailure(p, error) ==
    LET until == clock + (IF error.after > 0 THEN error.after ELSE DefaultCooldown)
    IN IF error.sort # "fatal"
       THEN /\ cooldown' = [cooldown EXCEPT ![p] = until]
            /\ demanded' = [demanded EXCEPT ![p] = IF until > @ THEN until ELSE @]
            /\ resting' = [r \in ImageRequests |-> resting[r] \ {p}]
       ELSE UNCHANGED <<cooldown, history>>

\* failures: how many of every provider, and whether they were of a special sort: an
\* exception nobody expected is one when there is to be no fallback.
Special == IF autoFallback THEN {"fatal"} ELSE {"fatal", "unexpected"}
Noted(r, error) ==
    [routing[r] EXCEPT !.failures[routing[r].provider] = @ + 1,
                     !.sorts = @ \cup ({error.sort} \cap Special)]
Over(noted, outcome) == [noted EXCEPT !.at = "failed", !.outcome = outcome]
Again(noted, at) == [noted EXCEPT !.at = at, !.attempt = @ + 1]
\* The next candidate, or the failure of all.
Left(noted) == noted.candidates \ noted.attempted
Onward(noted) ==
    IF Left(noted) = {} THEN Over(noted, "unavailable")
    ELSE [noted EXCEPT !.at = "asking", !.provider = FirstOf(Left(noted)), !.attempt = 1]

\* A ProviderError, or an answer without images.
AfterFailure(noted, error) ==
    IF error.sort = "again" /\ noted.attempt < MaxPerProvider THEN Again(noted, "sleeping")
    ELSE IF ~autoFallback \/ error.sort = "fatal" THEN Over(noted, "raised")
    ELSE Onward(noted)
ProviderFails(r) ==
    /\ routing[r].at = "waiting" /\ ~routing[r].direct
    /\ \E error \in Errors \cup {NoImages} :
          /\ MarkFailure(routing[r].provider, error)
          /\ routing' = [routing EXCEPT ![r] = AfterFailure(Noted(r, error), error)]
    /\ UNCHANGED <<able, autoFallback, clock, served>>

\* Any other exception: the same provider is asked again at once, and if there is
\* to be no fallback the next one is asked all the same.
AfterBreak(noted) ==
    IF autoFallback /\ Left(noted) # {} /\ noted.attempt < MaxPerProvider
    THEN Again(noted, "asking") ELSE Onward(noted)
ProviderBreaks(r) ==
    /\ routing[r].at = "waiting" /\ ~routing[r].direct
    /\ MarkFailure(routing[r].provider, Unexpected)
    /\ routing' = [routing EXCEPT ![r] = AfterBreak(Noted(r, Unexpected))]
    /\ UNCHANGED <<able, autoFallback, clock, served>>

\* What is asked directly fails at once, and nobody is told.
DirectFails(r) ==
    /\ routing[r].at = "waiting" /\ routing[r].direct
    /\ routing' = [routing EXCEPT ![r] = Over(@, "raised")]
    /\ UNCHANGED <<able, autoFallback, clock, cooldown, served, history>>

Wake(r) ==
    /\ routing[r].at = "sleeping"
    /\ routing' = [routing EXCEPT ![r].at = "asking"]
    /\ UNCHANGED <<able, autoFallback, clock, cooldown, served, history>>

\* The job of the request is cancelled.
Abandon(r) ==
    /\ routing[r].at \in {"waiting", "sleeping"}
    /\ routing' = [routing EXCEPT ![r] = Abandoned]
    /\ UNCHANGED <<able, autoFallback, clock, cooldown, served, history>>

Tick ==
    /\ clock < MaxClock /\ clock' = clock + 1
    /\ UNCHANGED <<able, autoFallback, cooldown, served, routing, history>>

\* A provider answers in the end: every one has a timeout of its own.
RoutingStep(r) ==
    \/ AskProvider(r)
    \/ Deliver(r)
    \/ ProviderFails(r)
    \/ ProviderBreaks(r)
    \/ DirectFails(r)
    \/ Wake(r)
RoutingNext ==
    \/ \E r \in ImageRequests :
          \/ AskForImages(r)
          \/ AskDirectly(r)
          \/ RoutingStep(r)
          \/ Abandon(r)
    \/ Tick
RoutingSpec == RoutingInit /\ [][RoutingNext]_routingVars

(* ----------------------------- properties ----------------------------- *)

\* A provider that was to be left alone when a request came, and has not failed since,
\* is not asked by it until the longest wait that followed from its failures is over:
\* unless a later failure of it asked for a shorter wait.
RestRespected ==
    [][\A r \in ImageRequests :
        routing[r].at = "asking" /\ routing'[r].at = "waiting" /\ ~routing[r].direct =>
            LET p == routing[r].provider
            IN p \in resting[r] => demanded[p] <= clock \/ cooldown[p] < demanded[p]]_routingVars

Ended == {"done", "failed", "abandoned"}
\* The request was made and the case is `at'.
Is(r, at) == routing[r].at = at
ServedBy(p) == {r \in ImageRequests : Is(r, "done") /\ routing[r].provider = p}
\* Images are told to be of the provider that made them, and are counted once;
\* those asked before it failed, each as often as it may be asked.
ImagesAreOwn ==
    /\ \A r \in ImageRequests :
          Is(r, "done") =>
              LET p == routing[r].provider
              IN /\ p \in routing[r].attempted /\ p \in able
                 /\ \A q \in routing[r].attempted \ {p} :
                       routing[r].failures[q] \in 1 .. MaxPerProvider
                 /\ routing[r].failures[p] < MaxPerProvider
    /\ \A p \in Providers : served[p] = Cardinality(ServedBy(p))

\* A request fails only when all of its candidates have failed, when an error says
\* that no other will do better, or when there is to be no fallback; then another
\* provider is asked only after an exception nobody expected.
FailsForAReason ==
    \A r \in {q \in ImageRequests : routing[q] \notin {NotAsked, Abandoned}} : ~routing[r].direct =>
        /\ Is(r, "failed") =>
              \/ routing[r].outcome = "unsupported" /\ routing[r].candidates = {}
              \/ routing[r].outcome = "raised" /\ ("fatal" \in routing[r].sorts \/ ~autoFallback)
              \/ routing[r].candidates # {} /\ \A p \in routing[r].candidates :
                     routing[r].failures[p] \in 1 .. MaxPerProvider
        /\ "fatal" \in routing[r].sorts => Is(r, "failed")
        /\ ~autoFallback /\ routing[r].attempted # {} =>
              "unexpected" \in routing[r].sorts \/ Cardinality(routing[r].attempted) = 1

\* Every request comes to an end.
RoutingIsSettled == \A r \in ImageRequests : ~Is(r, "idle") => routing[r].at \in Ended

RoutingIsTrue == RestRespected /\ [](ImagesAreOwn /\ FailsForAReason)

\* What is told of a media job, and of the provider that made its images, is so.
MediaIsTrue == []JobsTellTheTruth /\ RoutingIsTrue
=============================================================================
