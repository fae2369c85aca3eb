----------------------------- MODULE OllamaClient -----------------------------
(***************************************************************************)
(* OllamaService of version 1 (ollama_service.py): calls from threads that *)
(* each run a fresh event loop, over one HTTP client per loop.  A call is  *)
(* one or two requests; one to the model is retried when the failure may   *)
(* pass.  Calls may be cancelled, and the service closed under them.       *)
(***************************************************************************)
EXTENDS Naturals, Sequences, FiniteSets

CONSTANTS
    CallThreads,
    LoopIds,        \* id() of an event loop: free again when the loop is gone
    MaxLoops,       \* bound on loops
    MaxRetries      \* maximum_retries
ASSUME OllamaClientAssumption ==
    MaxLoops \in Nat /\ MaxRetries \in Nat /\ LoopIds # {}

NoLoop == [id |-> "none", number |-> 0]
NoCall == [todo |-> <<>>, stage |-> "none", left |-> 0, client |-> 0,
           sent |-> <<>>]

VARIABLES
    loop,           \* of each thread: its id and number, loops being numbered
    loops,          \* how many there have been
    clients,        \* _loop_clients: of each id, the number of its client's loop
    call,           \* of each thread: its call, and history: what it has sent
    closing,        \* the service: "open", "closed" (the flag), "cleared"
    late            \* history: a call was under way at the close

clientVars == <<loop, loops, clients, call, closing, late>>

ClientInit ==
    /\ loop = [t \in CallThreads |-> NoLoop] /\ loops = 0
    /\ clients = [i \in LoopIds |-> 0]
    /\ call = [t \in CallThreads |-> NoCall]
    /\ closing = "open" /\ late = FALSE

\* check_connection, list_models, and generate or chat, which may first ask for
\* the list of models.
Calls == {<<"version">>, <<"version", "tags">>, <<"tags">>, <<"generate">>,
          <<"tags", "generate">>}

\* Only what is sent to the model is retried.
Tries(endpoint) == IF endpoint = "generate" THEN MaxRetries ELSE 0

Stage(t) == call[t].stage
SetStage(t, s) == call' = [call EXCEPT ![t].stage = s]

\* asyncio.run: a loop with an id that no living one has.
StartLoop(t) ==
    /\ loop[t] = NoLoop /\ loops < MaxLoops /\ loops' = loops + 1
    /\ \E i \in LoopIds \ {loop[u].id : u \in CallThreads} :
          loop' = [loop EXCEPT ![t] = [id |-> i, number |-> loops + 1]]
    /\ UNCHANGED <<clients, call, closing, late>>
EndLoop(t) ==
    /\ loop[t] # NoLoop /\ Stage(t) = "none"
    /\ loop' = [loop EXCEPT ![t] = NoLoop]
    /\ UNCHANGED <<loops, clients, call, closing, late>>

\* _ensure_open.  Nothing in the program injects a client of its own, so
\* that branch of _client_for_current_loop and of close is left out.
Open(t) ==
    /\ loop[t] # NoLoop /\ Stage(t) = "none" /\ closing = "open"
    /\ \E todo \in Calls :
          call' = [call EXCEPT ![t] = [NoCall EXCEPT
                      !.todo = todo, !.stage = "send", !.left = Tries(todo[1])]]
    /\ UNCHANGED <<loop, loops, clients, closing, late>>

KeyOf(t) == loop[t].id

\* _client_for_current_loop, and the request.
Send(t) ==
    /\ Stage(t) = "send"
    /\ clients' = [clients EXCEPT ![KeyOf(t)] = IF @ = 0 THEN loop[t].number ELSE @]
    /\ call' = [call EXCEPT ![t].stage = "await", ![t].client = clients'[KeyOf(t)],
                            ![t].sent = Append(@, call[t].todo[1])]
    /\ UNCHANGED <<loop, loops, closing, late>>

End(t) ==
    /\ call' = [call EXCEPT ![t] = NoCall]
    /\ UNCHANGED <<loop, loops, clients, closing, late>>

\* Mutant: only the first request of a call asks whether the service is open.
AnsweredUnchecked(t) ==
    /\ Stage(t) = "await"
    /\ LET rest == Tail(call[t].todo)
       IN IF rest = <<>> THEN End(t)
          ELSE /\ call' = [call EXCEPT ![t].todo = rest, ![t].stage = "send",
                                       ![t].left = Tries(rest[1])]
               /\ UNCHANGED <<loop, loops, clients, closing, late>>

\* A whole answer: the call goes on with its next request, which a service that
\* has been closed refuses.
Answered(t) ==
    /\ Stage(t) = "await"
    /\ LET rest == Tail(call[t].todo)
       IN IF rest = <<>> THEN End(t)
          ELSE IF closing # "open" THEN End(t)
          ELSE /\ call' = [call EXCEPT ![t].todo = rest, ![t].stage = "send",
                                       ![t].left = Tries(rest[1])]
               /\ UNCHANGED <<loop, loops, clients, closing, late>>

\* An unsuccessful status, too much, no JSON object, an incomplete answer, or a
\* model that is not on the list, or a failure with no retry left: the call ends
\* with an error.
Unusable(t) == Stage(t) = "await" /\ End(t)

\* A transient status, a timeout or a failed connection, with retries left.
RetryLater(t) ==
    /\ Stage(t) = "await" /\ call[t].left > 0
    /\ call' = [call EXCEPT ![t].stage = "sleep", ![t].left = @ - 1]
    /\ UNCHANGED <<loop, loops, clients, closing, late>>

Wake(t) ==
    /\ Stage(t) = "sleep"
    /\ SetStage(t, "send")
    /\ UNCHANGED <<loop, loops, clients, closing, late>>

\* A cancelled call is not retried, wherever it is.
CancelCall(t) == Stage(t) \in {"await", "sleep"} /\ End(t)

\* close: the flag first, then the clients.
Close ==
    /\ closing = "open" /\ closing' = "closed"
    /\ late' = \E t \in CallThreads : Stage(t) # "none"
    /\ UNCHANGED <<loop, loops, clients, call>>
ClearClients ==
    /\ closing = "closed" /\ closing' = "cleared"
    /\ clients' = [i \in LoopIds |-> 0]
    /\ UNCHANGED <<loop, loops, call, late>>

ClientStep(t) ==
    Send(t) \/ Answered(t) \/ Unusable(t) \/ RetryLater(t) \/ Wake(t)
ClientNext ==
    \/ \E t \in CallThreads :
          \/ StartLoop(t)
          \/ EndLoop(t)
          \/ Open(t)
          \/ ClientStep(t)
          \/ CancelCall(t)
    \/ Close
    \/ ClearClients

\* Every await ends: timeouts are always set.
ClientSpec == ClientInit /\ [][ClientNext]_clientVars

(* ----------------------------- properties ----------------------------- *)

\* Whatever ids loops are given: a request is never sent with the client of
\* another thread's living loop.
ClientOfNoOther ==
    \A t, u \in CallThreads :
        t # u /\ Stage(t) = "await" /\ loop[u] # NoLoop => call[t].client # loop[u].number

\* A service that was closed at rest keeps no client.
ClosedKeepsNoClient == closing = "cleared" /\ ~late => \A i \in LoopIds : clients[i] = 0

\* However requests fail: a call sends at most two kinds of request, a check of
\* the service each at most once, and a model is asked no more often than it may
\* be.
SendsBounded ==
    \A t \in CallThreads :
        LET times(e) == Cardinality({n \in DOMAIN call[t].sent : call[t].sent[n] = e})
        IN /\ times("version") + times("tags") <= 2
           /\ times("version") <= 1 /\ times("tags") <= 1
           /\ times("generate") <= MaxRetries + 1

\* Whatever is answered: a call ends.
CallIsOver(t) == Stage(t) = "none"

\* A closed service begins no request: only one that had begun may go on.
ClosedBeginsNothing ==
    [][closing # "open" =>
          \A t \in CallThreads : call'[t].todo \in {call[t].todo, <<>>}]_clientVars

\* The HTTP client is the one of the running event loop.
ClientOfOwnLoop == \A t \in CallThreads : Stage(t) = "await" => call[t].client = loop[t].number

\* Calls are made within their tries, with a client of their own loop, and a closed
\* service neither keeps nor uses one.
ClientsAreKept ==
    []ClientOfNoOther /\ []ClosedKeepsNoClient /\ []SendsBounded /\ ClosedBeginsNothing
=============================================================================
