------------------------------ MODULE RepairLoop ------------------------------
(***************************************************************************)
(* The second repair loop of Code Builder V2 (repair.py, sandbox.py,       *)
(* browser.py, providers.py): build the application in a sandbox, start    *)
(* it, look at it in a browser, have a model diagnose what fails.          *)
(***************************************************************************)
EXTENDS Naturals, Sequences, FiniteSets

CONSTANTS
    MaxAttempts,        \* max_attempts
    MaxRepeated,        \* max_repeated_failures
    BuildCommands,      \* how many commands the build has
    Complaints,              \* what a command may write to its standard error
    Pages               \* pages an application may show: [checks, errors]
ASSUME RepairLoopAssumption ==
    /\ MaxAttempts \in Nat \ {0} /\ MaxRepeated \in Nat \ {0}
    /\ BuildCommands \in Nat \ {0} /\ Complaints # {}

Critical == {"page_loads", "has_input", "has_button", "has_list", "task_added"}
NoEvidence == [phase |-> "none", summary |-> {}, errors |-> {}]

VARIABLES
    setup,          \* the sandbox's runtime, the application, the model providers
    session,        \* of the sandbox: "none" until the loop has it, "open", "closed"
    held,           \* what is open of it: the parts that were made and not removed
    doing,          \* what runs: "create", "build", "start", "verify", "diagnose", "over"
    attempt,
    command,        \* the build's command that runs
    serving,        \* the attempt whose server holds the port, or 0
    strays,         \* commands that ran into their time limit and still run
    evidence,       \* previous_evidence, as its fingerprint has it
    seen,           \* fingerprints: those of all failures
    files,          \* the change the sandbox's files have, and the last one proposed
    proposed,
    ending          \* how it ended: "none", "success", "failure", "raised"

repairVars == <<setup, session, held, doing, attempt, command, serving, strays, evidence,
                seen, files, proposed, ending>>

Runtimes == {"local", "rex", "docker"}
Applications == {"todo", "saas", "crud"}

\* _default_providers: in this order, those that are configured.
Chain(keys) ==
    SelectSeq(<<"openrouter", "groq", "huggingface">>, LAMBDA p : p \in keys)
    \o <<"ollama">>

RepairInit ==
    /\ setup \in [runtime : Runtimes, app : Applications,
                  keys : {{}, {"groq"}, {"openrouter", "huggingface"}}]
    /\ session = "none" /\ held = {} /\ doing = "create" /\ attempt = 1 /\ command = 1
    /\ serving = 0 /\ strays = 0 /\ evidence = NoEvidence /\ seen = <<>>
    /\ files = 0 /\ proposed = 0 /\ ending = "none"

(* ----------------------------- the session ----------------------------- *)

\* What create_session makes for the runtime, one after the other: a container
\* on a volume, or a session of the deployment that is then filled with files.
\* A local session is an entry in a dictionary.
PartsOf(runtime) ==
    CASE runtime = "docker" -> {"volume", "container"}
      [] runtime = "rex"    -> {"session"}
      [] runtime = "local"  -> {}

MakePart ==
    /\ doing = "create"
    /\ \E part \in PartsOf(setup.runtime) \ held :
          /\ part = "container" => "volume" \in held
          /\ held' = held \cup {part}
    /\ UNCHANGED <<setup, session, doing, attempt, command, serving, strays, evidence,
                   seen, files, proposed, ending>>

\* create_session returns what it made.
CreateSession ==
    /\ doing = "create" /\ held = PartsOf(setup.runtime)
    /\ session' = "open" /\ doing' = "build"
    /\ UNCHANGED <<setup, held, attempt, command, serving, strays, evidence, seen, files,
                   proposed, ending>>

\* close_session looks at no result: what cannot be removed stays, and where
\* Docker cannot even be asked, the call raises.
Remains == {{}} \cup (IF setup.runtime = "local" THEN {} ELSE (SUBSET held) \ {{}})

\* Mutant: a failure returns before the session is closed.
EndLeavingOpen(how) ==
    /\ doing' = "over" /\ ending' = how /\ UNCHANGED held
    /\ session' = IF how = "failure" THEN session ELSE "closed"

\* The results of execute, and its `finally', which begins once there is a session:
\* what a creation that raised has made stays open.
End(how) ==
    /\ doing' = "over"
    /\ IF session = "open"
       THEN /\ session' = "closed" /\ held' \in Remains
            /\ \/ ending' = how
               \/ setup.runtime = "docker" /\ held' = held /\ ending' = "raised"
       ELSE ending' = how /\ UNCHANGED <<session, held>>

\* Whatever raises leaves the loop.
Raised ==
    /\ doing \in {"create", "build", "start", "verify", "diagnose"}
    /\ End("raised")
    /\ UNCHANGED <<setup, attempt, command, serving, strays, evidence, seen, files, proposed>>

(* ------------------------------- failures ------------------------------ *)

\* RepairEvidence.fingerprint: of the browser the console's and the page's
\* errors, of requests that failed nothing.
Fingerprint(e) == [e EXCEPT !.errors = @ \ {"network"}]

\* _check_repeated_failure
Occurrences(f, s) == Cardinality({i \in DOMAIN s : s[i] = f})

\* What follows a failure: the same one too often, or the last attempt, ends
\* the loop; any other is diagnosed.
Failed(e) ==
    LET f == Fingerprint(e)
    IN /\ evidence' = e /\ seen' = Append(seen, f)
       /\ IF Occurrences(f, seen') >= MaxRepeated \/ attempt = MaxAttempts
          THEN End("failure")
          ELSE doing' = "diagnose" /\ UNCHANGED <<session, held, ending>>

(* -------------------------- building and starting ---------------------- *)

\* The phase of the build is another one once there has been a repair.
BuildPhase == IF attempt = 1 THEN "building" ELSE "repairing"

\* run_command: the time limit ends the wait, and of the command only the
\* process that Docker or the deployment ran; a local one goes on.
TimesOut == strays' = strays + (IF setup.runtime = "local" THEN 1 ELSE 0)

CommandRan ==
    /\ doing = "build"
    /\ IF command < BuildCommands
       THEN command' = command + 1 /\ UNCHANGED doing
       ELSE command' = 1 /\ doing' = "start"
    /\ UNCHANGED <<setup, session, held, attempt, serving, strays, evidence, seen, files,
                   proposed, ending>>

\* A command that fails, by itself or by its time limit, ends the build.
CommandFailed ==
    /\ doing = "build" /\ command' = 1
    /\ \/ /\ \E t \in Complaints :
               Failed([phase |-> BuildPhase, summary |-> {t}, errors |-> {}])
          /\ UNCHANGED strays
       \/ /\ Failed([phase |-> BuildPhase, summary |-> {"limit"}, errors |-> {}])
          /\ TimesOut
    /\ UNCHANGED <<setup, attempt, serving, files, proposed>>

\* AppStartStep.execute: a server on this machine, asked for through the
\* sandbox; one that an earlier attempt left running answers as well, and the
\* new one finds the port taken, if the earlier one did not end.  Nothing in a
\* container reaches either.
ServerReady ==
    /\ doing = "start" /\ setup.runtime # "docker"
    /\ serving' \in {attempt} \cup ({serving} \ {0})
    /\ doing' = "verify"
    /\ UNCHANGED <<setup, session, held, attempt, command, strays, evidence, seen, files,
                   proposed, ending>>
\* The new one is terminated when nothing answers in time; an earlier one that
\* does not answer either goes on, or has ended.
ServerSilent ==
    /\ doing = "start" /\ serving' \in {serving, 0}
    /\ Failed([phase |-> "starting_app", summary |-> {"silent"}, errors |-> {}])
    /\ UNCHANGED <<setup, attempt, command, strays, files, proposed>>

(* ------------------------------ the browser ---------------------------- *)

\* verify_todo_app adds a task where it sees both the input and the button, and
\* asks for the result of that in any case: the lookup raises.
CanLookUp(page) == setup.app = "todo" => {"has_input", "has_button"} \subseteq page.checks

\* verify_todo_app, verify_saas_dashboard, verify_crud_app
Passed(page) ==
    /\ setup.app = "todo" => Critical \subseteq page.checks
    /\ page.errors = {}

\* error_message: what was looked for in vain.  The one of a CRUD application is
\* empty.
NotFound(page) ==
    IF setup.app = "crud" THEN {} ELSE Critical \ page.checks

VerifyPassed ==
    /\ doing = "verify"
    /\ \E page \in Pages :
          /\ CanLookUp(page) /\ Passed(page)
          /\ evidence' = [phase |-> "verifying", summary |-> {}, errors |-> page.errors]
    /\ End("success")
    /\ UNCHANGED <<setup, attempt, command, serving, strays, seen, files, proposed>>
VerifyFailed ==
    /\ doing = "verify"
    /\ \E page \in Pages :
          /\ CanLookUp(page) /\ ~Passed(page)
          /\ Failed([phase |-> "verifying", summary |-> NotFound(page), errors |-> page.errors])
    /\ UNCHANGED <<setup, attempt, command, serving, strays, files, proposed>>
\* The lookup of a check that was never made.
VerifyRaises ==
    /\ doing = "verify" /\ \E page \in Pages : ~CanLookUp(page)
    /\ End("raised")
    /\ UNCHANGED <<setup, attempt, command, serving, strays, evidence, seen, files, proposed>>

(* ----------------------------- the diagnosis --------------------------- *)

\* generate_json of the providers: a missing package, an empty answer or one
\* that is no object is an error; what the clients of OpenRouter, Groq and
\* Hugging Face raise is not caught, and Ollama's always is.
Outcomes(provider) ==
    {"answer", "empty", "error"} \cup (IF provider = "ollama" THEN {} ELSE {"raise"})

\* ModelRouter.generate_json: the first provider without an error decides.
Routed(outcomes) ==
    IF \A i \in DOMAIN outcomes : outcomes[i] = "error" THEN "error"
    ELSE outcomes[CHOOSE i \in DOMAIN outcomes :
                    /\ outcomes[i] # "error"
                    /\ \A j \in 1 .. i - 1 : outcomes[j] = "error"]
Answers ==
    LET chain == Chain(setup.keys)
    IN {Routed(o) : o \in {f \in [DOMAIN chain -> {"answer", "empty", "error", "raise"}] :
                            \A i \in DOMAIN chain : f[i] \in Outcomes(chain[i])}}

NextAttempt ==
    /\ doing' = "build" /\ attempt' = attempt + 1
    /\ UNCHANGED <<session, held, ending>>

\* _diagnose_and_repair: an instruction that is empty ends the loop.  The
\* failure of all providers is an instruction as well.  No change that is
\* proposed is written: what would do so is left open there.
Diagnose ==
    /\ doing = "diagnose"
    /\ \E answer \in Answers :
          \/ /\ answer = "answer" /\ proposed' = attempt /\ NextAttempt
          \/ /\ answer = "error" /\ NextAttempt /\ UNCHANGED proposed
          \/ /\ answer = "empty" /\ End("failure") /\ UNCHANGED <<attempt, proposed>>
          \/ /\ answer = "raise" /\ End("raised") /\ UNCHANGED <<attempt, proposed>>
    /\ UNCHANGED <<setup, command, serving, strays, evidence, seen, files>>

RepairStep ==
    \/ MakePart
    \/ CreateSession
    \/ CommandRan
    \/ CommandFailed
    \/ ServerReady
    \/ ServerSilent
    \/ VerifyPassed
    \/ VerifyFailed
    \/ VerifyRaises
    \/ Diagnose
RepairNext == RepairStep \/ Raised

\* Commands, the server's start, the browser's waits and the models' answers
\* all have time limits.
RepairSpec == RepairInit /\ [][RepairNext]_repairVars /\ WF_repairVars(RepairStep)

(* ----------------------------- properties ------------------------------ *)

RepairTypeOK ==
    /\ setup \in [runtime : Runtimes, app : Applications,
                  keys : SUBSET {"openrouter", "groq", "huggingface"}]
    /\ session \in {"none", "open", "closed"}
    /\ held \subseteq {"volume", "container", "session"}
    /\ doing \in {"create", "build", "start", "verify", "diagnose", "over"}
    /\ attempt \in 1 .. MaxAttempts /\ command \in 1 .. BuildCommands
    /\ serving \in 0 .. MaxAttempts /\ strays \in 0 .. MaxAttempts
    /\ Len(seen) <= MaxAttempts /\ files = 0 /\ proposed \in 0 .. MaxAttempts
    /\ ending \in {"none", "success", "failure", "raised"}

\* Every step of an attempt has a session with all its parts.  One that the loop has
\* is asked to close when the loop is over, whatever ended it, and not before; without
\* one the loop has raised.  (Parts that were made for a session that never came, and
\* parts that did not go when they were told to, stay.)
SessionClosedAtTheEnd ==
    /\ doing \in {"build", "start", "verify", "diagnose"} =>
          session = "open" /\ held = PartsOf(setup.runtime)
    /\ session = "closed" => doing = "over"
    /\ doing = "over" => session = "closed" \/ (session = "none" /\ ending = "raised")

\* A success has its build, its start and its look at the page in one attempt:
\* the last one, which no failure was recorded for, and with no error of the
\* page, its console or its requests.
SuccessWithoutFailure ==
    ending = "success" =>
        /\ evidence.phase = "verifying" /\ evidence.errors = {}
        /\ Len(seen) = attempt - 1 /\ serving # 0

\* No failure is met more than MaxRepeated times, save that of a build, which
\* the first attempt names otherwise: however the model repairs, the loop does
\* not go on with what it cannot mend.
Met(e, f) ==
    /\ e.summary = f.summary /\ e.errors = f.errors
    /\ e.phase = f.phase \/ {e.phase, f.phase} = {"building", "repairing"}
RepeatsBounded ==
    \A i \in DOMAIN seen :
        Cardinality({j \in DOMAIN seen : Met(seen[j], seen[i])})
            <= MaxRepeated
               + (IF seen[i].phase \in {"building", "repairing"} THEN 1 ELSE 0)

\* The loop comes to an end.
RepairIsOver == doing = "over"

\* An attempt after a repair works on what the diagnosis proposed.
RepairIsApplied == doing = "build" /\ attempt = proposed + 1 => files = proposed

\* The loop claims no success it did not see, spends no more than its limits, works
\* in a whole session and asks for the end of every session it was given.
RepairIsHonest ==
    RepairTypeOK /\ SessionClosedAtTheEnd /\ SuccessWithoutFailure /\ RepeatsBounded
===============================================================================
