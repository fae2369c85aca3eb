----------------------------- MODULE BuildProcess -----------------------------
(***************************************************************************)
(* execute_resolved_command of BuildService (build_service.py), on POSIX:  *)
(* the process of a command, the wait with its time limit and token, the   *)
(* signals, the registry that cancel_all and cancel_command go by, and the *)
(* thread that reads what the process prints into a bounded buffer: there  *)
(* are two alike, of which one is modelled.  BuildSequence has what comes  *)
(* of several commands; here executions run at once, maybe under one       *)
(* command id.                                                             *)
(***************************************************************************)
EXTENDS Naturals, Sequences, FiniteSets, SequencesExt, FiniteSetsExt

Nothing == "nothing"

CONSTANTS
    Executions, CommandIds,
    Setups,         \* ids: of the executions there are; prints: those whose process
                    \* prints and may have a child, the others' readers being left out;
                    \* sought: those whose process others look up in the registry
    Widths,         \* bytes of the characters it prints
    MaxPrinted,     \* bound: how many bytes
    MaxLogBytes     \* max_log_bytes_per_stream
ASSUME BuildProcessAssumption ==
    /\ Nothing \notin Executions
    /\ \A s \in Setups :
          /\ s.prints \cup s.sought \subseteq DOMAIN s.ids
          /\ DOMAIN s.ids \subseteq Executions
          /\ s.ids \in [DOMAIN s.ids -> CommandIds]
    /\ Widths \subseteq Nat \ {0} /\ MaxPrinted \in Nat /\ MaxLogBytes \in Nat

VARIABLES
    executions,          \* one of Setups
    cancelled,           \* tokens that are cancelled
    run,            \* of each execution: where it is and what it knows
    proc,           \* of each execution: its process, a child of that, and
                    \* whether the process was sent SIGKILL
    canceller,      \* of each execution: a thread that has found its process
    registry,       \* ProcessRegistry: of each id the execution, or Nothing
    pipe,           \* printed and not yet read
    printed,        \* history: all that was printed
    log             \* the buffer

buildProcessVars == <<executions, cancelled, run, proc, canceller, registry, pipe, printed,
                      log>>

\* A text is the sequence of its encoding's bytes, of which we keep whether they
\* begin a character.
Character(w) == [i \in 1 .. w |-> i = 1]
\* The first n bytes of a text are whole characters.
Whole(text, n) == n < Len(text) => text[n + 1]

EmptyLog == [kept |-> <<>>, read |-> <<>>, discarded |-> 0, cut |-> FALSE]

ProcessInit ==
    /\ executions \in Setups /\ cancelled = {}
    /\ run = [e \in Executions |-> [at |-> "begin", then |-> "none", status |-> "none",
                                    reading |-> FALSE, gaveUp |-> FALSE]]
    /\ proc = [e \in Executions |-> [state |-> "none", child |-> FALSE, killed |-> FALSE]]
    /\ canceller = [e \in Executions |-> "none"]
    /\ registry = [i \in CommandIds |-> Nothing]
    /\ pipe = [e \in Executions |-> <<>>] /\ printed = [e \in Executions |-> <<>>]
    /\ log = [e \in Executions |-> EmptyLog]

Alive(e) == proc[e].state = "running"
Goto(e, at) == run' = [run EXCEPT ![e].at = at]
Output == <<pipe, printed, log>>

(* ------------------------------ the execution -------------------------- *)

\* raise_if_cancelled, and Popen.
Start(e) ==
    /\ run[e].at = "begin"
    /\ \/ /\ e \in cancelled /\ run' = [run EXCEPT ![e].at = "done", ![e].status = "raised"]
          /\ UNCHANGED proc
       \/ /\ e \notin cancelled /\ Goto(e, "register")
          /\ \E child \in {FALSE, (e \in executions.prints)} :
                proc' = [proc EXCEPT ![e].state = "running", ![e].child = child]
       \/ /\ e \notin cancelled        \* not found, or not started
          /\ run' = [run EXCEPT ![e].at = "join", ![e].status = "error"]
          /\ UNCHANGED proc
    /\ UNCHANGED <<executions, cancelled, canceller, registry, Output>>

EndsAs(e, status) ==
    run' = [run EXCEPT ![e].at = "terminate", ![e].then = "unregister", ![e].status = status]
\* An id that is taken is an error; the process is ended, as it is when its reader
\* does not start.
Register(e) ==
    /\ run[e].at = "register"
    /\ IF registry[executions.ids[e]] # Nothing
       THEN EndsAs(e, "refused") /\ UNCHANGED registry
       ELSE /\ registry' = [registry EXCEPT ![executions.ids[e]] = e]
            /\ \/ run' = [run EXCEPT ![e].at = "wait", ![e].reading = e \in executions.prints]
               \/ EndsAs(e, "error")
    /\ UNCHANGED <<executions, cancelled, proc, canceller, Output>>

\* _wait_for_process: the exit first, then the token, then the time limit.
Wait(e) ==
    /\ run[e].at = "wait"
    /\ IF ~Alive(e)
       THEN run' = [run EXCEPT ![e].at = "unregister",
                               ![e].status = IF proc[e].state = "ok" THEN "succeeded"
                                             ELSE "failed"]
       ELSE \E status \in {"timed_out"} \cup (IF e \in cancelled THEN {"cancelled"} ELSE {}) :
               /\ e \in cancelled => status = "cancelled"
               /\ EndsAs(e, status)
    /\ UNCHANGED <<executions, cancelled, proc, canceller, registry, Output>>

\* A process may end of SIGTERM, and not end of SIGKILL: only the latter is noted.
Kill(e) == proc' = [proc EXCEPT ![e].killed = TRUE]

\* terminate_process_tree: nothing for a process that has ended; SIGTERM, ...
Terminate(e) ==
    /\ run[e].at = "terminate"
    /\ Goto(e, IF Alive(e) THEN "grace" ELSE run[e].then)
    /\ UNCHANGED <<executions, cancelled, proc, canceller, registry, Output>>

\* ... a wait that may be in vain, SIGKILL, and the same wait.
Grace(e) ==
    /\ run[e].at = "grace"
    /\ IF Alive(e) THEN Kill(e) /\ Goto(e, "killed")
       ELSE Goto(e, run[e].then) /\ UNCHANGED proc
    /\ UNCHANGED <<executions, cancelled, canceller, registry, Output>>

\* Mutant: a wait without a limit.
KilledWaits(e) ==
    /\ run[e].at = "killed" /\ ~Alive(e)
    /\ Goto(e, run[e].then)
    /\ UNCHANGED <<executions, cancelled, proc, canceller, registry, Output>>

Killed(e) ==
    /\ run[e].at = "killed"
    /\ Goto(e, run[e].then)
    /\ UNCHANGED <<executions, cancelled, proc, canceller, registry, Output>>

\* Mutant: whoever has the id.
UnregisteredId(e) == [registry EXCEPT ![executions.ids[e]] = Nothing]

Unregistered(e) == [registry EXCEPT ![executions.ids[e]] = IF @ = e THEN Nothing ELSE @]

\* The `finally': a process that still runs is ended again, ...
Unregister(e) ==
    /\ run[e].at = "unregister"
    /\ IF Alive(e) /\ run[e].then # "unregistered"
       THEN /\ run' = [run EXCEPT ![e].at = "terminate", ![e].then = "unregistered"]
            /\ UNCHANGED registry
       ELSE Goto(e, "join") /\ registry' = Unregistered(e)
    /\ UNCHANGED <<executions, cancelled, proc, canceller, Output>>
UnregisterLate(e) ==
    /\ run[e].at = "unregistered"
    /\ Goto(e, "join") /\ registry' = Unregistered(e)
    /\ UNCHANGED <<executions, cancelled, proc, canceller, Output>>
\* ... and the reader is given some time; the result has what it has read.
Join(e) ==
    /\ run[e].at = "join"
    /\ run' = [run EXCEPT ![e].at = "done", ![e].then = "none",
                          ![e].gaveUp = run[e].reading]
    /\ UNCHANGED <<executions, cancelled, proc, canceller, registry, Output>>

(* ------------------------------- the output ---------------------------- *)

FittingLengths(l, chunk) ==
    {0} \cup {n \in 0 .. Len(chunk) : Len(l.kept) + n <= MaxLogBytes /\ Whole(chunk, n)}

Fitting(l, chunk) == SubSeq(chunk, 1, Max(FittingLengths(l, chunk)))

\* BoundedTextBuffer.append: what of a chunk does not fit is dropped and counted.
Appended(l, chunk) ==
    LET kept == l.kept \o Fitting(l, chunk)
        dropped == Len(chunk) - Len(Fitting(l, chunk))
    IN [kept |-> kept, read |-> l.read \o chunk, discarded |-> l.discarded + dropped,
        cut |-> l.cut \/ (dropped > 0 /\ Len(kept) < MaxLogBytes)]

\* _stream_reader: a chunk after the other, until nobody can print more.
ReadChunk(e) ==
    /\ run[e].reading /\ pipe[e] # <<>>
    /\ \E n \in 1 .. Len(pipe[e]) :
          /\ Whole(pipe[e], n)
          /\ log' = IF run[e].at = "done" THEN log
                    ELSE [log EXCEPT ![e] = Appended(@, SubSeq(pipe[e], 1, n))]
          /\ pipe' = [pipe EXCEPT ![e] = SubSeq(@, n + 1, Len(@))]
    /\ UNCHANGED <<executions, cancelled, run, proc, canceller, registry, printed>>
EndOfFile(e) ==
    /\ run[e].reading /\ pipe[e] = <<>> /\ ~Alive(e) /\ ~proc[e].child
    /\ run' = [run EXCEPT ![e].reading = FALSE]
    /\ UNCHANGED <<executions, cancelled, proc, canceller, registry, Output>>

(* -------------------------- processes and others ----------------------- *)

PrintChunk(e) ==
    /\ Alive(e) \/ proc[e].child
    /\ e \in executions.prints
    /\ \E w \in Widths :
          /\ Len(printed[e]) + w <= MaxPrinted
          /\ printed' = [printed EXCEPT ![e] = @ \o Character(w)]
          /\ pipe' = [pipe EXCEPT ![e] = @ \o Character(w)]
    /\ UNCHANGED <<executions, cancelled, run, proc, canceller, registry, log>>
\* A process ends by itself or, at some time, of a signal, which is an exit code
\* as well; its child by itself.
Exit(e) ==
    /\ Alive(e)
    /\ \E state \in {"ok", "bad"} : proc' = [proc EXCEPT ![e].state = state]
    /\ UNCHANGED <<executions, cancelled, run, canceller, registry, Output>>
ChildExits(e) ==
    /\ proc[e].child
    /\ proc' = [proc EXCEPT ![e].child = FALSE]
    /\ UNCHANGED <<executions, cancelled, run, canceller, registry, Output>>

\* CancellationToken.cancel, and the first half of cancel_all.
Cancel(e) ==
    /\ e \notin cancelled /\ run[e].at # "done"
    /\ cancelled' \in {cancelled \cup {e}, DOMAIN executions.ids}
    /\ UNCHANGED <<executions, run, proc, canceller, registry, Output>>
\* cancel_command, and what cancel_all does for each process of its snapshot: it
\* takes the process from the registry, and calls terminate_process_tree for it,
\* wherever the execution is by then.  (Bound: one such call at a time.)
FindProcess(e) ==
    /\ e \in executions.sought
    /\ canceller[e] = "none" /\ registry[executions.ids[e]] = e
    /\ canceller' = [canceller EXCEPT ![e] = "found"]
    /\ UNCHANGED <<executions, cancelled, run, proc, registry, Output>>
CancellerTerminates(e) ==
    /\ canceller[e] = "found"
    /\ canceller' = [canceller EXCEPT ![e] = IF Alive(e) THEN "grace" ELSE "none"]
    /\ UNCHANGED <<executions, cancelled, run, proc, registry, Output>>
CancellerKills(e) ==
    /\ canceller[e] = "grace"
    /\ IF Alive(e) THEN Kill(e) ELSE UNCHANGED proc
    /\ canceller' = [canceller EXCEPT ![e] = "none"]
    /\ UNCHANGED <<executions, cancelled, run, registry, Output>>

ExecutionStep(e) ==
    \/ Start(e)
    \/ Register(e)
    \/ Wait(e)
    \/ Terminate(e)
    \/ Grace(e)
    \/ Killed(e)
    \/ Unregister(e)
    \/ UnregisterLate(e)
    \/ Join(e)
ProcessNext ==
    \/ \E e \in DOMAIN executions.ids :
          \/ ExecutionStep(e)
          \/ ReadChunk(e)
          \/ EndOfFile(e)
          \/ PrintChunk(e)
          \/ Exit(e)
          \/ ChildExits(e)
          \/ Cancel(e)
          \/ FindProcess(e)
          \/ CancellerTerminates(e)
          \/ CancellerKills(e)
\* The waits have time limits; processes may run for ever and resist signals.
ProcessFairness(e) ==
    WF_buildProcessVars(e \in DOMAIN executions.ids /\ ExecutionStep(e))
ProcessSpec ==
    ProcessInit /\ [][ProcessNext]_buildProcessVars /\ \A e \in Executions : ProcessFairness(e)

(* ----------------------------- properties ------------------------------ *)

\* Types, and where an execution can be.
ProcessTypeOK ==
    /\ executions \in Setups /\ cancelled \subseteq Executions
    /\ \A e \in DOMAIN executions.ids :
          /\ run[e].at \in {"begin", "register", "wait", "terminate", "grace", "killed",
                            "unregister", "unregistered", "join", "done"}
          /\ run[e].at \in {"join", "done"} => run[e].status # "none"
          /\ proc[e].state \in {"none", "running", "ok", "bad"}
          /\ {proc[e].child, proc[e].killed} \subseteq BOOLEAN
          /\ canceller[e] \in {"none", "found", "grace"}
    /\ \A i \in CommandIds : registry[i] \in Executions \cup {Nothing}

\* cancel_all and cancel_command find each process that is under way, and none
\* that is done with: whatever id an execution shares with one that was refused.
RegistryIsUnderWay ==
    \A e \in DOMAIN executions.ids :
        registry[executions.ids[e]] = e <=>
            /\ run[e].at \notin {"begin", "register", "join", "done"}
            /\ run[e].status # "refused"

\* An execution that has ended leaves no process of its own: but for one that
\* SIGKILL does not end.  (Its child is left to itself.)
NoProcessLeft ==
    \A e \in DOMAIN executions.ids : run[e].at = "done" => ~Alive(e) \/ proc[e].killed

\* All that the process and its child have printed is in a result or counted as
\* discarded, unless the reader was given up, which the result does not say.
\* Only where the limit falls into a character later text may follow a gap.
OutputIsTold ==
    \A e \in DOMAIN executions.ids :
        LET l == log[e]
        IN /\ Len(l.kept) <= MaxLogBytes
           /\ Len(l.kept) + l.discarded = Len(l.read)
           /\ ~l.cut => IsPrefix(l.kept, l.read)
           /\ run[e].at = "done" /\ ~run[e].gaveUp /\ run[e].status \notin {"error", "refused"} =>
                  l.read = printed[e]

\* Every execution ends, whatever its process does.
ExecutionsAreOver == \A e \in DOMAIN executions.ids : run[e].at = "done"

\* Every process is known while it runs and gone when its execution has ended,
\* and of what it printed nothing is lost untold.
ProcessesAccounted == ProcessTypeOK /\ RegistryIsUnderWay /\ NoProcessLeft /\ OutputIsTold
===============================================================================
