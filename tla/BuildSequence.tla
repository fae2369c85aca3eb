---------------------------- MODULE BuildSequence ----------------------------
(***************************************************************************)
(* execute_command_sequence of Code Builder V1 (build_service.py): the     *)
(* validation commands of a task, one process after the other, with the    *)
(* cancellation token of the task and a registry of processes that the     *)
(* builds of all tasks share.                                              *)
(***************************************************************************)
EXTENDS Naturals, Sequences

CONSTANTS Commands  \* sequence of [must : BOOLEAN]: ~must is continue_on_failure
ASSUME CommandsAssumption == Commands \in Seq([must : BOOLEAN])

VARIABLES
    results,        \* statuses of the commands so far
    process,        \* none, or the command under way
    claimed         \* another task's build has registered the command's id

buildVars == <<results, process, claimed>>

Failures == {"failed", "timed_out", "cancelled", "error"}
CommandStatus == Failures \cup {"succeeded", "dry_run", "skipped"}

BuildInit == results = <<>> /\ process = "unbegun" /\ claimed = FALSE

InSequence == Len(results) < Len(Commands)
Skip(from) == from \o [i \in 1 .. Len(Commands) - Len(from) |-> "skipped"]

\* The loop asks the token before every command.
NextCommand(told) ==
    /\ process = "none" /\ InSequence
    /\ IF told
       THEN results' = Skip(results) /\ UNCHANGED process
       ELSE process' = "starting" /\ UNCHANGED results
    /\ UNCHANGED claimed

\* A failure ends the sequence if the options and the command say so.
Record(status, stop) ==
    LET new == Append(results, status)
    IN /\ results' = IF status \in Failures /\ stop
                           /\ Commands[Len(results) + 1].must
                     THEN Skip(new) ELSE new
       /\ process' = "none"

\* execute_command: the token is asked again before the process exists, and
\* then it raises out of the sequence.
StartCommand(told, dry, stop) ==
    /\ process = "starting"
    /\ IF told THEN process' = "raised" /\ UNCHANGED results
       ELSE \/ Record("error", stop)                   \* not resolved
            \/ dry /\ Record("dry_run", stop)
            \/ ~dry /\ claimed /\ Record("error", stop)
            \/ ~dry /\ ~claimed /\ process' = "running" /\ UNCHANGED results
    /\ UNCHANGED claimed

\* It exits by itself, at its timeout, or killed: for this task's token, or
\* since another task was cancelled, which shows as a failure.
EndCommand(told, stop) ==
    /\ process = "running"
    /\ \E status \in {"succeeded", "failed", "timed_out"}
                     \cup (IF told THEN {"cancelled"} ELSE {}) :
         Record(status, stop)
    /\ UNCHANGED claimed

\* ProcessRegistry.register and unregister by other tasks.
Claim ==
    /\ process # "running"
    /\ claimed' = ~claimed
    /\ UNCHANGED <<results, process>>

SequenceEnded == process = "none" /\ ~InSequence

\* _sequence_status_from_results
SequenceStatus(statuses) ==
    LET Has(s) == \E i \in DOMAIN statuses : statuses[i] = s
    IN CASE Has("cancelled") -> "cancelled"
         [] Has("timed_out") -> "timed_out"
         [] Has("error") -> "error"
         [] Has("failed") -> "failed"
         [] OTHER -> "succeeded"
=============================================================================
