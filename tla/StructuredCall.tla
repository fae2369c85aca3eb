---------------------------- MODULE StructuredCall ---------------------------
(***************************************************************************)
(* generate_structured and chat_structured (ollama_service.py): what is    *)
(* asked for is checked, an instruction with the schema joins the prompt   *)
(* or the messages, and the reply is checked down to the model that the    *)
(* caller named.  A prompt is a list of one message; a text is its length  *)
(* and how many of its last characters are white space.                    *)
(***************************************************************************)
EXTENDS Naturals, Sequences, FiniteSets, SequencesExt

CONSTANTS
    Requests,       \* see RequestAssumption
    MaxMessages,    \* MAX_MESSAGES
    MaxLength,      \* MAX_PROMPT_CHARACTERS, MAX_MESSAGE_CHARACTERS
    InstructionLength
ASSUME RequestAssumption ==
    /\ MaxMessages \in Nat /\ MaxLength \in Nat /\ InstructionLength \in Nat
    /\ Requests \subseteq
          [chat : BOOLEAN,
           schema : {"none", "model", "mapping", "empty", "both"},  \* response_model, json_schema
           told : BOOLEAN,      \* include_schema_in_prompt
           object : BOOLEAN,    \* require_object
           messages : Seq([role : STRING, length : Nat, blanks : Nat]),
           faults : SUBSET {"model", "options", "timeout"},
           verify : BOOLEAN,    \* verify_model
           validated : BOOLEAN] \* generate_validated, chat_validated
    /\ \A r \in Requests :
          /\ r.validated => r.schema = "model" /\ r.object /\ r.told
          /\ \A i \in DOMAIN r.messages : r.messages[i].blanks <= r.messages[i].length

NoReply == [text |-> FALSE, done |-> FALSE, json |-> "none", fits |-> FALSE]
Replies == [text : BOOLEAN, done : BOOLEAN, json : {"none", "object", "array"}, fits : BOOLEAN]

VARIABLES
    request,
    exchange        \* at; sent: the messages; format; reply; checked: by the model class

exchangeVars == <<request, exchange>>

StructuredInit ==
    /\ request \in Requests
    /\ exchange = [at |-> "asked", sent |-> <<>>, format |-> "none", reply |-> NoReply,
                   checked |-> FALSE]

(* -------------------------------- request ----------------------------- *)

Roles == {"system", "user", "assistant", "tool"}

\* _validate_prompt, _validate_messages: a prompt may not be blank.
Valid(messages) ==
    /\ messages # <<>>
    /\ Len(messages) <= MaxMessages
    /\ \A i \in DOMAIN messages :
          /\ messages[i].role \in Roles
          /\ messages[i].length <= MaxLength
          /\ ~request.chat => messages[i].length > messages[i].blanks

ByModel == request.schema = "model"
Format ==
    CASE request.schema \in {"model", "mapping"} -> request.schema
      [] OTHER -> "json"

\* _append_instruction_to_prompt, _append_instruction_to_messages: two line ends
\* take the place of the white space at the end.
Separator == 2
Tell(messages) ==
    LET Told(length) == [role |-> "user", length |-> length, blanks |-> 0]
        last == Last(messages)
    IN IF last.role = "user"
       THEN Append(Front(messages), Told(last.length - last.blanks + Separator + InstructionLength))
       ELSE Append(messages, Told(InstructionLength))
ToSend == IF request.told THEN Tell(request.messages) ELSE request.messages

\* The model's name, options, images, the system prompt, tools and keep_alive.
ArgumentsValid == request.faults \cap {"model", "options"} = {}

\* The texts are checked before the instruction joins them, and again after.
Askable ==
    /\ request.schema \notin {"both", "empty"}
    /\ Valid(request.messages)
    /\ Valid(ToSend)
    /\ ArgumentsValid

SendStructured ==
    /\ exchange.at = "asked"
    /\ exchange' =
          IF Askable
          THEN [exchange EXCEPT !.at = IF request.verify THEN "verifying" ELSE "payload",
                                !.sent = ToSend, !.format = Format]
          ELSE [exchange EXCEPT !.at = "refused"]
    /\ UNCHANGED request

\* require_model: one more request, and the model may not be there.
VerifyModel ==
    /\ exchange.at = "verifying"
    /\ \E at \in {"payload", "failed"} : exchange' = [exchange EXCEPT !.at = at]
    /\ UNCHANGED request
\* The timeout is looked at last, when the model has been verified.
Post ==
    /\ exchange.at = "payload"
    /\ exchange' = [exchange EXCEPT !.at = IF "timeout" \in request.faults THEN "refused"
                                          ELSE "sent"]
    /\ UNCHANGED request

(* --------------------------------- reply ------------------------------ *)

\* See OllamaClient.
SendingFails ==
    /\ exchange.at = "sent"
    /\ exchange' = [exchange EXCEPT !.at = "failed"]
    /\ UNCHANGED request

\* _normalize_raw_response and parse_structured_content (see StructuredAnswer): a
\* whole text with a JSON value in it, and an object for a model class.
WholeReply(reply) == reply.text /\ reply.done
Parsed(reply) ==
    /\ reply.json # "none"
    /\ request.object \/ ByModel => reply.json = "object"

Receive ==
    /\ exchange.at = "sent"
    /\ \E reply \in Replies :
          exchange' = [exchange EXCEPT
                         !.at = IF WholeReply(reply) /\ Parsed(reply) THEN "parsed" ELSE "failed",
                         !.reply = reply]
    /\ UNCHANGED request

\* model_validate for a class; nothing is held against a schema given as a mapping.
Validate ==
    /\ exchange.at = "parsed"
    /\ exchange' =
          IF ByModel
          THEN [exchange EXCEPT !.at = IF exchange.reply.fits THEN "made" ELSE "failed",
                                !.checked = exchange.reply.fits]
          ELSE [exchange EXCEPT !.at = "made"]
    /\ UNCHANGED request

\* generate_validated and chat_validated want the object of the class.
Return ==
    /\ exchange.at = "made"
    /\ exchange' = [exchange EXCEPT
                      !.at = IF request.validated /\ ~exchange.checked THEN "failed"
                             ELSE "returned"]
    /\ UNCHANGED request

StructuredStep == SendStructured \/ VerifyModel \/ Post \/ SendingFails \/ Receive \/ Validate \/ Return

(* ------------------------------ properties ---------------------------- *)

\* The model is told what format is wanted in the last message it is sent, which
\* is the user's; no other message changes, and none goes over the limits, which
\* the caller's own texts may have kept just so.
InstructionIsGiven ==
    exchange.sent # <<>> =>
        LET sent == exchange.sent  asked == request.messages
        IN /\ Len(sent) <= MaxMessages /\ \A i \in DOMAIN sent : sent[i].length <= MaxLength
           /\ Len(sent) - Len(asked) \in {0, 1}
           /\ IF request.told
              THEN /\ sent[Len(sent)].role = "user"
                   /\ Front(sent) = SubSeq(asked, 1, Len(sent) - 1)
                   /\ Len(sent) > Len(asked) => asked[Len(asked)].role # "user"
              ELSE sent = asked

\* What comes back is a whole answer with a value of the kind asked for; one that
\* is returned for a class is an object of it, and the model was held to its
\* schema.
AnswerIsAsAsked ==
    exchange.at = "returned" =>
        /\ exchange.reply.text /\ exchange.reply.done /\ exchange.reply.json # "none"
        /\ request.object => exchange.reply.json = "object"
        /\ ByModel => /\ exchange.reply.json = "object" /\ exchange.reply.fits
                      /\ exchange.format = "model"

\* A call ends, with an answer or an error.
StructuredIsOver == exchange.at \in {"refused", "failed", "returned"}
=============================================================================
