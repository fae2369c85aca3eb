---------------------------- MODULE DocumentDrafts ----------------------------
(***************************************************************************)
(* Drafts that a language model writes for Document Studio (router.py,     *)
(* service.py, generation_orchestrator.py, natural_creation.py and the     *)
(* providers): one draft from a free request, one of a given type, or a    *)
(* pack of types.                                                          *)
(* A draft is delivered only when what it says of identity, money and law  *)
(* comes from the profile or the request.  A provider that fails for a     *)
(* reason that passes is replaced by the one the caller named for that.    *)
(***************************************************************************)
EXTENDS DocumentStudio, Functions, SequencesExt

CONSTANTS
    DocumentTypes,      \* DOCUMENT_CLASS_DEFINITIONS
    Transports,         \* Groq and SambaNova: providers with retries of their own
    Ollama,             \* the local provider
    NoProvider,         \* a name that is no provider's
    Fields, HighRisk,   \* facts; those of HIGH_RISK_FIELDS
    DraftRequests,      \* what is asked for, with the facts there are
    Drafts,             \* what a provider may answer
    MaxSends            \* max_attempts of a transport
SupportedProviders == Transports \cup {Ollama}
ASSUME DocumentDraftsAssumption ==
    /\ HighRisk \subseteq Fields /\ MaxSends \in Nat \ {0} /\ Ollama \notin Transports
    /\ NoProvider \notin SupportedProviders
    /\ \A r \in DraftRequests :
          /\ r.mode \in {"natural", "single", "pack"}
          /\ r.objective \in {"clear", "unclear", "blank"}
          /\ r.types \in Seq(STRING) /\ (r.mode = "natural" => Len(r.types) = 1)
          /\ r.primary \in SupportedProviders \cup {NoProvider}
          /\ r.fallback \in {{p} : p \in SupportedProviders \cup {NoProvider}} \cup {{}}
          /\ r.allowed \in BOOLEAN /\ r.profile \in BOOLEAN
    /\ \A d \in Drafts : \A c \in d.claims : c.origin \in {"verified", "user", "generated"}

VARIABLES
    draft,          \* the request
    drafting,       \* how far it has come
    items           \* what came of each type

draftVars == <<draft, drafting, items>>

Rest == [stage |-> "rest"]
DraftInit == draft \in DraftRequests /\ drafting = Rest /\ items = <<>>

\* The one that is to step in, if the caller lets it.
Fallback == IF draft.allowed THEN draft.fallback ELSE {}

(* ---------------------------- what is checked ------------------------- *)

\* verified and user are what is known: functions from some fields to values.
Known(facts, claim) == claim.field \in DOMAIN facts /\ facts[claim.field] = claim.value
\* _validate_claim_origins
OriginsTrue(answer) ==
    \A c \in answer.claims :
        /\ c.origin = "verified" => Known(draft.verified, c)
        /\ c.origin = "user" => Known(draft.user, c)

\* validate_placeholder_integrity
PlaceholdersWhole(answer) == answer.found = answer.declared /\ draft.blank \subseteq answer.found

\* detect_unsupported_claims: a claim's value is supported when it is known of any
\* field; a sentence of weight, the set of the values in it, when one of them is.
Supported == Range(draft.verified) \cup Range(draft.user)
ClaimsSupported(answer) ==
    /\ \A c \in answer.claims :
          c.origin = "generated" /\ c.field \in HighRisk => c.value \in Supported
    /\ \A sentence \in answer.stated : sentence \cap Supported # {}

\* create_natural_document, validate_generation
Sound(answer) == PlaceholdersWhole(answer) /\ ClaimsSupported(answer)

(* ------------------------------ one draft ----------------------------- *)

Type == draft.types[Len(items) + 1]
Asking(provider, why) ==
    [stage |-> "sending", provider |-> provider, sends |-> 1, repeats |-> 0, why |-> why]

\* What is refused before anybody is asked, in the order of the checks: of the
\* routes, then of generate_document_pack_preview and generate_ai_document_preview.
FallbackForbidden == draft.fallback # {} /\ ~draft.allowed
Named == {draft.primary} \cup (IF draft.mode = "natural" THEN {} ELSE draft.fallback)
Refusal ==
    CASE draft.mode = "pack" /\ FallbackForbidden -> "request"
      [] ~draft.profile -> "profile"
      [] ~(Named \subseteq SupportedProviders) -> "provider"
      [] draft.mode # "natural" /\ draft.types = <<>> -> "request"
      [] draft.mode = "pack" /\ draft.objective = "blank" -> "request"
      [] draft.mode # "natural" /\ ~(ToSet(draft.types) \subseteq DocumentTypes) -> "type"
      [] draft.mode = "single" /\ FallbackForbidden -> "request"
      [] OTHER -> "none"
AnsweredWith(outcome) == [stage |-> "ended", outcome |-> outcome]
CheckDraft ==
    /\ drafting = Rest
    /\ drafting' = IF Refusal = "none" THEN [stage |-> "next"] ELSE AnsweredWith(Refusal)
    /\ UNCHANGED <<draft, items>>

\* An item of a pack that fails is one of its items; else the request fails.
Fails(code) ==
    IF draft.mode = "pack"
    THEN /\ items' = Append(items, [status |-> "failed", code |-> code])
         /\ drafting' = [stage |-> "next"]
    ELSE drafting' = AnsweredWith(code) /\ UNCHANGED items

\* interpret_natural_document_request may have to ask what is meant.
Earlier == {draft.types[i] : i \in 1 .. Len(items)}
NextItem ==
    /\ drafting.stage = "next" /\ Len(items) < Len(draft.types)
    /\ IF Type \in Earlier
       THEN items' = Append(items, [status |-> "skipped"]) /\ UNCHANGED drafting
       ELSE IF draft.objective # "clear" THEN Fails("request")
       ELSE drafting' = Asking(draft.primary, "none") /\ UNCHANGED items
    /\ UNCHANGED draft

\* _eligible_fallback_failure: not what Ollama reports, but its timeout.
Passing == {"timeout", "unavailable", "transient"}
\* _translate_ai_service_error
Code(why) ==
    IF why \in {"timeout", "malformed", "integrity"} THEN why ELSE "unavailable"

\* Mutant: whatever failed, the fallback is asked.
FailingAnyhow(why) ==
    IF draft.mode = "natural" \/ drafting.why # "none" \/ Fallback \ {draft.primary} = {}
    THEN Fails(Code(why))
    ELSE \E p \in Fallback : drafting' = Asking(p, why) /\ UNCHANGED items

\* What follows when a provider fails: in a natural draft a malformed answer is asked
\* for once more; else the fallback is asked, if it is another one.
Failing(why) ==
    IF draft.mode = "natural"
    THEN IF why = "malformed" /\ drafting.repeats = 0
         THEN drafting' = [Asking(draft.primary, why) EXCEPT !.repeats = 1] /\ UNCHANGED items
         ELSE Fails(Code(why))
    ELSE IF drafting.why # "none" THEN Fails("unavailable")
    ELSE IF Fallback = {} \/ why \notin Passing THEN Fails(Code(why))
    ELSE IF draft.primary \in Fallback THEN Fails("unavailable")
    ELSE \E p \in Fallback : drafting' = Asking(p, why) /\ UNCHANGED items

Send == drafting.stage = "sending" /\ UNCHANGED draft

\* GroqDocumentProvider.generate_document, and SambaNova's: what passes is tried
\* again, if there are tries and time left.
Retries == drafting.provider \in Transports /\ drafting.sends < MaxSends
SendFails ==
    /\ Send
    /\ \E why \in IF drafting.provider = Ollama THEN {"timeout", "broken"} ELSE Passing :
          IF Retries
          THEN drafting' = [drafting EXCEPT !.stage = "pausing"] /\ UNCHANGED items
          ELSE Failing(why)
Resend ==
    /\ drafting.stage = "pausing"
    /\ drafting' = [drafting EXCEPT !.stage = "sending", !.sends = @ + 1]
    /\ UNCHANGED <<draft, items>>
\* Not configured, refused by HTTP, or an exception of another kind.
SendRefused ==
    /\ Send
    /\ \/ drafting.provider \in Transports /\ drafting.sends = 1 /\ Failing("unavailable")
       \/ Failing("broken")
       \/ Failing("malformed")
\* asyncio.wait_for, or the deadline of the transport.
Overdue ==
    /\ drafting.stage \in {"sending", "pausing"}
    /\ Failing("timeout") /\ UNCHANGED draft

\* The draft comes, is held against the facts, and delivered or not.
Receive ==
    /\ Send
    /\ \E answer \in Drafts :
          IF ~answer.asTyped \/ ~OriginsTrue(answer) THEN Failing("malformed")
          ELSE IF ~Sound(answer) THEN Fails("integrity")
          ELSE LET item == [status |-> "generated", answer |-> answer,
                            provider |-> drafting.provider, why |-> drafting.why]
               IN /\ items' = Append(items, item)
                  /\ drafting' = IF draft.mode = "pack" THEN [stage |-> "next"] ELSE AnsweredWith("delivered")

\* What the pack has come to.
Count(status) == Cardinality({i \in DOMAIN items : items[i].status = status})
Finish ==
    /\ drafting.stage = "next" /\ Len(items) = Len(draft.types)
    /\ drafting' = AnsweredWith(IF Count("failed") = 0 THEN "complete"
                         ELSE IF Count("generated") > 0 THEN "partial_failure" ELSE "failed")
    /\ UNCHANGED <<draft, items>>

DraftStep ==
    \/ CheckDraft
    \/ NextItem
    \/ SendFails
    \/ Resend
    \/ SendRefused
    \/ Overdue
    \/ Receive
    \/ Finish
DraftSpec == DraftInit /\ [][DraftStep]_draftVars

(* ----------------------------- properties ----------------------------- *)

\* What is delivered calls nothing a fact of the profile or of the request that is
\* not one, gives no value of weight that is in neither, leaves open what was to be
\* left open, and owns up to all that is open.
DeliveredIsSupported ==
    \A i \in {j \in DOMAIN items : items[j].status = "generated"} :
        LET answer == items[i].answer
        IN /\ answer.asTyped
           /\ \A c \in answer.claims :
                 \/ c.origin = "generated" /\ c.field \notin HighRisk
                 \/ c.value \in Supported /\ (c.origin # "generated" =>
                        Known(IF c.origin = "user" THEN draft.user ELSE draft.verified, c))
           /\ \A sentence \in answer.stated : sentence \cap Supported # {}
           /\ answer.found = answer.declared /\ draft.blank \subseteq answer.declared

\* Another provider than the one asked for is used only if the caller named it for
\* that, allowed it, and the first failed for a reason that passes; a natural draft
\* never leaves the provider it was asked of, and asks it at most twice over.
FallbackIsAllowed ==
    /\ \A i \in {j \in DOMAIN items : items[j].status = "generated"} :
          \/ items[i].provider = draft.primary
          \/ /\ draft.allowed /\ items[i].provider \in draft.fallback
             /\ items[i].why \in Passing /\ draft.mode # "natural"
    /\ drafting.stage \in {"sending", "pausing"} =>
          /\ drafting.sends <= MaxSends
          /\ draft.mode = "natural" => drafting.provider = draft.primary

\* A pack has one item for every type asked for, and one draft or failure for each
\* different type, whatever became of the others.
PackIsWhole ==
    drafting.stage = "ended" /\ drafting.outcome \in {"complete", "partial_failure", "failed"} =>
        /\ Len(items) = Len(draft.types)
        /\ Count("skipped") = Len(items) - Cardinality(ToSet(draft.types))
        /\ drafting.outcome = "complete" => Count("generated") = Cardinality(ToSet(draft.types))
        /\ drafting.outcome = "failed" => Count("generated") = 0

DraftsAreTrue == DeliveredIsSupported /\ FallbackIsAllowed /\ PackIsWhole

\* Document Studio loses nothing that was written, and delivers no draft that says
\* more than is known.
StudioIsTrue == NothingWrittenIsLost /\ DraftsAreTrue

\* Every request for a draft is answered.
DraftIsSettled == drafting.stage = "ended"
=============================================================================
