-------------------------- MODULE PatchGeneration ---------------------------
(***************************************************************************)
(* generate_patch (patch_generation_service.py): the texts of the approved *)
(* files go into a prompt, the model answers after a while with operations *)
(* on them, and these are checked against the files there are then, with   *)
(* one repair.  Texts are versions; others may edit the files all along.   *)
(***************************************************************************)
EXTENDS Naturals, Sequences, FiniteSets, SequencesExt

CONSTANTS
    GeneratedPaths,
    GenerationTasks,    \* planned, targets : sequences of paths; unreadable : the
                        \* files that are not UTF-8; creation : may files be created?
    ContextFiles,       \* MAX_CONTEXT_FILES
    ContextTexts,       \* texts that fit into MAX_TOTAL_CONTEXT_CHARACTERS
    MaxTextEdits        \* bound on edits by others
ASSUME GenerationAssumption ==
    /\ GenerationTasks \subseteq
          [planned : Seq(GeneratedPaths), targets : Seq(GeneratedPaths),
           unreadable : SUBSET GeneratedPaths, creation : BOOLEAN]
    /\ ContextFiles \in Nat /\ ContextTexts \in Nat /\ MaxTextEdits \in Nat

Gone == 0       \* the version of a file that is not there
NoTexts == [p \in {} |-> Gone]

VARIABLES
    wanted,         \* the task and its plan
    versions,       \* of the texts
    textEdits,
    generation      \* at: where it is; asked: requests to the model; shown: what the
                    \* prompt has; hashes: of what was read; patch: does and expects;
                    \* checked, history: the files at the last dry run

generationVars == <<wanted, versions, textEdits, generation>>

GenerationInit ==
    /\ wanted \in GenerationTasks
    /\ versions \in [GeneratedPaths -> {Gone, 1}]
    /\ textEdits = 0
    /\ generation = [at |-> "reading", asked |-> 0, shown |-> NoTexts, hashes |-> NoTexts,
                     patch |-> [p \in {} |-> {}], checked |-> NoTexts]

(* The plan's paths, then the targets: what the patch may touch. *)
PathsOf(task) ==
    task.planned \o SelectSeq(task.targets, LAMBDA p : ~Contains(task.planned, p))
ApprovedPaths == PathsOf(wanted)

(* -------------------------------- prompt ------------------------------ *)

ReadableText(p) == versions[p] # Gone /\ p \notin wanted.unreadable
ReadBefore(i) == {j \in 1 .. i - 1 : ReadableText(ApprovedPaths[j])}
(* _build_file_context ends at the first text that does not fit; that one has  *)
(* been hashed.                                                                *)
InContext == {i \in DOMAIN ApprovedPaths :
                 /\ i <= ContextFiles
                 /\ Cardinality(ReadBefore(i)) <= ContextTexts}
FitsPrompt(i) == ReadableText(ApprovedPaths[i]) => Cardinality(ReadBefore(i)) < ContextTexts
TextsAt(numbers) ==
    [p \in {ApprovedPaths[i] : i \in numbers} |-> versions[p]]

ReadContext ==
    /\ generation.at = "reading"
    /\ generation' =
          IF ApprovedPaths = <<>> THEN [generation EXCEPT !.at = "failed"]
          ELSE [generation EXCEPT
                  !.at = "asking",
                  !.shown = TextsAt({i \in InContext :
                                        FitsPrompt(i) /\ ApprovedPaths[i] \notin wanted.unreadable}),
                  !.hashes = TextsAt({i \in InContext : ReadableText(ApprovedPaths[i])})]
    /\ UNCHANGED <<wanted, versions, textEdits>>

(* -------------------------------- answers ----------------------------- *)

\* "change" stands for replace_file, replace_text and unified_diff alike.
Does == {"create", "change"}
Proposals == UNION {[S -> Does] : S \in {T \in SUBSET GeneratedPaths : Cardinality(T) \in {1, 2}}}

\* Mutant: the hash is that of the file at the time of the answer.
ExpectedNow(p) == versions[p]

ExpectedHash(p) == IF p \in DOMAIN generation.hashes THEN generation.hashes[p] ELSE versions[p]

(* _to_patch_request of one operation.  A search text that was copied from the *)
(* file is in it; one from elsewhere or from an older text may be.             *)
Acceptable(does, p) ==
    /\ Contains(ApprovedPaths, p)
    /\ IF does = "create" THEN wanted.creation /\ versions[p] = Gone ELSE versions[p] # Gone
AcceptedPatch(proposal) ==
    [p \in DOMAIN proposal |-> [does |-> proposal[p], expects |-> ExpectedHash(p)]]

\* A refused answer and a failed dry run share the one repair.
Again(g) == IF g.asked = 1 THEN [g EXCEPT !.at = "asking"] ELSE [g EXCEPT !.at = "failed"]

AskModel ==
    /\ generation.at = "asking"
    /\ generation' = [generation EXCEPT !.at = "waiting", !.asked = @ + 1]
    /\ UNCHANGED <<wanted, versions, textEdits>>

\* _request_structured_patch raises: no answer, no JSON, too long, cancelled.
NoAnswer ==
    /\ generation.at = "waiting"
    /\ generation' = [generation EXCEPT !.at = "failed"]
    /\ UNCHANGED <<wanted, versions, textEdits>>

TakeAnswer ==
    /\ generation.at = "waiting"
    /\ \/ generation' = Again(generation)
       \/ \E proposal \in Proposals :
            /\ \A p \in DOMAIN proposal : Acceptable(proposal[p], p)
            /\ generation' = [generation EXCEPT !.at = "checking", !.patch = AcceptedPatch(proposal)]
    /\ UNCHANGED <<wanted, versions, textEdits>>

(* apply_patch with dry_run: every operation finds the file it expects.  Even  *)
(* so a text may not be found or a diff not fit.                               *)
PassesDry ==
    \A p \in DOMAIN generation.patch :
        versions[p] = IF generation.patch[p].does = "create" THEN Gone
                      ELSE generation.patch[p].expects
CheckPatchDry ==
    /\ generation.at = "checking"
    /\ \/ PassesDry /\ generation' = [generation EXCEPT !.at = "returned", !.checked = versions]
       \/ generation' = Again(generation)
    /\ UNCHANGED <<wanted, versions, textEdits>>

EditText ==
    /\ textEdits < MaxTextEdits /\ generation.at \notin {"returned", "failed"}
    /\ textEdits' = textEdits + 1
    /\ \E p \in GeneratedPaths, v \in {Gone, textEdits + 2} :
          v # versions[p] /\ versions' = [versions EXCEPT ![p] = v]
    /\ UNCHANGED <<wanted, generation>>

GenerationStep == ReadContext \/ AskModel \/ NoAnswer \/ TakeAnswer \/ CheckPatchDry
GenerationNext == GenerationStep \/ EditText

(* ------------------------------ properties ---------------------------- *)

\* No patch is returned that was made from a text that has changed since: each
\* file whose text was read for the prompt is, when the patch passes, the one
\* that was read.  (One that was not, being too far down, unreadable or not there
\* yet, is taken as the answer finds it.)
MadeFromCurrent ==
    generation.at = "returned" =>
        \A p \in DOMAIN generation.patch \cap DOMAIN generation.hashes :
            generation.patch[p].does # "create" => generation.checked[p] = generation.hashes[p]

\* A repair widens nothing: no path outside the plan and the targets, no file
\* created over another one or against the task, and one repair at most.
ScopeKept ==
    /\ generation.asked <= 2
    /\ generation.at = "returned" => \A p \in DOMAIN generation.patch :
          /\ Contains(ApprovedPaths, p)
          /\ generation.patch[p].does = "create" =>
                wanted.creation /\ generation.checked[p] = Gone

\* Both, over all requests.
GeneratedWithinPlan == MadeFromCurrent /\ ScopeKept

\* The generation ends, whatever the model answers.
GenerationIsSettled == generation.at \in {"returned", "failed"}
=============================================================================
