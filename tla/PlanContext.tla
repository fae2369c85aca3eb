----------------------------- MODULE PlanContext -----------------------------
(***************************************************************************)
(* PlanningService.build_context (planning_service.py): which files of the *)
(* repository a planning model is shown.  Candidates are visited in order  *)
(* of relevance; each brings in the files it imports and that import it,   *)
(* as far as the limits go, and a budget of tokens cuts the rest off.      *)
(***************************************************************************)
EXTENDS Naturals, Sequences, FiniteSets, SequencesExt

CONSTANTS
    SourceFiles,    \* files of the analysis, named by numbers
    Scores,         \* relevance
    MaxSelected,    \* maximum_selected_context_files
    MaxExpanded,    \* maximum_dependency_expanded_files
    TokenBudget,    \* what is left for the files
    EntryTokens     \* what an entry of a file may take
ASSUME PlanContextAssumption ==
    /\ SourceFiles \subseteq Nat /\ IsFiniteSet(SourceFiles) /\ Scores \subseteq Nat
    /\ MaxSelected \in Nat \ {0} /\ MaxExpanded \in Nat /\ TokenBudget \in Nat \ {0}
    /\ EntryTokens \subseteq Nat

VARIABLES
    readable,       \* files that are neither binary nor protected: the candidates
    imports,        \* pairs: the first imports the second
    score,          \* relevance of each file
    visit,          \* candidates not yet visited
    related,        \* what the visited candidate is linked to, not yet looked at
    selected,       \* in order
    expanded,       \* of them, brought in by an import
    budgeting,      \* the selection is over
    included,       \* selected files whose entry is within the budget
    tokens,         \* what their entries take
    finished        \* no more entries are taken

contextVars == <<readable, imports, score, visit, related, selected, expanded,
                 budgeting, included, tokens, finished>>

\* Relevant matches in the path weigh more than in symbols and imports: only
\* the order of the scores matters here, with the path to break ties.
MoreRelevant(f, g) == score[f] > score[g] \/ (score[f] = score[g] /\ f < g)

ContextInit ==
    /\ readable \in SUBSET SourceFiles
    /\ imports \in SUBSET {e \in SourceFiles \X SourceFiles : e[1] < e[2]}
    /\ score \in [SourceFiles -> Scores]
    /\ visit = readable /\ related = {}
    /\ selected = <<>> /\ expanded = {} /\ budgeting = FALSE
    /\ included = <<>> /\ tokens = <<>> /\ finished = FALSE

\* dependency_map and importer_map: only what is linked matters, not which way.
Linked(f) == {g \in SourceFiles : <<f, g>> \in imports \/ <<g, f>> \in imports}

\* Mutant: what a candidate brings in does not count for the limit.
RoomForExpansion == Cardinality(expanded) < MaxExpanded

\* A visited candidate may bring in another file.
RoomToExpand == Len(selected) < MaxSelected /\ Cardinality(expanded) < MaxExpanded

\* The most relevant candidate left.
Visit ==
    /\ ~ budgeting /\ related = {} /\ Len(selected) < MaxSelected
    /\ \E c \in visit :
          /\ \A d \in visit \ {c} : MoreRelevant(c, d)
          /\ visit' = visit \ {c}
          /\ selected' = IF c \in ToSet(selected) THEN selected ELSE Append(selected, c)
          /\ related' = IF Cardinality(expanded) < MaxExpanded THEN Linked(c) ELSE {}
    /\ UNCHANGED <<readable, imports, score, expanded, budgeting, included, tokens, finished>>

\* The next file it is linked to, in the order of their keys.
Bring ==
    /\ \E g \in related :
          /\ \A h \in related \ {g} : g < h
          /\ IF ~ RoomToExpand
             THEN related' = {} /\ UNCHANGED <<selected, expanded>>
             ELSE /\ related' = related \ {g}
                  /\ IF g \in ToSet(selected) \/ g \notin readable
                     THEN UNCHANGED <<selected, expanded>>
                     ELSE selected' = Append(selected, g) /\ expanded' = expanded \cup {g}
    /\ UNCHANGED <<readable, imports, score, visit, budgeting, included, tokens, finished>>

BeginBudget ==
    /\ ~ budgeting /\ related = {} /\ (visit = {} \/ Len(selected) >= MaxSelected)
    /\ budgeting' = TRUE
    /\ UNCHANGED <<readable, imports, score, visit, related, selected, expanded,
                   included, tokens, finished>>

\* used_context_tokens
TokensOf(sizes) ==
    LET total[n \in 0 .. Len(sizes)] == IF n = 0 THEN 0 ELSE total[n - 1] + sizes[n]
    IN total[Len(sizes)]

\* Entries are taken until one does not fit; the first always is.  How long one
\* is depends on its file and on the room the excerpts before it have left.
Show ==
    /\ budgeting /\ ~ finished /\ Len(included) < Len(selected)
    /\ \E size \in EntryTokens :
          IF included # <<>> /\ TokensOf(tokens) + size > TokenBudget
          THEN finished' = TRUE /\ UNCHANGED <<included, tokens>>
          ELSE /\ included' = Append(included, selected[Len(included) + 1])
               /\ tokens' = Append(tokens, size)
               /\ UNCHANGED finished
    /\ UNCHANGED <<readable, imports, score, visit, related, selected, expanded, budgeting>>

EndBudget ==
    /\ budgeting /\ ~ finished /\ Len(included) = Len(selected)
    /\ finished' = TRUE
    /\ UNCHANGED <<readable, imports, score, visit, related, selected, expanded,
                   budgeting, included, tokens>>

ContextNext == Visit \/ Bring \/ BeginBudget \/ Show \/ EndBudget
ContextSpec == ContextInit /\ [][ContextNext]_contextVars

(* ----------------------------- properties ----------------------------- *)

\* The limits hold, nothing is selected twice and nothing unreadable at all.
SelectionBounded ==
    /\ Len(selected) <= MaxSelected /\ Cardinality(expanded) <= MaxExpanded
    /\ Cardinality(ToSet(selected)) = Len(selected)
    /\ ToSet(selected) \subseteq readable

\* A less relevant file is preferred only for its import: whatever the limits
\* are, a file that is left out is less relevant than every one selected for
\* itself.
MostRelevantSelected ==
    \A f \in readable \ ToSet(selected), g \in ToSet(selected) \ expanded :
        MoreRelevant(g, f)

\* What is shown is the beginning of the selection, within the budget but for
\* its first file, which is the most relevant of all and always shown.
BudgetKept ==
    /\ IsPrefix(included, selected)
    /\ Len(included) > 1 => TokensOf(tokens) <= TokenBudget
    /\ finished /\ readable # {} =>
          /\ included # <<>>
          /\ \A f \in readable \ {included[1]} : MoreRelevant(included[1], f)

\* The prompt gets the most relevant files that fit.
ContextIsChosen == SelectionBounded /\ MostRelevantSelected /\ BudgetKept
=============================================================================
