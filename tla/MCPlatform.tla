----------------------------- MODULE MCPlatform -----------------------------
(***************************************************************************)
(* Components of the platform that share no state, for one run of TLC: no  *)
(* step of one can disturb another and no property speaks of two, so a     *)
(* behaviour that moves one of them at a time shows all there is.  Init    *)
(* chooses the one that is `live'; the others rest in an initial state.    *)
(***************************************************************************)
EXTENDS RepairLoop, TaskPipeline, BuildProcess, ImageProviders, DocumentDrafts

CONSTANTS
    Components,         \* the components to look at
    a, b, x, y,         \* paths and texts
    e1, e2,             \* executions
    r1, r2              \* requests for images

VARIABLE live

(* Pages of an application under repair. *)
SomePages ==
    [checks : {Critical}, errors : {{}, {"network"}}]
    \cup [checks : {{"page_loads"}}, errors : {{"network"}}]
    \cup [checks : {Critical \ {"task_added"}}, errors : {{"console"}}]

(* Requests of a task that differ from a usual one in one of their policies,  *)
(* with and without operations of their own.                                  *)
MCFiles == {[p \in {a, b} |-> IF p = a THEN x ELSE Absent]}
Usual == [dry |-> FALSE, targets |-> {b}, backup |-> "required",
          build |-> "required", stop |-> TRUE, rollback |-> "on_any_failure",
          given |-> TRUE]
MCRequests ==
    {Usual, [Usual EXCEPT !.dry = TRUE, !.given = FALSE, !.backup = "disabled"],
     [Usual EXCEPT !.given = FALSE, !.build = "disabled",
                   !.rollback = "on_patch_failure"],
     [Usual EXCEPT !.targets = {}, !.backup = "optional", !.rollback = "on_build_failure",
                   !.build = "optional", !.stop = FALSE]}

Op(does, path, to, text, expect, lenient) ==
    [kind |-> does, path |-> path, to |-> to, text |-> text, expect |-> expect,
     lenient |-> lenient]
MCPatches ==
    {<<Op("write", a, a, y, x, FALSE), Op("create", b, b, y, NoHash, FALSE)>>,
     <<Op("create", b, b, y, NoHash, TRUE), Op("delete", a, a, x, NoHash, FALSE)>>,
     <<Op("rename", a, b, x, NoHash, FALSE)>>}
(* Executions: one that prints, or two silent ones with one command id. *)
SomeSetups ==
    {[ids |-> e1 :> "id", prints |-> {e1}, sought |-> {}],
     [ids |-> e1 :> "id" @@ e2 :> "id", prints |-> {}, sought |-> {e1}]}
MCCommands == <<[must |-> TRUE], [must |-> FALSE]>>

SomePositions == [p \in Providers |-> IF p = Direct THEN 2 ELSE 1]

\* Requests for drafts, of one fact that weighs and one that does not; and drafts
\* with one claim or one sentence.
NoFacts == [f \in {} |-> 0]
SomeDraftRequests ==
    LET ofMode(mode, types) ==
            [mode : {mode}, types : types, objective : {"clear"}, primary : {"groq", "ollama"},
             fallback : {{}, {"groq"}, {"sambanova"}}, allowed : BOOLEAN, profile : {TRUE},
             verified : {"name" :> x}, user : {NoFacts, "fee" :> y}, blank : {{}, {"DATE"}}]
        single == ofMode("single", {<<"nda">>})
        pack == {r \in ofMode("pack", {<<"nda", "invoice", "nda">>}) :
                    r.blank = {} /\ DOMAIN r.user = {}}
    IN ofMode("natural", {<<"nda">>}) \cup single \cup pack
       \cup {[r EXCEPT !.objective = o] : r \in single \cup pack, o \in {"unclear", "blank"}}
       \cup {[r EXCEPT !.types = t] : r \in single \cup pack, t \in {<<>>, <<"poem">>}}
       \cup {[r EXCEPT !.profile = FALSE] : r \in single}
       \cup {[r EXCEPT !.primary = NoProvider] : r \in single}
       \cup {[r EXCEPT !.fallback = {NoProvider}] : r \in single}
SomeClaims ==
    [field : {"name", "fee", "note"}, value : {x, y}, origin : {"verified", "user", "generated"}]
PlainDraft ==
    [asTyped |-> TRUE, claims |-> {}, stated |-> {}, found |-> {}, declared |-> {}]
SomeDrafts ==
    {[PlainDraft EXCEPT !.asTyped = FALSE]}
    \cup {[PlainDraft EXCEPT !.claims = {c}] : c \in SomeClaims}
    \cup {[PlainDraft EXCEPT !.stated = s, !.found = f, !.declared = d] :
             s \in {{}, {{}}, {{y}}, {{x, y}}}, f \in {{}, {"DATE"}}, d \in {{}, {"DATE"}}}

\* A component that is not live rests in one of its initial states.  Texts are alike,
\* and so are folders: of those that differ by a permutation one is enough.
SomeFolder == CHOOSE f \in Folders : TRUE
Missed == {f \in Folders : parent[f] = Missing}
Init ==
    /\ live \in Components
    /\ MediaInit /\ (live # "media" => kind = "image" /\ todo # <<>>)
    /\ StudioInit
    /\ doc.text.body = CHOOSE t \in Bodies : TRUE
    /\ IF live = "studio" THEN SomeFolder \in Missed => Missed = Folders ELSE Missed = {}
    /\ RepairInit
    /\ live # "repair" => setup = [runtime |-> "local", app |-> "todo", keys |-> {}]
    /\ PipelineInit /\ (live # "pipeline" => request = Usual)
    /\ ProcessInit /\ (live # "build" => executions.prints = {})
    /\ RoutingInit /\ (live # "images" => able = {} /\ autoFallback)
    /\ draft \in (IF live = "drafts" THEN DraftRequests ELSE {CHOOSE r \in DraftRequests : TRUE})
    /\ DraftInit

MediaMoves == live = "media" /\ MediaNext
\* Handlers are alike: the first one takes what is asked, if it is free.
FirstHandler == CHOOSE h \in Handlers : TRUE
StudioMoves ==
    /\ live = "studio" /\ StudioNext
    /\ \A h \in Handlers \ {FirstHandler} :
          handler[h] = NoRequest /\ handler'[h] # NoRequest => handler[FirstHandler] # NoRequest
RepairMoves == live = "repair" /\ RepairNext
\* Operations that come with the request come with the plan that lists them.
PipelineMoves ==
    live = "pipeline" /\ PipelineNext /\ (request.given => listed' = plan')
BuildMoves == live = "build" /\ ProcessNext
\* Requests for images are alike: the first one comes first.
ImageMoves ==
    live = "images" /\ RoutingNext /\ (routing[r1] = NotAsked => routing'[r2] = NotAsked)
DraftMoves == live = "drafts" /\ DraftStep

OthersRest ==
    /\ IF live = "media" THEN TRUE ELSE UNCHANGED mediaVars
    /\ IF live = "studio" THEN TRUE ELSE UNCHANGED studioVars
    /\ IF live = "repair" THEN TRUE ELSE UNCHANGED repairVars
    /\ IF live = "pipeline" THEN TRUE ELSE UNCHANGED pipelineVars
    /\ IF live = "build" THEN TRUE ELSE UNCHANGED buildProcessVars
    /\ IF live = "images" THEN TRUE ELSE UNCHANGED routingVars
    /\ IF live = "drafts" THEN TRUE ELSE UNCHANGED draftVars
Next ==
    /\ MediaMoves \/ StudioMoves \/ RepairMoves \/ PipelineMoves \/ BuildMoves \/ ImageMoves
       \/ DraftMoves
    /\ OthersRest /\ UNCHANGED live
vars == <<live, mediaVars, studioVars, repairVars, pipelineVars, buildProcessVars, routingVars,
          draftVars>>

\* What goes on by itself: each of two executions or two requests, or the one thread
\* of the other components.
GoesOn(execution, r) ==
    /\ \/ live = "media" /\ Task
       \/ live = "repair" /\ RepairStep
       \/ live = "pipeline" /\ PipelineStep
       \/ live = "build" /\ execution \in DOMAIN executions.ids /\ ExecutionStep(execution)
       \/ live = "images" /\ RoutingStep(r)
       \/ live = "drafts" /\ DraftStep
    /\ OthersRest /\ UNCHANGED live
Spec == Init /\ [][Next]_vars /\ WF_vars(GoesOn(e1, r1)) /\ WF_vars(GoesOn(e2, r2))

\* Whatever the component that is live has been asked for comes to its end, and
\* has come to it for good.
EveryWorkEnds ==
    <>[](/\ live = "media" => JobIsSettled
         /\ live = "repair" => RepairIsOver
         /\ live = "pipeline" => ExecutionIsOver
         /\ live = "build" => ExecutionsAreOver
         /\ live = "images" => RoutingIsSettled
         /\ live = "drafts" => DraftIsSettled)
=============================================================================
