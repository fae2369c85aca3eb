---------------------------- MODULE MCCodeBuilder ----------------------------
(***************************************************************************)
(* Components of Code Builder that share no state, for one run of TLC: no  *)
(* step of one can disturb another and no property speaks of two, so a     *)
(* behaviour that moves one of them at a time shows all there is.  Init    *)
(* chooses the one that is `live'; the others rest in an initial state.    *)
(***************************************************************************)
EXTENDS
    PlanContext, ChangePlanner, RepositoryIndex, OllamaClient,
    StructuredAnswer, PatchText, PatchDirectories,
    BackupStore, PatchGeneration, BuildCommands, StructuredCall

CONSTANTS
    Parts,          \* the components to look at
    p1, p2,         \* transactions
    folder, inner   \* paths, the second one inside the first

VARIABLE live

(* Inputs of the planner: two changes, or one with two steps. *)
SomeChanges ==
    {c \in Changes : /\ c.risk \in {1, 3}
                     /\ c.op # "rename" => c.to = Nowhere
                     /\ c.op # "delete" => c.risk = 3 \/ c.op = "create"}
SomeDrafts ==
    [files : [1 .. 2 -> SomeChanges], told : {TRUE}, risk : {1},
     steps : {<<[order |-> 1, deps |-> {}, paths |-> {}]>>}, needs : {{}}, long : {FALSE}]
    \cup
    [files : {<<[op |-> "create", path |-> p, to |-> Nowhere, risk |-> 1]>> : p \in PlanPaths},
     told : BOOLEAN, risk : {1, 2},
     steps : [1 .. 2 -> {s \in Steps : Cardinality(s.paths) = 1}], needs : {{}, PlanPaths},
     long : BOOLEAN]

SomeInside == {<<inner, folder>>}

(* Files and imports of the map. *)
SomeFiles ==
    <<File(<<>>, "m", "py"), File(<<>>, "m", "js"), File(<<".d">>, "m", "py"),
      File(<<"d">>, "__init__", "py"), File(<<"d">>, "index", "js"), File(<<"d">>, "m", "py"),
      File(<<"d", "e">>, "m", "py")>>
OfDotted == <<File(<<>>, "v", "py"), File(<<"v.1">>, "m", "py"), File(<<"v.1">>, "m", "js")>>
SomeListings ==
    LET listings == {SelectSeq(SomeFiles, LAMBDA f : f \in chosen) :
                        chosen \in SUBSET ToSet(SomeFiles)}
    IN listings \cup {s \o OfDotted : s \in listings}
SomeReferences ==
    [dots : 0 .. 3, parts : {<<>>, <<"m">>, <<"e", "m">>, <<"m.js">>}]
    \cup {[dots |-> 0, parts |-> <<"d">>]}
SomeHidden == [n \in {".d"} |-> "d"]
SomeDotted == "v.1" :> [name |-> "v", ext |-> "1"] @@ "m.js" :> [name |-> "m", ext |-> "js"]

(* Values in answers: with brackets, quotes and backslashes in strings. *)
Quoted(s) == <<"\"">> \o s \o <<"\"">>
Object(s) == <<"{">> \o s \o <<"}">>
SomeValues ==
    LET strings == {Quoted(<<>>), Quoted(<<"}">>), Quoted(<<"\\", "\"">>),
                    Quoted(<<"\\", "\\">>), Quoted(<<"{", "x">>)}
        simple == {Object(s) : s \in strings} \cup {<<"[">> \o s \o <<"]">> : s \in strings}
    IN simple \cup {Object(a \o b) : a \in strings, b \in simple} \cup {Object(<<>>)}
SomeBefore == {<<>>, <<"x">>, <<"\"", "x">>, <<"x", "}">>}
SomeAfter == {<<>>, <<"x">>, <<"}">>, <<"x", "{", "}">>, <<"\"">>}

(* Files and operations on their texts. *)
SomePieces == {<<"a">>, <<"b">>, LF, CRLF}
SomeTexts ==
    {FlattenSeq(s) : s \in UNION {[1 .. n -> SomePieces] : n \in 0 .. 3}}
    \cup {<<"a", "ff", "b", "lf">>, <<"a", "lf", "a", "ff", "a">>, <<"bom", "a", "lf">>}
SomeEdits ==
    [kind : {"replace_text", "insert_before", "insert_after"},
     search : {<<"a">>, <<"a", "b">>, <<"a", "a">>, LF}, content : {<<>>, <<"b", "a">>},
     expect : 0 .. 2]
SomeRanges ==
    [kind : {"replace_range"}, first : 1 .. 3, last : 1 .. 3,
     content : {<<>>, <<"b">>, <<"b", "cr", "lf", "a", "cr", "lf">>}]
SomePuts ==
    [kind : {"append_text", "prepend_text", "replace_file"},
     content : {<<>>, <<"b", "cr", "lf">>}]
SomeLines == {<<m, c, "lf">> : m \in {" ", "+", "-"}, c \in {"a", "b"}}
SomeHunks(n) ==
    [start : 0 .. 3, text : {FlattenSeq(s) : s \in [1 .. n -> SomeLines]}, honest : {TRUE}]
OddHunks ==
    [start : 0 .. 2, honest : {TRUE},
     text : {<<" ", "a", "lf", "+", "b">>, <<"-", "a", "lf", "\\", "lf", "+", "b", "lf">>,
             <<"-", "a", "ff", "+", "b", "ff">>, <<" ", "a", "ff", "b", "lf">>}]
SomeDiffs ==
    [kind : {"unified_diff"},
     hunks : {<<h>> : h \in OddHunks \cup {[g EXCEPT !.honest = b] :
                                g \in {k \in SomeHunks(2) : k.start < 3}, b \in BOOLEAN}}
             \cup {<<h, k>> : h \in {g \in SomeHunks(2) : SubSeq(g.text, 1, 2) = <<"-", "a">>},
                             k \in {g \in SomeHunks(1) : g.start > 1}}]
WithDefaults(asked) ==
    {[f \in DOMAIN NoOperation |-> IF f \in DOMAIN o THEN o[f] ELSE NoOperation[f]] : o \in asked}
SomeOperations ==
    {[o EXCEPT !.mode = m] : o \in WithDefaults(SomeEdits \cup SomeRanges \cup SomePuts),
                             m \in {"was", "crlf"}}
    \cup {[o EXCEPT !.final = f] : o \in WithDefaults(SomePuts), f \in {"yes", "no"}}
    \cup WithDefaults(SomeDiffs)

(* Operations of two transactions: in one new directory, over a move or not,  *)
(* and a file where the other one has a directory.                            *)
Put(path) == [kind |-> "put", path |-> path, to |-> path]
SomePaths == {<<"o">>, <<"d">>, <<"d", "f">>, <<"d", "h">>, <<"d", "e", "g">>, <<"d", "e", "k">>}
SomePatches ==
    p1 :> {<<Put(<<"d", "e", "g">>), Put(<<"d", "f">>)>>,
            <<[kind |-> "move", path |-> <<"o">>, to |-> <<"d", "e", "g">>], Put(<<"d", "f">>)>>,
            <<[kind |-> "delete", path |-> <<"o">>, to |-> <<"o">>], Put(<<"d">>)>>}
     @@ p2 :> {<<Put(<<"d", "h">>)>>, <<Put(<<"d", "e", "k">>), Put(<<"d", "h">>)>>}
FirstPaths == {<<"o">>}

(* Tasks to generate patches for: without a plan, with a plan that gives no     *)
(* target, with more paths than the prompt has room for.                        *)
SomeTasks ==
    [planned : {<<>>, <<1>>, <<2, 1>>, <<1, 2, 3>>}, targets : {<<>>, <<2>>},
     unreadable : {{}, {2}}, creation : BOOLEAN]

(* Contents to back up, of different sizes. *)
SomeSizes == [c \in FileContents |-> c]

(* Structured calls: messages up to and at the limits, in all roles.            *)
MessagesOf(roles, lengths) ==
    {m \in [role : roles, length : lengths, blanks : {0, 2}] : m.blanks <= m.length}
SomeMessages == MessagesOf({"system", "user", "critic"}, {0, 2, MaxLength})
SomeRequests ==
    LET requests(chat, messages) ==
            [chat : {chat}, schema : {"none", "model", "mapping", "empty", "both"}, told : BOOLEAN,
             object : {TRUE}, messages : messages, faults : {{}, {"options"}, {"timeout"}},
             verify : BOOLEAN, validated : {FALSE}]
        prompts == requests(FALSE, [1 .. 1 -> MessagesOf({"user"}, 0 .. MaxLength + 1)])
        chats == requests(TRUE, SeqOf(SomeMessages, 2))
    IN prompts \cup {r \in chats : r.faults = {} /\ r.schema \in {"none", "model"}}
       \cup {[r EXCEPT !.object = FALSE] : r \in prompts}
       \cup {[r EXCEPT !.validated = TRUE] : r \in {q \in prompts : q.schema = "model" /\ q.told}}

(* Commands: those of the factories, each kind with up to two arguments, ones    *)
(* with a program or variables of their own.                                    *)
SomeArguments ==
    {Word("check"), Word("publish"), Option("-v"), Option("-c"), Option("--config"),
     Option("-g"), Option("--yes"), Valued("--basetemp"), Dot, FileAt("x", "outside"),
     [Word("y") EXCEPT !.text = "odd"], [Word("z") EXCEPT !.text = "composed"]}
SomeOrders ==
    MadeByDefault
    \cup {OrderOf(k, args, "inside") : k \in Kinds \ (Managers \cup {"npx", "custom"}),
                                       args \in SeqOf(SomeArguments, 2)}
    \cup {ByManager(m, args) : m \in Managers, args \in SeqOf(SomeArguments, 2)}
    \cup {ByNpx(args) : args \in SeqOf(SomeArguments, 2)}
    \cup {Custom([name |-> n, path |-> p], args) : n \in {"tool", "ours"}, p \in BOOLEAN,
                                                 args \in SeqOf(SomeArguments, 1)}
    \cup {Pytest(<<>>, d) : d \in {"missing", "outside"}}
    \cup {[Mypy("inside") EXCEPT !.sets = v] : v \in SUBSET {"CI", "PATH", "PYTHONUTF8", "SECRET"}}
SomeConfigurations ==
    [named : {{}, {"tool"}}, paths : {{}, {"python"}, {"python", "ours"}},
     limited : {FALSE}, files : {TRUE}, forbidden : {{}},
     inherited : {{"PATH"}}, allowed : {{"CI", "PYTHONUTF8", "SECRET"}}]
    \cup
    [named : {{"tool"}}, paths : {{"python"}}, limited : {TRUE}, files : BOOLEAN,
     forbidden : {{"-v"}}, inherited : {{"PATH", "HOME"}}, allowed : {{}, {"PATH"}}]
SomePrograms ==
    "tool" :> "system" @@ "ours" :> "repository" @@ "mypy" :> "nowhere"
    @@ [p \in {"ruff", "npm", "yarn", "pnpm", "npx"} |-> "system"]

\* Files: with marks, with characters of two bytes over the end of the sample.
SomeReadFiles ==
    [name : {"plain"}, suffix : {"python", "code"}, under : {{}}, protected : BOOLEAN]
    \cup {[name |-> "plain", suffix |-> s, under |-> {}, protected |-> FALSE] :
             s \in {"asset", "binary"}}
    \cup {[name |-> n, suffix |-> "code", under |-> {"docs"} \cup u, protected |-> FALSE] :
             n \in {"test"}, u \in {{}, {"output"}, {"coverage", "tests"}, {"dependency"}}}
SomeOptions == [detects : {TRUE}, hashes : {TRUE}] \cup {[detects |-> FALSE, hashes |-> FALSE]}
SomeBytes ==
    {<<>>, <<"a", "a", "n", "a", "a">>, <<"a", "L", "T", "L", "U">>, <<"L", "T", "n", "L", "T">>,
     <<"L", "U", "L", "U", "n">>, <<"a", "T", "n">>, <<"a", "U">>, <<"a", "0">>,
     <<"a", "a", "a", "a", "0">>, <<"B", "L", "T", "0", "n">>, <<"B", "T">>, <<"W", "n", "0", "a", "0">>,
     <<"W", "a">>, <<"n", "n", "n", "n", "n", "n">>}
SomeVersions ==
    [cookie : {"none"}, bytes : SomeBytes]
    \cup [cookie : {"ascii", "latin", "unknown"},
          bytes : {<<"a", "n">>, <<"a", "a", "a", "n", "T">>, <<"L", "T", "n">>}]

\* A component begins in any of its initial states if it is live, else in this one.
Begins(part, init, one) == live = part => init
Resting(part, init, one) == live # part => one /\ init
Of(Begin(_, _, _)) ==
    /\ Begin("commands", CommandInit,
             /\ order = Pytest(<<>>, "inside") /\ interpreter = "system"
             /\ configuration = CHOOSE c \in SomeConfigurations : c.paths = {})
    /\ Begin("structured", StructuredInit,
             request = CHOOSE r \in SomeRequests : r.messages = <<>>)
    /\ Begin("answer", AnswerInit, value = Object(<<>>) /\ answer = value)
    /\ Begin("generation", GenerationInit,
             /\ wanted = CHOOSE t \in SomeTasks : TRUE
             /\ versions = [p \in GeneratedPaths |-> Gone])
    /\ Begin("reading", ReadingInit,
             /\ toRead = CHOOSE r \in SomeReadFiles : TRUE
             /\ options = CHOOSE o \in ReadingOptions : TRUE
             /\ version = CHOOSE v \in SomeVersions : v.bytes = <<>>)
    /\ Begin("text", TextInit, file = <<>>)
    /\ Begin("index", IndexInit, content = [p \in IndexedPaths |-> NoFileThere])
    /\ Begin("planner", PlannerInit, present = {} /\ asking = "model")
    /\ Begin("map", MapInit, listing = <<>>)
    /\ Begin("context", ContextInit,
             readable = {} /\ imports = {} /\ score = [f \in SourceFiles |-> 1])
Init ==
    /\ live \in Parts
    /\ Of(Resting) /\ Of(Begins)
    /\ disk = [p \in BackupPaths |-> IF p = 1 THEN 1 ELSE NoFile] /\ BackupInit
    /\ ClientInit /\ TreeInit

ContextMoves == live = "context" /\ ContextNext
PlannerMoves ==
    /\ live = "planner"
    /\ \/ Answer(SomeDrafts)
       \/ Refuse
       \/ GiveUp
       \/ Supply(SomeDrafts)
       \/ Convert
       \/ EditRepository
IndexMoves == live = "index" /\ IndexNext
MapMoves == live = "map" /\ MapNext
ClientMoves == live = "client" /\ ClientNext
AnswerMoves == live = "answer" /\ AnswerNext
TextMoves == live = "text" /\ TextNext
TreeMoves == live = "tree" /\ TreeNext
BackupMoves == live = "backup" /\ BackupNext
GenerationMoves == live = "generation" /\ GenerationNext
CommandMoves == live = "commands" /\ CommandNext
StructuredMoves == live = "structured" /\ StructuredStep
ReadingMoves == live = "reading" /\ ReadingNext

Moves ==
    \/ ContextMoves
    \/ PlannerMoves
    \/ IndexMoves
    \/ MapMoves
    \/ ClientMoves
    \/ AnswerMoves
    \/ TextMoves
    \/ TreeMoves
    \/ BackupMoves
    \/ GenerationMoves
    \/ CommandMoves
    \/ StructuredMoves
    \/ ReadingMoves
OthersRest ==
    /\ IF live = "context" THEN TRUE ELSE UNCHANGED contextVars
    /\ IF live = "planner" THEN TRUE ELSE UNCHANGED plannerVars
    /\ IF live = "index" THEN TRUE ELSE UNCHANGED indexVars
    /\ IF live = "map" THEN TRUE ELSE UNCHANGED mapVars
    /\ IF live = "client" THEN TRUE ELSE UNCHANGED clientVars
    /\ IF live = "answer" THEN TRUE ELSE UNCHANGED answerVars
    /\ IF live = "text" THEN TRUE ELSE UNCHANGED textVars
    /\ IF live = "tree" THEN TRUE ELSE UNCHANGED treeVars
    /\ IF live = "backup" THEN TRUE ELSE UNCHANGED backupVars
    /\ IF live = "generation" THEN TRUE ELSE UNCHANGED generationVars
    /\ IF live = "commands" THEN TRUE ELSE UNCHANGED commandVars
    /\ IF live = "structured" THEN TRUE ELSE UNCHANGED exchangeVars
    /\ IF live = "reading" THEN TRUE ELSE UNCHANGED readingVars
Next == Moves /\ OthersRest /\ UNCHANGED live
vars == <<live, contextVars, plannerVars, indexVars, mapVars, clientVars, answerVars, textVars,
          treeVars, backupVars, generationVars, commandVars, exchangeVars, readingVars>>

\* What goes on by itself: a thread with its calls, or the one thread there is of
\* the generation of a patch and of a structured call.
GoesOn(t) ==
    /\ \/ live = "client" /\ ClientStep(t)
       \/ live = "generation" /\ GenerationStep
       \/ live = "structured" /\ StructuredStep
    /\ OthersRest /\ UNCHANGED live
Spec == Init /\ [][Next]_vars /\ \A t \in CallThreads : WF_vars(GoesOn(t))

\* What is cut out of an answer and what a patch makes of a text is exact.
TextsAreExact == ValueIsCut /\ OnlyPlaceChanged /\ OtherLinesKept /\ DiffSplices /\ OneNewline

\* The model is asked as the caller wants, once per try and over a client of the
\* caller's own loop, and what it answers is what the caller asked for; every call,
\* and the generation of every patch, comes to its end.
ModelCallsAreKept ==
    /\ ClientsAreKept
    /\ [](InstructionIsGiven /\ AnswerIsAsAsked)
    /\ \A t \in CallThreads : []<>(/\ live = "client" => CallIsOver(t)
                                   /\ live = "structured" => StructuredIsOver
                                   /\ live = "generation" => GenerationIsSettled)
=============================================================================
