---------------------------- MODULE BuildCommands ----------------------------
(***************************************************************************)
(* How a check becomes a command (build_service.py): the factories of      *)
(* commands and the default sequence, the rules for the arguments of each  *)
(* kind, the environment, the executable, and the result of what is not    *)
(* run.  An argument is its name, casefolded and without a value, with     *)
(* what the rules ask about it.                                            *)
(***************************************************************************)
EXTENDS Naturals, Sequences, FiniteSets, SequencesExt

CONSTANTS
    Orders,         \* the commands asked for, see OrderOf
    Configurations, \* named, paths : executables a custom command may be, by name or
                    \* path; forbidden : arguments; limited : are they limited to options,
                    \* files : and files?  inherited, allowed : environment variables
    ServerVariables,    \* what the server's own environment has
    SensitiveVariables, \* named like secrets: no command may bring one of its own
    Programs        \* program -> where `which' finds it: system, repository, nowhere

VARIABLES
    order,
    configuration,
    interpreter,    \* where sys.executable is: system, repository
    launch          \* at: asked, refused, resolved, dry, skipped; what is run

commandVars == <<order, configuration, interpreter, launch>>

(* ------------------------------ arguments ----------------------------- *)

Argument(name, dash) ==
    [name |-> name, dash |-> dash, value |-> FALSE, at |-> "nowhere", text |-> "plain"]
Word(name) == Argument(name, FALSE)
Option(name) == Argument(name, TRUE)
Valued(name) == [Option(name) EXCEPT !.value = TRUE]
FileAt(name, place) == [Word(name) EXCEPT !.at = place]
Dot == FileAt(".", "inside")

Exactly(names) == {Option(n) : n \in names}
NoneNamed(args, names) == \A i \in DOMAIN args : args[i].name \notin names
FilesInside(args) ==
    \A i \in DOMAIN args : ~args[i].dash => args[i].at # "outside"

(* -------------------------------- kinds ------------------------------- *)

Managers == {"npm", "yarn", "pnpm"}
Kinds == {"python_compile", "pytest", "unittest", "ruff", "mypy", "npx", "frontend_test",
          "frontend_build", "typescript", "custom"} \cup Managers
OfPython == {"python_compile", "pytest", "unittest"}

\* Mutant: a kind of the frontend is npm's.
DefaultOfFrontend(kind) ==
    CASE kind \in OfPython -> "python"
      [] kind \in {"frontend_test", "frontend_build", "typescript"} -> "npm"
      [] OTHER -> kind

DefaultExecutable(kind) ==
    CASE kind \in OfPython -> "python"
      [] kind \in {"frontend_test", "frontend_build"} -> "npm"
      [] kind = "typescript" -> "npx"
      [] OTHER -> kind

\* _normalized_arguments_for_kind
Run(o) ==
    LET Else(default) == IF o.arguments = <<>> THEN default ELSE o.arguments
    IN CASE o.kind = "python_compile" -> <<Option("-m"), Word("compileall")>> \o o.arguments
         [] o.kind \in {"pytest", "unittest"} -> <<Option("-m"), Word(o.kind)>> \o o.arguments
         [] o.kind = "frontend_test" -> Else(<<Word("test"), Option("--"), Option("--runinband")>>)
         [] o.kind = "frontend_build" -> Else(<<Word("run"), Word("build")>>)
         [] o.kind = "typescript" -> Else(<<Word("tsc"), Option("--noemit")>>)
         [] OTHER -> o.arguments

(* ------------------------------ factories ----------------------------- *)

NoProgram == [name |-> "", path |-> FALSE]
OrderOf(kind, args, directory) ==
    [kind |-> kind, executable |-> NoProgram, arguments |-> args, directory |-> directory,
     sets |-> {}]

PythonCompile(paths, directory) == OrderOf("python_compile", paths, directory)
Pytest(args, directory) == OrderOf("pytest", args, directory)
Unittest(verbose, modules, directory) ==
    OrderOf("unittest", (IF verbose THEN <<Option("-v")>> ELSE <<>>) \o modules, directory)
Ruff(directory) == OrderOf("ruff", <<Word("check"), Dot>>, directory)
Mypy(directory) == OrderOf("mypy", <<Dot>>, directory)
FrontendTestBy(manager, directory) ==
    OrderOf(manager, <<Word("test")>> \o (IF manager = "yarn" THEN <<>> ELSE <<Option("--")>>)
                     \o <<Option("--runinband")>>, directory)
FrontendBuildBy(manager, directory) ==
    OrderOf(manager, (IF manager = "npm" THEN <<Word("run")>> ELSE <<>>) \o <<Word("build")>>, directory)
TypeScriptCheck(directory) == OrderOf("npx", <<Word("tsc"), Option("--noemit")>>, directory)
ByManager(manager, args) == OrderOf(manager, args, "inside")
ByNpx(args) == OrderOf("npx", args, "inside")
Custom(program, args) == [OrderOf("custom", args, "inside") EXCEPT !.executable = program]

\* create_default_validation_sequence with what is included.
DefaultSequence(included, backend, frontend) ==
    LET If(what, o) == IF what \in included THEN <<o>> ELSE <<>>
    IN <<PythonCompile(<<Dot>>, backend), Pytest(<<>>, backend)>>
       \o If("ruff", Ruff(backend)) \o If("mypy", Mypy(backend))
       \o If("tests", FrontendTestBy("npm", frontend))
       \o <<TypeScriptCheck(frontend)>>
       \o If("build", FrontendBuildBy("npm", frontend))

(* -------------------------------- rules ------------------------------- *)

\* BuildCommandSpec's validators.
WellFormed(o) == o.kind = "custom" => o.executable # NoProgram

Common(args) ==
    \A i \in DOMAIN args :
        /\ args[i] \notin Exactly({"--exec", "-exec", "--command", "-command", "-c", "-enc",
                                   "-encodedcommand", "--eval", "-e"})
        /\ args[i] \notin {Word("/c"), Word("/k")}
        /\ args[i].text # "composed"

CompileArguments(args) ==
    /\ args # <<>>
    /\ \A i \in DOMAIN args :
          IF args[i].dash THEN args[i] \in Exactly({"-q", "-f"}) ELSE args[i].at = "inside"
PytestArguments(args) ==
    NoneNamed(args, {"--pdb", "--trace", "--pdbcls", "--basetemp"}) /\ FilesInside(args)
UnittestOptions == Exactly({"-v", "--verbose", "-q", "--quiet", "-f", "--failfast",
                            "-b", "--buffer", "-c", "--catch"})
UnittestArguments(args) ==
    \A i \in DOMAIN args :
        IF args[i].dash THEN args[i] \in UnittestOptions
        ELSE args[i].at = "nowhere" /\ args[i].text = "plain"
AnalysisArguments(args) ==
    /\ NoneNamed(args, {"--config", "--config-file", "--python-executable",
                        "--custom-typeshed-dir", "--plugins"})
    /\ FilesInside(args)
ForbiddenCommands ==
    {"adduser", "author", "deprecate", "dist-tag", "login", "logout", "owner", "profile",
     "publish", "token", "unpublish", "whoami", "config", "set", "delete", "link", "unlink",
     "exec", "dlx", "create", "init"}
FirstCommand(args) ==
    {i \in DOMAIN args : ~args[i].dash /\ \A j \in 1 .. i - 1 : args[j].dash}
ManagerArguments(args) ==
    /\ args # <<>>
    /\ \A i \in FirstCommand(args) : args[i].name \notin ForbiddenCommands
    /\ NoneNamed(args, {"--global", "-g", "--registry", "--userconfig", "--globalconfig",
                        "--prefix", "--script-shell", "--unsafe-perm"})
NpxArguments(args) ==
    /\ args # <<>>
    /\ NoneNamed(args, {"--package", "-p", "--shell", "-c", "--call", "--yes", "-y"})
CustomArguments(o) ==
    /\ \/ o.executable.name \in configuration.named
       \/ o.executable.path /\ o.executable.name \in configuration.paths
    /\ \A i \in DOMAIN o.arguments :
          LET a == o.arguments[i]
          IN /\ a.name \notin configuration.forbidden
             /\ a.text = "plain"
             /\ configuration.limited => a.dash \/ (configuration.files /\ a.at = "inside")

\* validate_command_spec
ValidFor(o) ==
    /\ o.directory = "inside"
    /\ Common(o.arguments)
    /\ o.kind = "python_compile" => CompileArguments(o.arguments)
    /\ o.kind = "pytest" => PytestArguments(o.arguments)
    /\ o.kind = "unittest" => UnittestArguments(o.arguments)
    /\ o.kind \in {"ruff", "mypy"} => AnalysisArguments(o.arguments)
    /\ o.kind \in Managers => ManagerArguments(o.arguments)
    /\ o.kind = "npx" => NpxArguments(o.arguments)
    /\ o.kind = "custom" => CustomArguments(o)

(* ----------------------- environment and program ---------------------- *)

\* What BuildCommandSpec types; every program that may be asked for is somewhere.
ASSUME OrdersAssumption ==
    /\ Orders \subseteq
          [kind : Kinds, executable : [name : STRING, path : BOOLEAN],
           arguments : Seq([name : STRING, dash : BOOLEAN, value : BOOLEAN,
                            at : {"nowhere", "inside", "outside"},
                            text : {"plain", "odd", "composed"}]),
           directory : {"inside", "outside", "missing"}, sets : SUBSET STRING]
    /\ Programs \in [DOMAIN Programs -> {"system", "repository", "nowhere"}]
    /\ \A k \in Kinds \ {"custom"} : DefaultExecutable(k) \in DOMAIN Programs \cup {"python"}
    /\ \A o \in Orders : o.executable # NoProgram =>
          o.executable.name \in DOMAIN Programs \cup {"python"}

SafelySet(o) == o.sets \subseteq configuration.allowed \ SensitiveVariables

\* Where each value comes from; later ones go over earlier ones.
SafeEnvironment(o) ==
    [v \in (configuration.inherited \cap ServerVariables)
           \cup {"PYTHONUTF8", "PYTHONIOENCODING"} \cup o.sets |->
        IF v \in o.sets THEN "command"
        ELSE IF v \in {"PYTHONUTF8", "PYTHONIOENCODING"} THEN "fixed" ELSE "server"]

ProgramOf(o) ==
    IF o.executable # NoProgram THEN o.executable
    ELSE [name |-> DefaultExecutable(o.kind), path |-> o.kind \in OfPython]
Place(program) == IF program.name = "python" THEN interpreter ELSE Programs[program.name]

(* resolve_executable: one given as a path has to be in the policy, also the   *)
(* interpreter's; one that is looked up only if it is the repository's.        *)
Findable(program) ==
    /\ Place(program) # "nowhere"
    /\ program.path \/ Place(program) = "repository" => program.name \in configuration.paths

(* ------------------------------- actions ------------------------------ *)

CommandInit ==
    /\ order \in {o \in Orders : WellFormed(o)}
    /\ configuration \in Configurations
    /\ interpreter \in {"system", "repository"}
    /\ launch = [at |-> "asked", program |-> NoProgram, arguments |-> <<>>]

Resolves(o) == ValidFor(o) /\ SafelySet(o) /\ Findable(ProgramOf(o))

\* execute_command: a refused one has a result of its own.
Resolve ==
    /\ launch.at = "asked"
    /\ launch' =
          IF Resolves(order)
          THEN [at |-> "resolved", program |-> ProgramOf(order), arguments |-> Run(order)]
          ELSE [at |-> "refused", program |-> ProgramOf(order), arguments |-> order.arguments]
    /\ UNCHANGED <<order, configuration, interpreter>>
DryRun ==
    /\ launch.at = "resolved"
    /\ launch' = [launch EXCEPT !.at = "dry"]
    /\ UNCHANGED <<order, configuration, interpreter>>
\* Commands after a failed one, or after a cancellation: with the arguments as given.
Skip ==
    /\ launch.at = "asked"
    /\ launch' = [at |-> "skipped", program |-> ProgramOf(order), arguments |-> order.arguments]
    /\ UNCHANGED <<order, configuration, interpreter>>
CommandNext == Resolve \/ DryRun \/ Skip

(* ------------------------------ properties ---------------------------- *)

SomeIncluded == {{}, {"ruff", "mypy", "tests", "build"}}
MadeByDefault ==
    (UNION {ToSet(DefaultSequence(i, "inside", "inside")) : i \in SomeIncluded})
    \cup {FrontendTestBy(m, "inside") : m \in Managers}
    \cup {FrontendBuildBy(m, "inside") : m \in Managers}
    \cup {Unittest(v, <<>>, "inside") : v \in BOOLEAN}

\* The rules refuse nothing of what the factories make: a check with its default
\* arguments fails to start only for want of its directory or its program, or, if
\* it is Python's, because no policy names the interpreter, whose path is given in
\* full.  (The server's own configuration names none: server.py:420.)
DefaultsStart ==
    launch.at = "refused" /\ order \in MadeByDefault =>
        \/ Place(ProgramOf(order)) = "nowhere"
        \/ ProgramOf(order).name \notin configuration.paths

\* What is run is what the kind says, whichever way it was asked for: the kinds of
\* the frontend, without arguments, are the commands the factories make for npm.
SameCheck ==
    launch.at = "resolved" /\ order.arguments = <<>> /\ order.executable = NoProgram =>
        LET Made == CASE order.kind = "frontend_test" -> FrontendTestBy("npm", "inside")
                      [] order.kind = "frontend_build" -> FrontendBuildBy("npm", "inside")
                      [] order.kind = "typescript" -> TypeScriptCheck("inside")
                      [] OTHER -> order
        IN /\ launch.program.name = ProgramOf(Made).name
           /\ launch.arguments = Run(Made)

\* A check of Python works on files of the repository, by a program from outside
\* of it or one of the policy, in an environment with no variable of the server
\* but the listed ones, with none of the command's own that is named like a secret
\* and none where the program is looked for, unless the configuration allows that.
ChecksStayInside ==
    launch.at = "resolved" =>
        /\ order.kind \in {"python_compile", "pytest", "ruff", "mypy"} =>
              \A i \in DOMAIN launch.arguments :
                  launch.arguments[i].dash \/ launch.arguments[i].at # "outside"
        /\ \/ launch.program.name \in configuration.paths
           \/ ~launch.program.path /\ Place(launch.program) = "system"
        /\ \A v \in DOMAIN SafeEnvironment(order) :
              /\ SafeEnvironment(order)[v] = "server" => v \in configuration.inherited
              /\ v = "PATH" => SafeEnvironment(order)[v] = "server" \/ v \in configuration.allowed
              /\ SafeEnvironment(order)[v] = "command" => v \notin SensitiveVariables

\* All of this, for every command.
ChecksAreRun == DefaultsStart /\ SameCheck /\ ChecksStayInside
=============================================================================
