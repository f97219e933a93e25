----------------------------- MODULE ForgeBridge -----------------------------
(***************************************************************************)
(* llmtg.simulation.forge: a program configures a ForgeEngine from the       *)
(* machine it runs on and plays games with it, one call of play_game at a    *)
(* time, each by one child process that reads the request and writes the     *)
(* answer.                                                                  *)
(*                                                                         *)
(* Outside src/ and modelled by what the code relies on: the bridge, which   *)
(* may write anything or nothing, exit with any code or never, and start a   *)
(* helper (the Java program of a wrapper script) that inherits its output;   *)
(* the machine, whose files may change between any two steps; and           *)
(* subprocess.run, which returns when the child has exited and nobody holds  *)
(* its output any more, and at the timeout kills the child, not the helper,  *)
(* and (as it does on POSIX) does not wait for the output.                   *)
(***************************************************************************)
EXTENDS ForgeRuntime, Runner

CONSTANTS
    DeckIds,      \* what deck_id can be
    PolicyIds,    \* what policy_id can be
    Machines,     \* pairs of an environment and file systems it can have
    Requests,     \* arguments of play_game: decks, policies and a seed
    Answers,      \* JSON objects a bridge writes, by the fields that are read
    Timeout,      \* timeout_seconds, in ticks
    None          \* no engine, request, child or reply

\* A number n, or nothing a number (a field that is absent is one).
ValueType == [type : {"int", "bool", "float", "other"}, n : Int]

Fields == [version : ValueType, winner_index : ValueType, turns : ValueType]

\* What stands on the standard output: nothing (or spaces), bytes that are not
\* text, text that is not one JSON document, a document that is not an object,
\* or an object.
Outputs == [kind : {"nothing", "bytes", "text", "value"}] \cup [kind : {"object"}, fields : Answers]

ASSUME MachinesAssumption ==
    \A m \in Machines : /\ m.env \in EnvType
                        /\ m.fileSystems \subseteq FileSystemType
                        /\ \A f \in m.fileSystems :
                              /\ f.dirs \cap f.files = {}
                              /\ f.closed \subseteq f.dirs
                              /\ \A c \in Anywhere, d \in Paths :
                                    f.commands[c][d] = f.commands[c][NoPath]
                              /\ \A p \in Paths : IsFiniteSet(f.jars[p])
ASSUME RequestsAssumption ==
    Requests \subseteq [decks : Seq(DeckIds), policies : Seq(PolicyIds), seed : Int]
ASSUME AnswersAssumption == Answers \subseteq Fields
ASSUME TimeoutAssumption == Timeout \in Nat \ {0}

\* build_game_request: the players the bridge is told of.
BuildGameRequest(r) ==
    [i \in 1 .. Len(r.decks) |->
        [seat |-> i - 1, policy_id |-> r.policies[i], deck_id |-> r.decks[i]]]

\* Children of a request r.
Children(r) ==
    [input : {BuildGameRequest(r)}, output : Outputs, exit : {-1, 0, 1}, helper : BOOLEAN]

Errors == {"protocol", "configuration", "execution", "OSError", "UnicodeDecodeError"}

\* How a call of a request r can end.
Replies(r) ==
    [kind : {"raised"}, error : Errors]
        \cup [kind : {"result"},
              result : [winner_index : Nat, turns : Nat, seed : {r.seed},
                        deck_ids : {r.decks}, policy_ids : {r.policies}]]

ASSUME NoneAssumption ==
    /\ None \notin ConfigType
    /\ \A r \in Requests : None \notin Children(r) \cup Replies(r)

VARIABLES
    machine,  \* whose program this is; it does not change
    fs,       \* its files at the moment
    engine,   \* the ForgeEngine, by its configuration, or None
    request,  \* arguments of the call in progress, or None
    child,    \* the child process of the call, or None
    elapsed,  \* ticks since it was started
    reply     \* how the last call ended, or None

caller == <<machine, engine>>
vars   == <<machine, fs, engine, request, child, elapsed, reply>>

Init ==
    /\ machine \in Machines
    /\ fs \in machine.fileSystems
    /\ engine = None
    /\ request = None
    /\ child = None
    /\ elapsed = 0
    /\ reply = None

Raised(error) == [kind |-> "raised", error |-> error]

\* The call ends and its child is forgotten.
EndCall(how) ==
    /\ reply' = how
    /\ request' = None
    /\ child' = None
    /\ elapsed' = 0

-----------------------------------------------------------------------------
\* Files come and go.
Change ==
    /\ \E other \in machine.fileSystems \ {fs} : fs' = other
    /\ UNCHANGED <<caller, request, child, elapsed, reply>>

CurrentConfig == FromEnvironment(machine.env, fs)

\* ForgeEngine.from_runtime_config of the current environment; with no bridge
\* it raises ForgeConfigurationError and there is no engine.
Configure ==
    /\ request = None
    /\ engine' = IF CurrentConfig.bridge_path = NoPath THEN None ELSE CurrentConfig
    /\ engine' # engine
    /\ UNCHANGED <<machine, fs, request, child, elapsed, reply>>

\* play_game is called.
Ask(r) ==
    /\ engine # None
    /\ request = None
    /\ request' = r
    /\ reply' = None
    /\ UNCHANGED <<caller, fs, child, elapsed>>

\* build_game_request raises ForgeProtocolError.
Refuse ==
    /\ request # None
    /\ child = None
    /\ ~EngineAccepts(request.decks, request.policies)
    /\ EndCall(Raised("protocol"))
    /\ UNCHANGED <<caller, fs>>

\* What comes of executing a path: only files are executed.
Execute(path) ==
    CASE path \in fs.files -> fs.executes[path]
      [] path \in fs.dirs  -> "refused"
      [] OTHER             -> "missing"

\* What comes of entering a directory.
Enter(path) ==
    CASE path \in fs.dirs \ fs.closed                -> "runs"
      [] path \in fs.closed \/ path \in fs.files      -> "refused"
      [] OTHER                                        -> "missing"

\* What comes of Popen: the child enters the working directory, then executes the
\* program from there.  The interpreter is the one that runs this program.
StartOutcome ==
    IF engine.working_dir # NoPath /\ Enter(engine.working_dir) # "runs"
    THEN Enter(engine.working_dir)
    ELSE CASE Program(engine) = "python" -> "runs"
           [] Program(engine) = "java"   -> fs.commands[engine.java_executable][engine.working_dir]
           [] OTHER                      -> Execute(engine.bridge_path)

\* An interpreter that fails or finds no bridge exits at once.
StillBorn == StartOutcome = "fails" \/ engine.bridge_path \notin fs.files

\* Mutation: the request is built without the guards of build_game_request.
StartUnchecked ==
    /\ request # None
    /\ child = None
    /\ UNCHANGED <<caller, fs>>
    /\ \/ StartOutcome = "missing" /\ EndCall(Raised("configuration"))
       \/ StartOutcome = "refused" /\ EndCall(Raised("OSError"))
       \/ /\ StartOutcome \in {"runs", "fails"}
          /\ child' = [input |-> BuildGameRequest(request), output |-> [kind |-> "nothing"],
                       exit |-> IF StillBorn THEN 1 ELSE -1, helper |-> FALSE]
          /\ UNCHANGED <<request, elapsed, reply>>

\* The child is started, the request on its standard input, or an OSError is
\* raised: FileNotFoundError becomes ForgeConfigurationError, others escape.
Start ==
    /\ request # None
    /\ child = None
    /\ EngineAccepts(request.decks, request.policies)
    /\ UNCHANGED <<caller, fs>>
    /\ \/ StartOutcome = "missing" /\ EndCall(Raised("configuration"))
       \/ StartOutcome = "refused" /\ EndCall(Raised("OSError"))
       \/ /\ StartOutcome \in {"runs", "fails"}
          /\ child' = [input |-> BuildGameRequest(request), output |-> [kind |-> "nothing"],
                       exit |-> IF StillBorn THEN 1 ELSE -1, helper |-> FALSE]
          /\ UNCHANGED <<request, elapsed, reply>>

-----------------------------------------------------------------------------
(***************************************************************************)
(* The bridge.                                                             *)
(***************************************************************************)
Exited == child.exit >= 0

BridgeStep(next) ==
    /\ child # None
    /\ child' = next
    /\ UNCHANGED <<caller, fs, request, elapsed, reply>>

\* Whoever holds the output writes.
Write(output) ==
    /\ child # None
    /\ ~Exited \/ child.helper
    /\ child.output.kind = "nothing"
    /\ BridgeStep([child EXCEPT !.output = output])

\* Two documents are not one.
WriteMore(output) ==
    /\ child # None
    /\ ~Exited \/ child.helper
    /\ child.output.kind \notin {"nothing", "bytes"}
    /\ output.kind \in {"bytes", "text"}
    /\ BridgeStep([child EXCEPT !.output = output])

StartHelper ==
    /\ child # None
    /\ ~Exited
    /\ ~child.helper
    /\ BridgeStep([child EXCEPT !.helper = TRUE])

EndHelper ==
    /\ child # None
    /\ child.helper
    /\ BridgeStep([child EXCEPT !.helper = FALSE])

Exit(code) ==
    /\ child # None
    /\ ~Exited
    /\ BridgeStep([child EXCEPT !.exit = code])

-----------------------------------------------------------------------------
(***************************************************************************)
(* The answer.                                                             *)
(***************************************************************************)
\* In Python True is the int 1, and 1.0 equals 1 but is no int.
EqualsOne(value) == value.type # "other" /\ value.n = 1
IsInt(value)     == value.type \in {"int", "bool"}

\* Mutation: a winner counted from 1.
ParsesFromOne(fields, players) ==
    /\ EqualsOne(fields.version)
    /\ IsInt(fields.winner_index) /\ fields.winner_index.n \in 1 .. players
    /\ IsInt(fields.turns) /\ fields.turns.n >= 1

\* parse_game_response accepts the fields.
Parses(fields, players) ==
    /\ EqualsOne(fields.version)
    /\ IsInt(fields.winner_index) /\ fields.winner_index.n \in 0 .. players - 1
    /\ IsInt(fields.turns) /\ fields.turns.n >= 1

\* Nobody holds the output, so subprocess.run can return.
Finished == child # None /\ Exited /\ ~child.helper

Answered ==
    /\ child.exit = 0
    /\ child.output.kind = "object"
    /\ Parses(child.output.fields, Len(request.decks))

\* play_game returns a result.
Return ==
    /\ Finished
    /\ Answered
    /\ EndCall([kind |-> "result",
                result |-> [winner_index |-> child.output.fields.winner_index.n,
                           turns |-> child.output.fields.turns.n, seed |-> request.seed,
                           deck_ids |-> request.decks, policy_ids |-> request.policies]])
    /\ UNCHANGED <<caller, fs>>

\* The answer is no result: ForgeExecutionError; bytes that are not text
\* escape as UnicodeDecodeError, whatever the exit code.
Reject ==
    /\ Finished
    /\ ~Answered
    /\ EndCall(Raised(IF child.output.kind = "bytes" THEN "UnicodeDecodeError" ELSE "execution"))
    /\ UNCHANGED <<caller, fs>>

Tick ==
    /\ child # None
    /\ elapsed < Timeout
    /\ elapsed' = elapsed + 1
    /\ UNCHANGED <<caller, fs, request, child, reply>>

\* Mutation: the clock of the timeout stops once the child has exited.
TimesOutUnlessExited ==
    /\ child # None
    /\ elapsed = Timeout
    /\ ~Exited
    /\ EndCall(Raised("execution"))
    /\ UNCHANGED <<caller, fs>>

\* TimeoutExpired, although the child may have exited or have answered.
TimesOut ==
    /\ child # None
    /\ elapsed = Timeout
    /\ EndCall(Raised("execution"))
    /\ UNCHANGED <<caller, fs>>

-----------------------------------------------------------------------------
Bridge == (\E o \in Outputs : Write(o) \/ WriteMore(o)) \/ StartHelper \/ EndHelper \/ (\E code \in 0 .. 1 : Exit(code))

PlayGame == Refuse \/ Start \/ Return \/ Reject \/ TimesOut

Next == Change \/ Configure \/ (\E r \in Requests : Ask(r)) \/ PlayGame \/ Tick \/ Bridge

\* Python runs and time passes.  Nothing is assumed of the bridge.
FairSpec == Init /\ [][Next]_vars /\ WF_vars(PlayGame) /\ WF_vars(Tick)

Spec == Init /\ [][Next]_vars

-----------------------------------------------------------------------------
\* The variables have their types; a child belongs to a call, and a call to an
\* engine.
TypeOK ==
    /\ machine \in Machines
    /\ fs \in machine.fileSystems
    /\ engine \in ConfigType \cup {None}
    /\ engine # None => engine.bridge_path # NoPath
    /\ request \in Requests \cup {None}
    /\ request # None => engine # None /\ reply = None
    /\ child # None =>
          /\ request # None
          /\ EngineAccepts(request.decks, request.policies)
          /\ child \in Children(request)
    /\ elapsed \in 0 .. Timeout
    /\ child = None => elapsed = 0
    /\ reply = None \/ \E r \in Requests : reply \in Replies(r)

NewReply(rep) == reply' # reply /\ reply' = rep

\* The doctor starts java from its own directory and the bridge not at all, so it
\* can speak only for a java that is the same program everywhere and for a bridge
\* whose own interpreter is installed.
DoctorCanTell(config) ==
    /\ Program(config) = "java" => config.java_executable \in Anywhere
    /\ Program(config) = "bridge" => fs.executes[config.bridge_path] # "missing"

\* If the doctor, asked at that moment about the environment the engine was
\* configured from, finds all five things in order, then the program can get an
\* engine, and no call of one the doctor can tell about raises
\* ForgeConfigurationError.
DoctorPredictsStart ==
    [][ AllChecksPass(Doctor(CurrentConfig, fs)) =>
            /\ engine # None => engine' # None
            /\ engine = CurrentConfig /\ DoctorCanTell(engine)
                  => ~NewReply(Raised("configuration")) ]_vars

\* ForgeConfigurationError's docstring: raised when the configured bridge cannot
\* be started.  So no other error ends a call whose child never ran.
StartFailuresAreConfigurationErrors ==
    [][ (request # None /\ child = None /\ reply' # reply)
            => reply' \in {Raised("protocol"), Raised("configuration")} ]_vars

\* Every call ends, whatever the bridge and its helper do.
CallsEnd == request # None ~> request = None

-----------------------------------------------------------------------------
(***************************************************************************)
(* ForgeEngine is a SimulationEngine.                                      *)
(***************************************************************************)
\* Which exception it was does not matter.
ReplyOf(rep) == IF rep = None \/ rep.kind = "result" THEN rep ELSE [kind |-> "raised"]

Abstract == INSTANCE GameEngine WITH reply <- ReplyOf(reply)

\* Whatever the bridge writes, a call ends with a well-formed result of the game
\* asked for, or raises.
ImplementsEngine == Abstract!Spec
=============================================================================
