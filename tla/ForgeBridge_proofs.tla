-------------------------- MODULE ForgeBridge_proofs --------------------------
(***************************************************************************)
(* Theorems about module ForgeBridge, for any machines, any requests, any    *)
(* answers of a bridge and any timeout: the types, what the doctor's checks  *)
(* promise, and that ForgeEngine is a SimulationEngine.                     *)
(***************************************************************************)
EXTENDS ForgeBridge, FiniteSetTheorems, TLAPS

-----------------------------------------------------------------------------
(***************************************************************************)
(* Of finitely many JARs one is the newest.                                *)
(***************************************************************************)

\* j is as new as every JAR of the set.
NewestOf(j, jars) == j \in jars /\ \A k \in jars : k.mtime <= j.mtime

\* A set without a newest JAR would have a smallest subset without one, and that
\* has one if it loses any of its JARs.
LEMMA NewestExists ==
    ASSUME NEW jars, jars \subseteq JarType, IsFiniteSet(jars), jars # {}
    PROVE  \E j \in jars : NewestOf(j, jars)
<1> DEFINE Counter == {S \in SUBSET jars : S # {} /\ \A j \in S : ~NewestOf(j, S)}
<1> SUFFICES ASSUME Counter # {} PROVE FALSE
  <2>1. jars \notin Counter => \E j \in jars : NewestOf(j, jars)
    OBVIOUS
  <2>2. QED
    BY <2>1
<1>1. IsWellFoundedOn(StrictSubsetOrdering(jars), SUBSET jars)
  BY FS_StrictSubsetOrderingWellFounded, FS_FiniteSubsetsOfFinite
<1>2. Counter \subseteq SUBSET jars
  OBVIOUS
<1>3. PICK S \in Counter : \A T \in Counter : <<T, S>> \notin StrictSubsetOrdering(jars)
  <2> HIDE DEF Counter
  <2> QED
    BY <1>1, <1>2, WFMin
<1>4. S \subseteq jars /\ S # {} /\ \A j \in S : ~NewestOf(j, S)
  OBVIOUS
<1>5. PICK x \in S : TRUE
  BY <1>4
<1> DEFINE Rest == S \ {x}
<1>6. Rest \notin Counter
  <2>1. Rest \subseteq S /\ Rest # S /\ Rest \in SUBSET jars
    BY <1>4, <1>5
  <2>2. <<Rest, S>> \in StrictSubsetOrdering(jars)
    BY <2>1, <1>4 DEF StrictSubsetOrdering
  <2>3. QED
    BY <1>3, <2>2
<1>7. \A j \in jars : j.mtime \in Nat
  BY DEF JarType
<1>8. CASE Rest = {}
  <2>1. S = {x}
    BY <1>5, <1>8
  <2>2. NewestOf(x, S)
    BY <2>1, <1>4, <1>7 DEF NewestOf
  <2>3. QED
    BY <2>2, <1>4, <1>5
<1>9. CASE Rest # {}
  <2>1. PICK y \in Rest : NewestOf(y, Rest)
    BY <1>4, <1>6, <1>9
  <2>2. x.mtime \in Nat /\ y.mtime \in Nat /\ \A k \in S : k.mtime \in Nat
    BY <1>4, <1>5, <1>7, <2>1
  <2>3. \A k \in S : k = x \/ k.mtime <= y.mtime
    BY <2>1 DEF NewestOf
  <2>4. CASE x.mtime <= y.mtime
    BY <2>1, <2>3, <2>4, <1>4 DEF NewestOf
  <2>5. CASE y.mtime <= x.mtime
    <3>1. \A k \in S : k.mtime <= x.mtime
      BY <2>2, <2>3, <2>5
    <3>2. QED
      BY <3>1, <1>4, <1>5 DEF NewestOf
  <2>6. QED
    BY <2>2, <2>4, <2>5
<1>10. QED
  BY <1>8, <1>9

-----------------------------------------------------------------------------
(***************************************************************************)
(* What from_environment returns is a configuration.                       *)
(***************************************************************************)
LEMMA FileSystems ==
    ASSUME machine \in Machines, fs \in machine.fileSystems
    PROVE  /\ machine.env \in EnvType
           /\ fs \in FileSystemType
           /\ fs.dirs \cap fs.files = {}
           /\ \A c \in Anywhere, d \in Paths : fs.commands[c][d] = fs.commands[c][NoPath]
           /\ \A p \in Paths : fs.jars[p] \subseteq JarType /\ IsFiniteSet(fs.jars[p])
<1>1. machine.env \in EnvType /\ fs \in FileSystemType /\ fs.dirs \cap fs.files = {}
  BY MachinesAssumption
<1>2. \A c \in Anywhere, d \in Paths : fs.commands[c][d] = fs.commands[c][NoPath]
  BY MachinesAssumption
<1>3. fs.jars \in [Paths -> SUBSET JarType]
  BY <1>1 DEF FileSystemType
<1>4. ASSUME NEW p \in Paths PROVE fs.jars[p] \subseteq JarType /\ IsFiniteSet(fs.jars[p])
  <2>1. IsFiniteSet(fs.jars[p])
    BY MachinesAssumption
  <2>2. fs.jars[p] \subseteq JarType
    BY <1>3
  <2>3. QED
    BY <2>1, <2>2
<1>5. QED
  BY <1>1, <1>2, <1>4

LEMMA FoundJar ==
    ASSUME machine \in Machines, fs \in machine.fileSystems, NEW home \in Paths
    PROVE  FindDesktopJar(fs, home) \in Paths \cup {NoPath}
<1> DEFINE Fat == {j \in fs.jars[home] : j.kind = "fat"}
           Main == {j \in fs.jars[home] : j.kind # "sources"}
           Candidates == IF Fat # {} THEN Fat ELSE Main
           Newest == CHOOSE j \in Candidates : \A k \in Candidates : k.mtime <= j.mtime
<1>1. FindDesktopJar(fs, home) = IF Candidates = {} THEN NoPath ELSE Newest.path
  BY DEF FindDesktopJar
<1>2. Candidates \subseteq fs.jars[home]
  OBVIOUS
<1>3. Candidates \subseteq JarType /\ IsFiniteSet(Candidates)
  BY <1>2, FileSystems, FS_Subset
<1> HIDE DEF Candidates
<1>4. ASSUME Candidates # {} PROVE Newest \in Candidates
  <2>1. PICK j \in Candidates : NewestOf(j, Candidates)
    BY <1>3, <1>4, NewestExists
  <2>2. \A k \in Candidates : k.mtime <= j.mtime
    BY <2>1 DEF NewestOf
  <2>3. QED
    BY <2>2
<1>5. ASSUME Candidates # {} PROVE Newest.path \in Paths
  BY <1>3, <1>4, <1>5 DEF JarType
<1>6. QED
  BY <1>1, <1>5

LEMMA ConfigTyped ==
    ASSUME machine \in Machines, fs \in machine.fileSystems
    PROVE  CurrentConfig \in ConfigType
<1> DEFINE env == machine.env
           java == IF env["LLMTG_JAVA"] = Unset THEN Java ELSE env["LLMTG_JAVA"]
           home == OptionalPath(env["LLMTG_FORGE_HOME"])
           jar  == OptionalPath(Or(env["LLMTG_FORGE_JAR"], env["FORGE_JAR_PATH"]))
           dir  == OptionalPath(Or(env["LLMTG_FORGE_WORKING_DIR"], env["FORGE_WORKING_DIR"]))
           bridge == OptionalPath(env["LLMTG_FORGE_BRIDGE"])
           foundJar == IF jar = NoPath /\ home # NoPath THEN FindDesktopJar(fs, home) ELSE jar
           foundDir == IF dir = NoPath /\ home # NoPath /\ Gui[home] \in fs.dirs
                       THEN Gui[home] ELSE dir
<1>1. CurrentConfig = [java_executable |-> java, forge_home |-> home, forge_jar |-> foundJar,
                       working_dir |-> foundDir, bridge_path |-> bridge]
  BY DEF CurrentConfig, FromEnvironment
<1>2. \A value : OptionalPath(value) \in Paths \cup {NoPath}
  BY DEF OptionalPath
<1>3. home \in Paths \cup {NoPath} /\ jar \in Paths \cup {NoPath}
      /\ dir \in Paths \cup {NoPath} /\ bridge \in Paths \cup {NoPath}
  BY <1>2
<1>java. java \in Commands
  <2>1. env \in EnvType
    BY FileSystems
  <2>2. env["LLMTG_JAVA"] \in Commands \cup {Unset}
    BY <2>1 DEF EnvType, Variables, ValuesOf
  <2>3. QED
    BY <2>2, PathsAssumption
<1> HIDE DEF java, home, jar, dir, bridge
<1>4. foundJar \in Paths \cup {NoPath}
  BY <1>3, FoundJar
<1>5. foundDir \in Paths \cup {NoPath}
  BY <1>3, PathsAssumption
<1> HIDE DEF foundJar, foundDir
<1>6. QED
  BY <1>1, <1>java, <1>3, <1>4, <1>5 DEF ConfigType

-----------------------------------------------------------------------------
(***************************************************************************)
(* How a call ends.                                                        *)
(***************************************************************************)
LEMMA RaisedIsReply ==
    ASSUME NEW r \in Requests, NEW error \in Errors
    PROVE  /\ Raised(error) \in Replies(r)
           /\ Raised(error).kind = "raised" /\ Raised(error).error = error
           /\ Raised(error) # None
<1>1. Raised(error) \in Replies(r)
  BY DEF Raised, Replies
<1>2. QED
  BY <1>1, NoneAssumption DEF Raised

\* The result play_game returns.
TheResult ==
    [winner_index |-> child.output.fields.winner_index.n,
     turns |-> child.output.fields.turns.n, seed |-> request.seed,
     deck_ids |-> request.decks, policy_ids |-> request.policies]

\* What parse_game_response accepts, Experiment can use.
LEMMA AnsweredIsResult ==
    ASSUME TypeOK, Finished, Answered
    PROVE  /\ request \in Requests
           /\ TheResult.winner_index \in 0 .. Len(request.decks) - 1
           /\ TheResult.winner_index \in Nat
           /\ TheResult.turns \in Nat /\ TheResult.turns >= 1
           /\ [kind |-> "result", result |-> TheResult] \in Replies(request)
           /\ [kind |-> "result", result |-> TheResult] # None
<1> DEFINE fields == child.output.fields
<1>1. request \in Requests /\ child \in Children(request)
  BY DEF TypeOK, Finished
<1>2. child.output \in Outputs /\ child.output.kind = "object"
  BY <1>1 DEF Answered, Children
<1>3. fields \in Answers
  BY <1>2 DEF Outputs
<1>4. fields \in Fields
  BY <1>3, AnswersAssumption
<1>5. fields.winner_index.n \in Int /\ fields.turns.n \in Int
  BY <1>4 DEF Fields, ValueType
<1>6. request.decks \in Seq(DeckIds)
  BY <1>1, RequestsAssumption
<1>7. Len(request.decks) \in Nat
  BY <1>6
<1>8. fields.winner_index.n \in 0 .. Len(request.decks) - 1 /\ fields.turns.n >= 1
  BY DEF Answered, Parses
<1> HIDE DEF fields
<1>9. fields.winner_index.n \in Nat /\ fields.turns.n \in Nat
  BY <1>5, <1>7, <1>8
<1>10. TheResult = [winner_index |-> fields.winner_index.n, turns |-> fields.turns.n,
                    seed |-> request.seed, deck_ids |-> request.decks,
                    policy_ids |-> request.policies]
  BY DEF TheResult, fields
<1>11. [kind |-> "result", result |-> TheResult] \in Replies(request)
  BY <1>9, <1>10 DEF Replies
<1>12. [kind |-> "result", result |-> TheResult] # None
  BY <1>1, <1>11, NoneAssumption
<1>13. QED
  BY <1>1, <1>8, <1>9, <1>10, <1>11, <1>12

-----------------------------------------------------------------------------
(***************************************************************************)
(* The types.                                                              *)
(***************************************************************************)
LEMMA InitTypeOK == Init => TypeOK
BY TimeoutAssumption DEF Init, TypeOK

\* A call that ends as a call can leaves the types as they are.
LEMMA EndCallTypeOK ==
    ASSUME TypeOK, NEW how, request # None, how \in Replies(request), EndCall(how),
           UNCHANGED <<caller, fs>>
    PROVE  TypeOK'
<1>1. request \in Requests
  BY DEF TypeOK
<1>2. 0 \in 0 .. Timeout
  BY TimeoutAssumption
<1>3. QED
  BY <1>1, <1>2 DEF TypeOK, EndCall, caller

LEMMA BridgeStepTypeOK ==
    ASSUME TypeOK, NEW next, next \in Children(request), BridgeStep(next)
    PROVE  TypeOK'
<1>1. child # None /\ request # None
  BY DEF BridgeStep, TypeOK
<1>2. child' = next /\ child' # None
  BY <1>1, NoneAssumption DEF BridgeStep, TypeOK
<1>3. EngineAccepts(request.decks, request.policies)
  BY <1>1 DEF TypeOK
<1>4. QED
  BY <1>1, <1>2, <1>3 DEF TypeOK, BridgeStep, caller

LEMMA ChangedChild ==
    ASSUME TypeOK, child # None
    PROVE  /\ \A o \in Outputs : [child EXCEPT !.output = o] \in Children(request)
           /\ \A h \in BOOLEAN : [child EXCEPT !.helper = h] \in Children(request)
           /\ \A code \in 0 .. 1 : [child EXCEPT !.exit = code] \in Children(request)
<1>1. child \in Children(request)
  BY DEF TypeOK
<1>2. \A code \in 0 .. 1 : code \in {-1, 0, 1}
  OBVIOUS
<1>3. QED
  BY <1>1, <1>2 DEF Children

\* Whatever the bridge and its helper do, the child stays a child of its request.
LEMMA BridgeGoesOn ==
    ASSUME TypeOK, Bridge
    PROVE  \E next \in Children(request) : BridgeStep(next)
<1>1. child # None
  BY DEF Bridge, Write, WriteMore, StartHelper, EndHelper, Exit
<1>2. QED
  BY <1>1, ChangedChild DEF Bridge, Write, WriteMore, StartHelper, EndHelper, Exit

\* The child as it is started.
Born == [input |-> BuildGameRequest(request), output |-> [kind |-> "nothing"],
         exit |-> IF StillBorn THEN 1 ELSE -1, helper |-> FALSE]

LEMMA BornTyped == request \in Requests => Born \in Children(request) /\ Born # None
<1> SUFFICES ASSUME request \in Requests PROVE Born \in Children(request) /\ Born # None
  OBVIOUS
<1>1. [kind |-> "nothing"] \in Outputs
  BY DEF Outputs
<1>2. (IF StillBorn THEN 1 ELSE -1) \in {-1, 0, 1}
  OBVIOUS
<1>3. Born \in Children(request)
  BY <1>1, <1>2 DEF Born, Children
<1>4. QED
  BY <1>3, NoneAssumption

LEMMA StartTypeOK == TypeOK /\ Start => TypeOK'
<1> SUFFICES ASSUME TypeOK, Start PROVE TypeOK'
  OBVIOUS
<1>1. request # None /\ request \in Requests /\ UNCHANGED <<caller, fs>>
      /\ EngineAccepts(request.decks, request.policies)
  BY DEF TypeOK, Start
<1>2. CASE EndCall(Raised("configuration"))
  BY <1>1, <1>2, RaisedIsReply, EndCallTypeOK DEF Errors
<1>3. CASE EndCall(Raised("OSError"))
  BY <1>1, <1>3, RaisedIsReply, EndCallTypeOK DEF Errors
<1>4. CASE child' = Born /\ UNCHANGED <<request, elapsed, reply>>
  BY <1>1, <1>4, BornTyped DEF TypeOK, caller
<1>5. QED
  BY <1>2, <1>3, <1>4 DEF Start, Born

LEMMA NextTypeOK == TypeOK /\ [Next]_vars => TypeOK'
<1> SUFFICES ASSUME TypeOK, [Next]_vars PROVE TypeOK'
  OBVIOUS
<1>1. CASE Change
  BY <1>1 DEF TypeOK, Change, caller
<1>2. CASE Configure
  <2>1. CurrentConfig \in ConfigType
    BY ConfigTyped DEF TypeOK
  <2>2. engine' \in ConfigType \cup {None} /\ (engine' # None => engine'.bridge_path # NoPath)
    BY <1>2, <2>1 DEF Configure
  <2>3. QED
    BY <1>2, <2>2 DEF TypeOK, Configure
<1>3. CASE \E r \in Requests : Ask(r)
  BY <1>3 DEF TypeOK, Ask, caller
<1>4. CASE Refuse
  <2>1. request # None /\ request \in Requests
    BY <1>4 DEF Refuse, TypeOK
  <2>2. QED
    BY <1>4, <2>1, RaisedIsReply, EndCallTypeOK DEF Refuse, Errors
<1>5. CASE Start
  BY <1>5, StartTypeOK
<1>6. CASE Return
  <2>1. Finished /\ Answered /\ request # None
    BY <1>6 DEF Return, Finished, TypeOK
  <2>2. EndCall([kind |-> "result", result |-> TheResult]) /\ UNCHANGED <<caller, fs>>
    BY <1>6 DEF Return, TheResult
  <2>3. [kind |-> "result", result |-> TheResult] \in Replies(request)
    BY <2>1, AnsweredIsResult
  <2>4. QED
    BY <2>1, <2>2, <2>3, EndCallTypeOK
<1>7. CASE Reject
  <2>1. request # None /\ request \in Requests
    BY <1>7 DEF Reject, Finished, TypeOK
  <2>2. PICK error \in {"UnicodeDecodeError", "execution"} : EndCall(Raised(error))
    BY <1>7 DEF Reject
  <2>3. QED
    BY <1>7, <2>1, <2>2, RaisedIsReply, EndCallTypeOK DEF Reject, Errors
<1>8. CASE TimesOut
  <2>1. request # None /\ request \in Requests
    BY <1>8 DEF TimesOut, TypeOK
  <2>2. QED
    BY <1>8, <2>1, RaisedIsReply, EndCallTypeOK DEF TimesOut, Errors
<1>9. CASE Tick
  <2>1. elapsed' \in 0 .. Timeout
    BY <1>9, TimeoutAssumption DEF Tick, TypeOK
  <2>2. QED
    BY <1>9, <2>1 DEF Tick, TypeOK, caller
<1>10. CASE Bridge
  BY <1>10, BridgeGoesOn, BridgeStepTypeOK
<1>11. CASE UNCHANGED vars
  BY <1>11 DEF TypeOK, vars
<1>12. QED
  BY <1>1, <1>2, <1>3, <1>4, <1>5, <1>6, <1>7, <1>8, <1>9, <1>10, <1>11 DEF Next, PlayGame

\* The variables have their types, whatever the bridge writes: a child belongs to
\* a call whose request it was given unchanged, a call belongs to an engine that
\* has a bridge, and a call ends with a result of a request or with one of the
\* five exceptions.
THEOREM TypeCorrect == Spec => []TypeOK
<1>1. QED
  BY InitTypeOK, NextTypeOK, PTL DEF Spec

-----------------------------------------------------------------------------
(***************************************************************************)
(* What the doctor's checks promise.                                       *)
(***************************************************************************)

\* What all five checks say together.
LEMMA AllChecks ==
    ASSUME NEW config, AllChecksPass(Doctor(config, fs))
    PROVE  /\ fs.commands[config.java_executable][NoPath] = "runs"
           /\ config.working_dir # NoPath /\ config.working_dir \in fs.dirs
           /\ config.bridge_path # NoPath /\ config.bridge_path \in fs.files
BY DEF AllChecksPass, RequiredChecksPass, Doctor, JavaWorks

\* Then all that is executed is found, if the doctor can tell.
LEMMA Startable ==
    ASSUME TypeOK, engine # None, AllChecksPass(Doctor(engine, fs)), DoctorCanTell(engine)
    PROVE  StartOutcome # "missing"
<1>1. fs.commands[engine.java_executable][NoPath] = "runs"
      /\ engine.working_dir # NoPath /\ engine.working_dir \in fs.dirs
      /\ engine.bridge_path \in fs.files
  BY AllChecks
<1>2. engine.working_dir \in Paths
  BY <1>1 DEF TypeOK, ConfigType
<1>3. Enter(engine.working_dir) # "missing"
  BY <1>1 DEF Enter
<1>4. ASSUME Program(engine) = "java"
      PROVE  fs.commands[engine.java_executable][engine.working_dir] = "runs"
  BY <1>1, <1>2, <1>4, FileSystems DEF TypeOK, DoctorCanTell
<1>5. Program(engine) \in {"python", "java", "bridge"}
  BY DEF Program
<1>6. ASSUME Program(engine) = "bridge" PROVE Execute(engine.bridge_path) # "missing"
  BY <1>1, <1>6, FileSystems DEF TypeOK, DoctorCanTell, Execute
<1>7. QED
  BY <1>3, <1>4, <1>5, <1>6 DEF StartOutcome

\* No call ends for want of a bridge but in Start.
LEMMA OnlyStartMisconfigured ==
    ASSUME TypeOK, [Next]_vars, NewReply(Raised("configuration"))
    PROVE  Start /\ StartOutcome = "missing"
<1>1. reply' = Raised("configuration") /\ reply' # reply
  BY DEF NewReply
<1>2. PICK anyone \in Machines : TRUE
  BY DEF TypeOK
<1>3. \A error \in Errors : error # "configuration" => Raised(error) # Raised("configuration")
  BY DEF Raised
<1>4. ~ \E r \in Requests : Ask(r)
  <2> SUFFICES ASSUME NEW r \in Requests, Ask(r) PROVE FALSE
    OBVIOUS
  <2>1. Raised("configuration") # None
    BY RaisedIsReply DEF Errors
  <2>2. QED
    BY <1>1, <2>1 DEF Ask
<1>5. ~Refuse
  BY <1>1, <1>3 DEF Refuse, EndCall, Errors
<1>6. ~Return
  BY <1>1 DEF Return, EndCall, Raised
<1>7. ~Reject
  <2> SUFFICES ASSUME Reject PROVE FALSE
    OBVIOUS
  <2>1. PICK error \in {"UnicodeDecodeError", "execution"} : reply' = Raised(error)
    BY DEF Reject, EndCall
  <2>2. QED
    BY <1>1, <1>3, <2>1 DEF Errors
<1>8. ~TimesOut
  BY <1>1, <1>3 DEF TimesOut, EndCall, Errors
<1>9. ~Change /\ ~Configure /\ ~Tick /\ ~Bridge /\ vars' # vars
  BY <1>1 DEF Change, Configure, Tick, Bridge, Write, WriteMore, StartHelper, EndHelper, Exit,
              BridgeStep, vars
<1>10. Start
  BY <1>4, <1>5, <1>6, <1>7, <1>8, <1>9 DEF Next, PlayGame
<1>11. StartOutcome = "missing"
  BY <1>1, <1>3, <1>10 DEF Start, EndCall, Errors
<1>12. QED
  BY <1>10, <1>11

\* DoctorPredictsStart: asked about the environment the engine was configured from,
\* a doctor who finds all five things in order is right, on any machine and whatever
\* comes and goes there: the program still gets an engine, and no call ends with
\* ForgeConfigurationError, unless java is a command that is another program in the
\* working directory or the bridge needs an interpreter that is not installed.
THEOREM DoctorIsRight == Spec => DoctorPredictsStart
<1> DEFINE Promise ==
      AllChecksPass(Doctor(CurrentConfig, fs)) =>
            /\ engine # None => engine' # None
            /\ engine = CurrentConfig /\ DoctorCanTell(engine)
                  => ~NewReply(Raised("configuration"))
<1>1. TypeOK /\ [Next]_vars => Promise
  <2> SUFFICES ASSUME TypeOK, [Next]_vars, AllChecksPass(Doctor(CurrentConfig, fs))
               PROVE  /\ engine # None => engine' # None
                      /\ engine = CurrentConfig /\ DoctorCanTell(engine)
                            => ~NewReply(Raised("configuration"))
    OBVIOUS
  <2>1. CurrentConfig # None
    BY ConfigTyped, NoneAssumption DEF TypeOK
  <2>2. CurrentConfig.bridge_path # NoPath
    BY AllChecks
  <2>3. Configure => engine' # None
    BY <2>1, <2>2 DEF Configure
  <2>4. ~Configure => engine' = engine
    BY DEF Next, PlayGame, Change, Ask, Refuse, Start, Return, Reject, TimesOut, Tick, Bridge,
           Write, WriteMore, StartHelper, EndHelper, Exit, BridgeStep, caller, vars
  <2>5. ASSUME engine = CurrentConfig, DoctorCanTell(engine), NewReply(Raised("configuration"))
        PROVE  FALSE
    BY <2>1, <2>5, Startable, OnlyStartMisconfigured
  <2>6. QED
    BY <2>3, <2>4, <2>5
<1>2. Promise => [Promise]_vars
  OBVIOUS
<1>3. QED
  BY <1>1, TypeCorrect, PTL DEF Spec, DoctorPredictsStart

-----------------------------------------------------------------------------
(***************************************************************************)
(* ForgeEngine is a SimulationEngine.                                      *)
(***************************************************************************)
LEMMA RaisedIsAbstract ==
    ASSUME NEW error \in Errors, NEW r \in Requests
    PROVE  ReplyOf(Raised(error)) = Abstract!Raised
BY RaisedIsReply DEF ReplyOf, Abstract!Raised

\* A call that ends with an exception is a Raise of the abstract engine.
LEMMA RaiseStep ==
    ASSUME TypeOK, request # None, NEW error \in Errors, EndCall(Raised(error))
    PROVE  Abstract!Raise
<1>1. request \in Requests
  BY DEF TypeOK
<1>2. request' = None /\ ReplyOf(reply)' = Abstract!Raised
  BY <1>1, RaisedIsAbstract DEF EndCall
<1>3. QED
  BY <1>2 DEF Abstract!Raise

LEMMA ReturnStep == TypeOK /\ Return => Abstract!Answer
<1> SUFFICES ASSUME TypeOK, Return PROVE Abstract!Answer
  OBVIOUS
<1>1. Finished /\ Answered /\ request # None /\ EngineAccepts(request.decks, request.policies)
  BY DEF Return, Finished, TypeOK
<1>2. reply' = [kind |-> "result", result |-> TheResult] /\ request' = None
  BY DEF Return, EndCall, TheResult
<1>3. reply' # None /\ TheResult.winner_index \in 0 .. Len(request.decks) - 1
      /\ TheResult.turns >= 1
  BY <1>1, <1>2, AnsweredIsResult
<1>4. ReplyOf(reply)' = reply'
  BY <1>2 DEF ReplyOf
<1>5. TheResult.deck_ids = request.decks /\ TheResult.policy_ids = request.policies
      /\ TheResult.seed = request.seed
  BY DEF TheResult
<1>6. Len(request.decks) = Len(request.policies)
  BY <1>1 DEF EngineAccepts
<1>7. WellFormed(TheResult)
  BY <1>3, <1>5, <1>6 DEF WellFormed
<1>8. reply'.kind = "result" /\ reply'.result = TheResult
  BY <1>2
<1> HIDE DEF TheResult
<1>9. Abstract!IsAnswer(reply', request)
  BY <1>5, <1>7, <1>8 DEF Abstract!IsAnswer, Abstract!IsResultOf, Abstract!WellFormed, WellFormed
<1>10. QED
  BY <1>1, <1>2, <1>3, <1>4, <1>9 DEF Abstract!Answer, Abstract!EngineAccepts, EngineAccepts

LEMMA StepSimulates == TypeOK /\ [Next]_vars => [Abstract!Next]_Abstract!vars
<1> SUFFICES ASSUME TypeOK, [Next]_vars PROVE [Abstract!Next]_Abstract!vars
  OBVIOUS
<1>1. CASE \E r \in Requests : Ask(r)
  <2>1. PICK r \in Requests : Ask(r)
    BY <1>1
  <2>2. request = None /\ request' = r /\ ReplyOf(reply)' = None
    BY <2>1 DEF Ask, ReplyOf
  <2>3. QED
    BY <2>2 DEF Abstract!Next, Abstract!Ask
<1>2. CASE Refuse
  BY <1>2, RaiseStep DEF Refuse, Errors, Abstract!Next
<1>3. CASE Start
  <2>1. CASE EndCall(Raised("configuration")) \/ EndCall(Raised("OSError"))
    BY <1>3, <2>1, RaiseStep DEF Start, Errors, Abstract!Next
  <2>2. CASE UNCHANGED <<request, elapsed, reply>>
    BY <2>2 DEF Abstract!vars, ReplyOf
  <2>3. QED
    BY <1>3, <2>1, <2>2 DEF Start
<1>4. CASE Return
  BY <1>4, ReturnStep DEF Abstract!Next
<1>5. CASE Reject
  <2>1. request # None
    BY <1>5 DEF Reject, Finished, TypeOK
  <2>2. PICK error \in {"UnicodeDecodeError", "execution"} : EndCall(Raised(error))
    BY <1>5 DEF Reject
  <2>3. QED
    BY <2>1, <2>2, RaiseStep DEF Errors, Abstract!Next
<1>6. CASE TimesOut
  <2>1. request # None
    BY <1>6 DEF TimesOut, TypeOK
  <2>2. QED
    BY <1>6, <2>1, RaiseStep DEF TimesOut, Errors, Abstract!Next
<1>7. CASE Change \/ Configure \/ Tick \/ Bridge \/ UNCHANGED vars
  <2>1. UNCHANGED <<request, reply>>
    BY <1>7 DEF Change, Configure, Tick, Bridge, Write, WriteMore, StartHelper, EndHelper, Exit,
                BridgeStep, vars
  <2>2. QED
    BY <2>1 DEF Abstract!vars, ReplyOf
<1>8. QED
  BY <1>1, <1>2, <1>3, <1>4, <1>5, <1>6, <1>7 DEF Next, PlayGame

\* ImplementsEngine: ForgeEngine is the engine GameEngine specifies.  Whatever the
\* bridge and its helper write, and however they exit, a call ends with a
\* well-formed result of the very game that was asked for, or it raises.
THEOREM ForgeIsAnEngine == Spec => ImplementsEngine
<1>1. Init => Abstract!Init
  BY DEF Init, Abstract!Init, ReplyOf
<1>2. QED
  BY <1>1, StepSimulates, TypeCorrect, PTL DEF Spec, ImplementsEngine, Abstract!Spec

-----------------------------------------------------------------------------
(***************************************************************************)
(* How long a call lasts.                                                  *)
(***************************************************************************)

\* The steps of Python and the clock a call can still take: it starts a child, which
\* has Timeout ticks, and ends.
StepsLeft ==
    IF request = None THEN 0 ELSE IF child = None THEN Timeout + 2 ELSE Timeout - elapsed + 1

\* Every step of play_game and every tick bring the end of the call nearer, and nothing
\* the bridge, its helper or the files do puts it off or ends the call.
CallsGoOn ==
    [][ /\ PlayGame \/ Tick => StepsLeft' < StepsLeft
        /\ Change \/ Configure \/ Bridge => StepsLeft' = StepsLeft ]_vars

LEMMA StepsAreNumbers == TypeOK => StepsLeft \in 0 .. Timeout + 2
BY TimeoutAssumption DEF TypeOK, StepsLeft

LEMMA PlayGameGoesOn ==
    ASSUME TypeOK, PlayGame \/ Tick
    PROVE  StepsLeft' < StepsLeft
<1>1. request # None /\ elapsed \in 0 .. Timeout /\ Timeout \in Nat
  BY TimeoutAssumption DEF TypeOK, PlayGame, Tick, Refuse, Start, Return, Reject, Finished, TimesOut
<1>2. StepsLeft > 0
  BY <1>1 DEF StepsLeft
<1>3. CASE \E how : EndCall(how)
  BY <1>2, <1>3 DEF EndCall, StepsLeft
<1>4. CASE Start /\ child' = Born
  <2>1. child = None /\ elapsed = 0 /\ request' = request /\ elapsed' = elapsed
    BY <1>3, <1>4, BornTyped DEF Start, TypeOK, EndCall, Born
  <2>2. child' # None
    BY <1>1, <1>4, BornTyped DEF TypeOK
  <2>3. QED
    BY <1>1, <2>1, <2>2 DEF StepsLeft
<1>5. CASE Tick
  BY <1>1, <1>5 DEF Tick, StepsLeft
<1>6. Start => child' = Born \/ \E how : EndCall(how)
  BY DEF Start, Born
<1>7. QED
  BY <1>3, <1>4, <1>5, <1>6 DEF PlayGame, Refuse, Return, Reject, TimesOut

LEMMA BridgeLeavesCalls ==
    ASSUME TypeOK, Change \/ Configure \/ Bridge
    PROVE  StepsLeft' = StepsLeft
<1>1. CASE Change
  BY <1>1 DEF Change, StepsLeft
<1>2. CASE Configure
  BY <1>2 DEF Configure, StepsLeft
<1>3. CASE Bridge
  <2>1. PICK next \in Children(request) : BridgeStep(next)
    BY <1>3, BridgeGoesOn
  <2>2. child # None /\ child' # None /\ request' = request /\ elapsed' = elapsed
    BY <2>1, NoneAssumption DEF BridgeStep, TypeOK
  <2>3. QED
    BY <2>2 DEF StepsLeft
<1>4. QED
  BY <1>1, <1>2, <1>3

\* However long the bridge and its helper go on, and whatever they write or leave open, a
\* call ends after at most Timeout + 2 steps of Python and the clock; what is left to
\* assume for its end is that these two go on.
THEOREM CallsAreBounded == Spec => [](StepsLeft \in 0 .. Timeout + 2) /\ CallsGoOn
<1>1. TypeOK /\ [Next]_vars
         => [ /\ PlayGame \/ Tick => StepsLeft' < StepsLeft
              /\ Change \/ Configure \/ Bridge => StepsLeft' = StepsLeft ]_vars
  BY PlayGameGoesOn, BridgeLeavesCalls
<1>2. QED
  BY <1>1, StepsAreNumbers, TypeCorrect, PTL DEF Spec, CallsGoOn
=============================================================================
