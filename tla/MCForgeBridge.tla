---------------------------- MODULE MCForgeBridge ----------------------------
(***************************************************************************)
(* Five machines: a Python bridge beside a checkout, a JAR with the          *)
(* variables of the donor project, a JAR with a java given by a relative     *)
(* path, an executable in an explicit working directory, and no bridge.  On  *)
(* each something breaks: Java, the working directory, the bridge, its       *)
(* interpreter or the checkout.                                             *)
(***************************************************************************)
EXTENDS ForgeBridge

CONSTANTS
    checkout, gui, work, fat, thin, script, bridgejar, program,
    java, relative  \* a name on PATH, and a path without a leading slash

MCPaths == {checkout, gui, work, fat, thin, script, bridgejar, program}

MCGui == [p \in MCPaths |-> gui]

MCSuffix ==
    [p \in MCPaths |-> CASE p = script -> ".py" [] p \in {bridgejar, fat, thin} -> ".jar" [] OTHER -> "other"]

NothingSet == [v \in Variables |-> Unset]
AtHome     == [NothingSet EXCEPT !["LLMTG_FORGE_HOME"] = checkout]

Built(jars) == [p \in MCPaths |-> IF p = checkout THEN jars ELSE {}]

Jars == {[path |-> thin, kind |-> "thin", mtime |-> 2], [path |-> fat, kind |-> "fat", mtime |-> 1]}

Executes(how) == [p \in MCPaths |-> IF p = program THEN how ELSE "refused"]

\* java comes to the same everywhere; the relative path leads somewhere only from
\* where the program was started.
JavaIs(how) ==
    [c \in {java, relative} |->
        [d \in MCPaths \cup {NoPath} |-> IF c = java \/ d = NoPath THEN how ELSE "missing"]]

AllWorks ==
    [dirs |-> {checkout, gui, work}, closed |-> {}, files |-> {fat, thin, script, bridgejar, program},
     executes |-> Executes("runs"), sources |-> {checkout}, jars |-> Built(Jars),
     commands |-> JavaIs("runs")]

ProgramAtWork == [AtHome EXCEPT !["LLMTG_FORGE_BRIDGE"] = program, !["FORGE_WORKING_DIR"] = work]

MCMachines ==
    { [env |-> [AtHome EXCEPT !["LLMTG_FORGE_BRIDGE"] = script],
       fileSystems |-> {AllWorks, [AllWorks EXCEPT !.dirs = {checkout, work}],
                        [AllWorks EXCEPT !.files = {thin}, !.jars = Built({})]}],
      [env |-> [AtHome EXCEPT !["LLMTG_FORGE_BRIDGE"] = bridgejar, !["LLMTG_FORGE_JAR"] = Blank,
                              !["FORGE_JAR_PATH"] = thin],
       fileSystems |-> {AllWorks} \cup {[AllWorks EXCEPT !.commands = JavaIs(how)] :
                                          how \in {"missing", "refused", "fails"}}],
      [env |-> [AtHome EXCEPT !["LLMTG_FORGE_BRIDGE"] = bridgejar, !["LLMTG_JAVA"] = relative],
       fileSystems |-> {AllWorks, [AllWorks EXCEPT !.dirs = {checkout, work}]}],
      [env |-> ProgramAtWork,
       fileSystems |-> {AllWorks, [AllWorks EXCEPT !.dirs = {checkout, gui}],
                        [AllWorks EXCEPT !.dirs = {checkout, gui}, !.files = @ \cup {work}],
                        [AllWorks EXCEPT !.closed = {work}],
                        [AllWorks EXCEPT !.files = {fat, thin}]}
                       \cup {[AllWorks EXCEPT !.executes = Executes(how)] :
                                how \in {"missing", "refused"}}],
      [env |-> AtHome, fileSystems |-> {AllWorks, [AllWorks EXCEPT !.sources = {}]}] }

\* The bridge has no permission to execute; nothing else is wrong and nothing
\* changes.
BarredMachines ==
    { [env |-> ProgramAtWork, fileSystems |-> {[AllWorks EXCEPT !.executes = Executes("refused")]}] }

MCRequests ==
    { [decks |-> <<"a", "b">>, policies |-> <<"p", "q">>, seed |-> 7],
      [decks |-> <<"a">>, policies |-> <<"p">>, seed |-> 7] }

\* 0, 1, 2, true, 1.0, and anything that is not a number.
MCValues ==
    {[type |-> "int", n |-> n] : n \in 0 .. 2}
        \cup {[type |-> "bool", n |-> 1], [type |-> "float", n |-> 1], [type |-> "other", n |-> 0]}

Good == [version |-> [type |-> "int", n |-> 1], winner_index |-> [type |-> "int", n |-> 0],
         turns |-> [type |-> "int", n |-> 2]]

\* Answers with any one field anything.
MCAnswers == {[Good EXCEPT ![field] = v] : field \in DOMAIN Good, v \in MCValues}
=============================================================================
