---------------------------- MODULE ForgeRuntime ----------------------------
(***************************************************************************)
(* llmtg.simulation.forge_runtime: where Forge is on this machine, as read  *)
(* from the environment and the file system, the command that runs the      *)
(* bridge, and the doctor's checks.  All of it is a function of `env' and   *)
(* `fs', which belong to the machine and are records:                       *)
(*   env  the variables, each Unset (or empty), Blank (spaces) or a path;    *)
(*        LLMTG_JAVA is taken as it stands, so it holds any command          *)
(*   fs   dirs, closed (directories that cannot be entered), files, executes *)
(*        (what comes of executing each file), sources (Forge checkouts),    *)
(*        jars (what each checkout has built) and commands (what comes of    *)
(*        each command started from each directory; NoPath stands for the    *)
(*        directory the program itself was started from)                    *)
(* Paths are absolute and resolved.  A command is a name that is looked for  *)
(* on PATH or a path, and a relative one is another program in another       *)
(* directory.  Of two equally new JARs either may be found.                 *)
(***************************************************************************)
EXTENDS Integers, Sequences, FiniteSets

CONSTANTS
    Paths,   \* places in the file system
    NoPath,  \* None
    Unset,   \* a variable that is absent or empty
    Blank,   \* a variable that holds spaces only
    Gui,     \* the directory forge-gui of each checkout
    Suffix,  \* of each path: what the file name ends in
    Commands, \* what can be java_executable: names and paths, absolute or not
    Java,     \* the name "java"
    Anywhere  \* commands that start the same program from every directory

ASSUME PathsAssumption ==
    /\ {NoPath, Unset, Blank} \cap Paths = {}
    /\ Gui \in [Paths -> Paths]
    /\ Suffix \in [Paths -> {".py", ".jar", "other"}]
    /\ Java \in Commands
    /\ Anywhere \subseteq Commands
    /\ Unset \notin Commands

Variables == {"LLMTG_FORGE_HOME", "LLMTG_FORGE_JAR", "FORGE_JAR_PATH",
              "LLMTG_FORGE_WORKING_DIR", "FORGE_WORKING_DIR", "LLMTG_FORGE_BRIDGE",
              "LLMTG_JAVA"}

ValuesOf(variable) ==
    IF variable = "LLMTG_JAVA" THEN Commands \cup {Unset} ELSE Paths \cup {Unset, Blank}

EnvType ==
    {env \in [Variables -> Paths \cup Commands \cup {Unset, Blank}] :
        \A variable \in Variables : env[variable] \in ValuesOf(variable)}

JarType == [path : Paths, kind : {"fat", "thin", "sources"}, mtime : Nat]

\* What comes of starting a program: the system does not find it (or the
\* interpreter it names), refuses to run it (no permission, no known format), or
\* runs it.
Starts == {"missing", "refused", "runs"}

\* A command that runs can also "fail": exit with an error whatever it is asked.
FileSystemType ==
    [dirs : SUBSET Paths, closed : SUBSET Paths, files : SUBSET Paths,
     executes : [Paths -> Starts], sources : SUBSET Paths, jars : [Paths -> SUBSET JarType],
     commands : [Commands -> [Paths \cup {NoPath} -> Starts \cup {"fails"}]]]

ConfigType ==
    [java_executable : Commands,
     forge_home  : Paths \cup {NoPath}, forge_jar   : Paths \cup {NoPath},
     working_dir : Paths \cup {NoPath}, bridge_path : Paths \cup {NoPath}]

\* _optional_path.
OptionalPath(value) == IF value \in Paths THEN value ELSE NoPath

\* Python's `or' of two variables: spaces count as a value.
Or(value, alias) == IF value = Unset THEN alias ELSE value

\* find_desktop_jar: the newest fat JAR, else the newest that is not for
\* sources or documentation.
FindDesktopJar(fs, home) ==
    LET Fat  == {j \in fs.jars[home] : j.kind = "fat"}
        Main == {j \in fs.jars[home] : j.kind # "sources"}
        Candidates == IF Fat # {} THEN Fat ELSE Main
    IN  IF Candidates = {} THEN NoPath
        ELSE (CHOOSE j \in Candidates : \A k \in Candidates : k.mtime <= j.mtime).path

\* ForgeRuntimeConfig.from_environment: a checkout supplies what is not set.
\* LLMTG_JAVA alone is not resolved.
FromEnvironment(env, fs) ==
    LET home == OptionalPath(env["LLMTG_FORGE_HOME"])
        jar  == OptionalPath(Or(env["LLMTG_FORGE_JAR"], env["FORGE_JAR_PATH"]))
        dir  == OptionalPath(Or(env["LLMTG_FORGE_WORKING_DIR"], env["FORGE_WORKING_DIR"]))
    IN  [java_executable |-> IF env["LLMTG_JAVA"] = Unset THEN Java ELSE env["LLMTG_JAVA"],
         forge_home  |-> home,
         forge_jar   |-> IF jar = NoPath /\ home # NoPath THEN FindDesktopJar(fs, home) ELSE jar,
         working_dir |-> IF dir = NoPath /\ home # NoPath /\ Gui[home] \in fs.dirs
                         THEN Gui[home] ELSE dir,
         bridge_path |-> OptionalPath(env["LLMTG_FORGE_BRIDGE"])]

\* The program bridge_command starts: an interpreter with the bridge as its
\* argument, or the bridge itself.
Program(config) ==
    CASE Suffix[config.bridge_path] = ".py"  -> "python"
      [] Suffix[config.bridge_path] = ".jar" -> "java"
      [] OTHER                               -> "bridge"

\* The doctor runs java_executable -version, from wherever it was called.
JavaWorks(config, fs) == fs.commands[config.java_executable][NoPath] = "runs"

\* Mutation: the doctor is content with a working directory that is set.
DoctorTrustsWorkingDir(config, fs) ==
    [java        |-> JavaWorks(config, fs),
     forge_home  |-> config.forge_home # NoPath /\ config.forge_home \in fs.sources,
     forge_jar   |-> config.forge_jar # NoPath /\ config.forge_jar \in fs.files,
     working_dir |-> config.working_dir # NoPath,
     bridge      |-> config.bridge_path # NoPath /\ config.bridge_path \in fs.files]

\* run_forge_doctor: which checks are ok.
Doctor(config, fs) ==
    [java        |-> JavaWorks(config, fs),
     forge_home  |-> config.forge_home # NoPath /\ config.forge_home \in fs.sources,
     forge_jar   |-> config.forge_jar # NoPath /\ config.forge_jar \in fs.files,
     working_dir |-> config.working_dir # NoPath /\ config.working_dir \in fs.dirs,
     bridge      |-> config.bridge_path # NoPath /\ config.bridge_path \in fs.files]

ChecksType == [java : BOOLEAN, forge_home : BOOLEAN, forge_jar : BOOLEAN,
               working_dir : BOOLEAN, bridge : BOOLEAN]

\* required_checks_pass, what the doctor's exit code says.
RequiredChecksPass(checks) == checks.java /\ checks.forge_home

AllChecksPass(checks) ==
    RequiredChecksPass(checks) /\ checks.forge_jar /\ checks.working_dir /\ checks.bridge
=============================================================================
