------------------------------- MODULE BatchLab -------------------------------
(***************************************************************************)
(* The archived simulation lab: routes/lab.py starts a batch of games as a    *)
(* Java process, a thread of services/forge_runner.py reads its output, one  *)
(* watchdog thread kills batches that have been silent for ten minutes, and  *)
(* the page ui/ai-lab.js polls until the batch has stopped.  The three        *)
(* write and read the fields running and error of a BatchState one at a      *)
(* time and without a lock; _watchdog_lock guards the registry alone.        *)
(*                                                                         *)
(* Left out: progress counters, log lines, snapshots, and what the event     *)
(* loop or the thread pool could refuse.  Time is whether a batch has been    *)
(* silent for longer than _STALL_LIMIT.  The registry is a set: a sweep goes  *)
(* through it in the order of registration, which is left open here.        *)
(***************************************************************************)
EXTENDS Integers, Sequences, FiniteSets

CONSTANTS
    Batches,    \* batch ids
    MaxLines,   \* bound: lines each process prints
    None        \* no error

Reasons == {"start", "exception", "exit", "stall"}

ASSUME BatchesAssumption ==
    /\ IsFiniteSet(Batches) /\ MaxLines \in [Batches -> Nat]
    /\ None \notin Batches \cup Reasons

VARIABLES
    running,    \* BatchState.running
    error,      \* BatchState.error
    process,    \* the Java process: "none", "alive", "ok" or "failed"
    printed,    \* lines it has printed
    read,       \* lines the thread has read
    file,       \* the result file: "absent", "torn" or "whole"
    worker,     \* where _run_process_blocking is
    plan,       \* the writes to the BatchState it has still to make
    registry,   \* the keys of _watchdog_registry
    stale,      \* last_activity is more than _STALL_LIMIT ago
    watchdog,   \* the sweep of the watchdog, which holds the lock while it is awake
    page        \* the batch the page polls, and where it is with it

java == <<process, printed, file>>
thread == <<read, worker, plan>>
state  == <<running, error>>
vars   == <<state, java, thread, registry, stale, watchdog, page>>

Asleep == [awake |-> FALSE, entries |-> {}, batch |-> None, steps |-> << >>, finished |-> {}]

Init ==
    /\ running = [b \in Batches |-> FALSE]
    /\ error = [b \in Batches |-> None]
    /\ process = [b \in Batches |-> "none"]
    /\ printed = [b \in Batches |-> 0]
    /\ read = [b \in Batches |-> 0]
    /\ file = [b \in Batches |-> "absent"]
    /\ worker = [b \in Batches |-> "absent"]
    /\ plan = [b \in Batches |-> << >>]
    /\ registry = {}
    /\ stale = [b \in Batches |-> FALSE]
    /\ watchdog = Asleep
    /\ page = [batch |-> None, at |-> "idle"]

\* One write to the state of a batch, or the signal to its process.
Write(b, step) ==
    /\ running' = IF step = "stop" THEN [running EXCEPT ![b] = FALSE] ELSE running
    /\ error' = IF step \in Reasons THEN [error EXCEPT ![b] = step] ELSE error
    /\ process' = IF step = "kill" /\ process[b] = "alive"
                  THEN [process EXCEPT ![b] = "failed"] ELSE process

-----------------------------------------------------------------------------
(***************************************************************************)
(* start_batch, run_batch_subprocess, _run_process_blocking.               *)
(***************************************************************************)
Busy == page.at \in {"polling", "stopped", "fetching", "opening"}

\* The batch is on record before the results directory is made, which may fail and
\* leave it there.  The page starts one batch at a time; others have other clients.
Start(b) ==
    /\ worker[b] = "absent"
    /\ running' = [running EXCEPT ![b] = TRUE]
    /\ \/ /\ worker' = [worker EXCEPT ![b] = "queued"]
          /\ \/ ~Busy /\ page' = [batch |-> b, at |-> "polling"]
             \/ UNCHANGED page
       \/ /\ worker' = [worker EXCEPT ![b] = "lost"]
          /\ UNCHANGED page
    /\ UNCHANGED <<error, java, read, plan, registry, stale, watchdog>>

\* What remains to be written when the batch ends in this way.
Settle(b, steps) ==
    /\ worker' = [worker EXCEPT ![b] = "settling"]
    /\ plan' = [plan EXCEPT ![b] = steps]

\* Mutation: the order of the other two.
ExceptStopsFirst == <<"stop", "exception">>

\* run_batch_subprocess, except: the error first.
Except == <<"exception", "stop">>

\* build_java_command raises.
NoCommand(b) ==
    /\ worker[b] = "queued"
    /\ Settle(b, Except)
    /\ UNCHANGED <<state, java, read, registry, stale, watchdog, page>>

Popen(b) ==
    /\ worker[b] = "queued"
    /\ \/ /\ process' = [process EXCEPT ![b] = "alive"]
          /\ worker' = [worker EXCEPT ![b] = "started"]
          /\ UNCHANGED plan
       \/ /\ Settle(b, <<"stop", "start">>)
          /\ UNCHANGED process
    /\ UNCHANGED <<state, printed, file, read, registry, stale, watchdog, page>>

Register(b) ==
    /\ worker[b] = "started"
    /\ ~watchdog.awake
    /\ registry' = registry \cup {b}
    /\ stale' = [stale EXCEPT ![b] = FALSE]
    /\ worker' = [worker EXCEPT ![b] = "reading"]
    /\ UNCHANGED <<state, java, read, plan, watchdog, page>>

ReadLine(b) ==
    /\ worker[b] = "reading"
    /\ read[b] < printed[b]
    /\ ~watchdog.awake
    /\ read' = [read EXCEPT ![b] = @ + 1]
    /\ stale' = [stale EXCEPT ![b] = IF b \in registry THEN FALSE ELSE @]
    /\ UNCHANGED <<state, java, worker, plan, registry, watchdog, page>>

\* A line is not text in the encoding of the locale.
CannotDecode(b) ==
    /\ worker[b] = "reading"
    /\ read[b] < printed[b]
    /\ Settle(b, Except)
    /\ UNCHANGED <<state, java, read, registry, stale, watchdog, page>>

\* Mutation: without the lock.
UnregisterWithoutLock(b) == registry' = registry \ {b}

Unregister(b) ==
    /\ ~watchdog.awake
    /\ registry' = registry \ {b}

\* The output has ended with the process, which is waited for.
Finish(b) ==
    /\ worker[b] = "reading"
    /\ read[b] = printed[b]
    /\ process[b] # "alive"
    /\ Unregister(b)
    /\ IF process[b] = "ok" THEN Settle(b, <<"stop">>)
                            ELSE Settle(b, <<"stop", "exit">>)
    /\ UNCHANGED <<state, java, read, stale, watchdog, page>>

\* The next of the writes.
Report(b) ==
    /\ worker[b] = "settling"
    /\ Write(b, Head(plan[b]))
    /\ plan' = [plan EXCEPT ![b] = Tail(@)]
    /\ worker' = [worker EXCEPT ![b] = IF Len(plan[b]) = 1 THEN "done" ELSE @]
    /\ UNCHANGED <<printed, file, read, registry, stale, watchdog, page>>

Worker(b) ==
    \/ NoCommand(b) \/ Popen(b) \/ Register(b)
    \/ ReadLine(b) \/ CannotDecode(b) \/ Finish(b) \/ Report(b)

-----------------------------------------------------------------------------
(***************************************************************************)
(* _global_watchdog_loop.                                                  *)
(***************************************************************************)
Wake ==
    /\ ~watchdog.awake
    /\ watchdog' = [Asleep EXCEPT !.awake = TRUE, !.entries = registry]
    /\ UNCHANGED <<state, java, thread, registry, stale, page>>

\* What a stall sets going.
StallSteps == <<"kill", "stop", "stall">>

\* Mutation: only batches that still count as running.
StalledWhileRunning(b) == stale[b] /\ running[b]

Stalled(b) == stale[b]

\* poll(), and the time of the last line, of an entry the sweep has not looked at.
Look ==
    /\ watchdog.awake
    /\ watchdog.steps = << >>
    /\ \E b \in watchdog.entries :
           LET stalled == process[b] = "alive" /\ Stalled(b) IN
           watchdog' = [watchdog EXCEPT
               !.entries = @ \ {b},
               !.batch = b,
               !.steps = IF stalled THEN StallSteps ELSE << >>,
               !.finished = IF process[b] # "alive" \/ stalled THEN @ \cup {b} ELSE @]
    /\ UNCHANGED <<state, java, thread, registry, stale, page>>

Kill ==
    /\ watchdog.steps # << >>
    /\ Write(watchdog.batch, Head(watchdog.steps))
    /\ watchdog' = [watchdog EXCEPT !.steps = Tail(@)]
    /\ UNCHANGED <<printed, file, thread, registry, stale, page>>

Sleep ==
    /\ watchdog.awake
    /\ watchdog.entries = {}
    /\ watchdog.steps = << >>
    /\ registry' = registry \ watchdog.finished
    /\ watchdog' = Asleep
    /\ UNCHANGED <<state, java, thread, stale, page>>

Watchdog == Wake \/ Look \/ Kill \/ Sleep

\* Ten minutes have passed since the last line.
PassStallLimit(b) ==
    /\ b \in registry
    /\ ~stale[b]
    /\ stale' = [stale EXCEPT ![b] = TRUE]
    /\ UNCHANGED <<state, java, thread, registry, watchdog, page>>

-----------------------------------------------------------------------------
(***************************************************************************)
(* The page: startPolling, with get_status and get_result.                 *)
(***************************************************************************)
Others == <<state, java, thread, registry, stale, watchdog>>
Turn(next) == page' = [page EXCEPT !.at = next] /\ UNCHANGED Others

\* get_status reads running, and error a little later.
PollStopped ==
    /\ page.at = "polling"
    /\ ~running[page.batch]
    /\ Turn("stopped")

PollError ==
    /\ page.at = "stopped"
    /\ Turn(IF error[page.batch] = None THEN "fetching" ELSE "failed")

\* get_result looks at both again, and at the file.
Fetch ==
    /\ page.at = "fetching"
    /\ Turn(IF running[page.batch] \/ error[page.batch] # None THEN "empty" ELSE "opening")

Open ==
    /\ page.at = "opening"
    /\ Turn(IF file[page.batch] = "whole" THEN "shown" ELSE "empty")

Page == PollStopped \/ PollError \/ Fetch \/ Open

-----------------------------------------------------------------------------
(***************************************************************************)
(* The Java process: LabCli.                                               *)
(***************************************************************************)
PrintLine(b) ==
    /\ process[b] = "alive"
    /\ printed[b] < MaxLines[b]
    /\ printed' = [printed EXCEPT ![b] = @ + 1]
    /\ UNCHANGED <<state, process, file, thread, registry, stale, watchdog, page>>

\* Files.writeString creates the file and fills it.
WriteResult(b) ==
    /\ process[b] = "alive"
    /\ file[b] # "whole"
    /\ file' = [file EXCEPT ![b] = IF @ = "absent" THEN "torn" ELSE "whole"]
    /\ UNCHANGED <<state, process, printed, thread, registry, stale, watchdog, page>>

\* The exit code is 0 only if the result has been written.
Exit(b) ==
    /\ process[b] = "alive"
    /\ \E code \in {"ok", "failed"} :
          /\ code = "ok" => file[b] = "whole"
          /\ process' = [process EXCEPT ![b] = code]
    /\ UNCHANGED <<state, printed, file, thread, registry, stale, watchdog, page>>

Java(b) == PrintLine(b) \/ WriteResult(b) \/ Exit(b)

Next ==
    \/ Watchdog
    \/ Page
    \/ \E b \in Batches : Start(b) \/ Worker(b) \/ Java(b) \/ PassStallLimit(b)

\* Threads run, the page polls, and time passes.  A thread gets a lock that is
\* free again and again: the watchdog sleeps without it for five seconds.  Nothing
\* is assumed of the Java process.
FairSpec ==
    /\ Init /\ [][Next]_vars
    /\ WF_vars(Watchdog) /\ WF_vars(Page)
    /\ \A b \in Batches : SF_vars(Worker(b)) /\ WF_vars(PassStallLimit(b))

Spec == Init /\ [][Next]_vars

-----------------------------------------------------------------------------
\* The variables have their types; what a sweep is about to look at or delete is
\* still in the registry (del would raise and end the only watchdog), and a process
\* that nobody reads any more is being watched.
TypeOK ==
    /\ running \in [Batches -> BOOLEAN]
    /\ error \in [Batches -> Reasons \cup {None}]
    /\ process \in [Batches -> {"none", "alive", "ok", "failed"}]
    /\ printed \in [Batches -> Nat] /\ \A b \in Batches : printed[b] <= MaxLines[b]
    /\ read \in [Batches -> Nat] /\ \A b \in Batches : read[b] <= printed[b]
    /\ file \in [Batches -> {"absent", "torn", "whole"}]
    /\ worker \in [Batches ->
           {"absent", "lost", "queued", "started", "reading", "settling", "done"}]
    /\ plan \in [Batches -> Seq({"stop", "exception", "start", "exit"})]
    /\ \A b \in Batches : (plan[b] # << >>) <=> (worker[b] = "settling")
    /\ registry \subseteq Batches
    /\ stale \in [Batches -> BOOLEAN]
    /\ watchdog \in [awake : BOOLEAN, entries : SUBSET registry, finished : SUBSET registry,
                     batch : registry \cup {None}, steps : Seq({"kill", "stop", "stall"})]
    /\ \A b \in Batches : process[b] = "alive" => worker[b] = "started" \/ b \in registry
    /\ page \in [batch : Batches \cup {None},
                 at : {"idle", "polling", "stopped", "fetching", "opening",
                       "failed", "empty", "shown"}]
    /\ Busy => page.batch # None

\* What the page shows is the whole result of a process that has ended, although
\* nothing orders the stop it saw, the error and the end of the process but the
\* order of the writes of two threads.
ShownIsFinal ==
    page.at = "shown" =>
        file[page.batch] = "whole" /\ process[page.batch] \in {"ok", "failed"}

\* In the end the page does not poll and no process lives: one that hangs is killed,
\* also when the thread that read its output has given up.  (Batches start once.)
LabSettles ==
    <>[](page.at # "polling" /\ \A b \in Batches : process[b] # "alive")
=============================================================================
