---------------------------- MODULE BatchLab_proofs ----------------------------
(***************************************************************************)
(* Theorems about module BatchLab, for any batches and any lines they print.  *)
(***************************************************************************)
EXTENDS BatchLab, TLAPS

-----------------------------------------------------------------------------
(***************************************************************************)
(* The inductive invariant.                                                *)
(***************************************************************************)
\* The writes a thread can have still to make, and the watchdog.
Plans  == {<< >>, <<"exception", "stop">>, <<"stop">>, <<"stop", "start">>, <<"start">>,
           <<"stop", "exit">>, <<"exit">>}
Sweeps == {<< >>, <<"kill", "stop", "stall">>, <<"stop", "stall">>, <<"stall">>}

\* The thread has come past Popen, so that no process will be started for the batch
\* any more; and none lives.
Begun(b) == worker[b] \in {"reading", "settling", "done"}
Ended(b) == Begun(b) /\ process[b] # "alive"

\* A batch that does not count as running and has no error has no process that lives,
\* now or later; nor has one whose thread will not report an error before it stops it.
BatchOK(b) ==
    /\ worker[b] \in {"absent", "lost", "queued"} => process[b] = "none"
    /\ file[b] # "absent" => process[b] # "none"
    /\ b \in registry => Begun(b)
    /\ ~running[b] => worker[b] = "absent" \/ error[b] # None \/ Ended(b)
    /\ plan[b] \in Plans
    /\ plan[b] = <<"stop">> => process[b] # "alive" \/ error[b] # None
    /\ plan[b] \notin {<< >>, <<"exception", "stop">>, <<"stop">>} => process[b] # "alive"

BatchesOK == \A b \in Batches : BatchOK(b)

\* The watchdog stops what it has killed, and forgets what has ended.
SweepOK ==
    /\ ~watchdog.awake => watchdog = Asleep
    /\ watchdog.steps \in Sweeps
    /\ watchdog.steps # << >> => watchdog.batch # None
    /\ watchdog.steps \notin {<< >>, StallSteps} => process[watchdog.batch] # "alive"
    /\ \A b \in watchdog.finished :
           process[b] # "alive" \/ (b = watchdog.batch /\ watchdog.steps = StallSteps)

\* The page polls a batch that was started, and looks for the result of one that ended.
PageOK ==
    /\ page.at # "idle" => page.batch \in Batches /\ worker[page.batch] # "absent"
    /\ page.at = "opening" => Ended(page.batch)

IInv == TypeOK /\ BatchesOK /\ SweepOK /\ PageOK /\ ShownIsFinal

-----------------------------------------------------------------------------
(***************************************************************************)
(* The operators.                                                          *)
(***************************************************************************)
LEMMA Assumptions ==
    /\ MaxLines \in [Batches -> Nat]
    /\ None \notin Batches /\ None \notin Reasons
BY BatchesAssumption

\* A plan is what is left of a longer one.
LEMMA PlanSteps ==
    ASSUME NEW p \in Plans, p # << >>
    PROVE  /\ Tail(p) \in Plans
           /\ Head(p) \in {"stop", "exception", "start", "exit"}
           /\ Len(p) = 1 <=> Tail(p) = << >>
           /\ p = <<"exception", "stop">> => Head(p) = "exception" /\ Tail(p) = <<"stop">>
           /\ p = <<"stop">> => Head(p) = "stop" /\ Tail(p) = << >>
           /\ p \notin {<<"exception", "stop">>, <<"stop">>} => Tail(p) # <<"stop">>
<1>1. CASE p = <<"exception", "stop">>
  BY <1>1 DEF Plans
<1>2. CASE p = <<"stop">>
  BY <1>2 DEF Plans
<1>3. CASE p = <<"stop", "start">>
  BY <1>3 DEF Plans
<1>4. CASE p = <<"start">>
  BY <1>4 DEF Plans
<1>5. CASE p = <<"stop", "exit">>
  BY <1>5 DEF Plans
<1>6. CASE p = <<"exit">>
  BY <1>6 DEF Plans
<1>7. QED
  BY <1>1, <1>2, <1>3, <1>4, <1>5, <1>6 DEF Plans

LEMMA PlansAreSequences == Plans \subseteq Seq({"stop", "exception", "start", "exit"})
BY DEF Plans

LEMMA SweepSteps ==
    ASSUME NEW p \in Sweeps, p # << >>
    PROVE  /\ Tail(p) \in Sweeps /\ Tail(p) # StallSteps
           /\ Head(p) \in {"kill", "stop", "stall"}
           /\ p = StallSteps => Head(p) = "kill"
           /\ p # StallSteps => Head(p) # "kill"
<1>1. CASE p = <<"kill", "stop", "stall">>
  BY <1>1 DEF Sweeps, StallSteps
<1>2. CASE p = <<"stop", "stall">>
  BY <1>2 DEF Sweeps, StallSteps
<1>3. CASE p = <<"stall">>
  BY <1>3 DEF Sweeps, StallSteps
<1>4. QED
  BY <1>1, <1>2, <1>3 DEF Sweeps

LEMMA SweepsAreSequences ==
    Sweeps \subseteq Seq({"kill", "stop", "stall"}) /\ StallSteps \in Sweeps /\ << >> \in Sweeps
    /\ StallSteps # << >>
BY DEF Sweeps, StallSteps

\* The functions of the state, without the rest of TypeOK.
LEMMA FunctionsOf ==
    TypeOK =>
        /\ running \in [Batches -> BOOLEAN]
        /\ error \in [Batches -> Reasons \cup {None}]
        /\ process \in [Batches -> {"none", "alive", "ok", "failed"}]
        /\ file \in [Batches -> {"absent", "torn", "whole"}]
        /\ worker \in [Batches ->
               {"absent", "lost", "queued", "started", "reading", "settling", "done"}]
        /\ plan \in [Batches -> Seq({"stop", "exception", "start", "exit"})]
        /\ stale \in [Batches -> BOOLEAN]
        /\ registry \subseteq Batches
BY DEF TypeOK

\* A write concerns one batch; a signal ends a process that lives.
LEMMA WriteIs ==
    ASSUME TypeOK, NEW b \in Batches, NEW step, Write(b, step)
    PROVE  /\ running' \in [Batches -> BOOLEAN]
           /\ error' \in [Batches -> Reasons \cup {None}]
           /\ process' \in [Batches -> {"none", "alive", "ok", "failed"}]
           /\ \A c \in Batches : c # b =>
                 running'[c] = running[c] /\ error'[c] = error[c] /\ process'[c] = process[c]
           /\ running'[b] = (running[b] /\ step # "stop")
           /\ error[b] # None => error'[b] # None
           /\ step \in Reasons => error'[b] # None
           /\ process'[b] = IF step = "kill" /\ process[b] = "alive" THEN "failed" ELSE process[b]
<1>1. /\ running' \in [Batches -> BOOLEAN]
      /\ \A c \in Batches : c # b => running'[c] = running[c]
      /\ running'[b] = (running[b] /\ step # "stop")
  <2>1. CASE step = "stop"
    BY <2>1, FunctionsOf DEF Write
  <2>2. CASE step # "stop"
    BY <2>2, FunctionsOf DEF Write
  <2>3. QED
    BY <2>1, <2>2
<1>2. /\ error' \in [Batches -> Reasons \cup {None}]
      /\ \A c \in Batches : c # b => error'[c] = error[c]
      /\ error[b] # None => error'[b] # None
      /\ step \in Reasons => error'[b] # None
  <2>1. CASE step \in Reasons
    BY <2>1, FunctionsOf, Assumptions DEF Write
  <2>2. CASE step \notin Reasons
    BY <2>2, FunctionsOf DEF Write
  <2>3. QED
    BY <2>1, <2>2
<1>3. /\ process' \in [Batches -> {"none", "alive", "ok", "failed"}]
      /\ \A c \in Batches : c # b => process'[c] = process[c]
      /\ process'[b] = IF step = "kill" /\ process[b] = "alive" THEN "failed" ELSE process[b]
  BY FunctionsOf DEF Write
<1>4. QED
  BY <1>1, <1>2, <1>3

-----------------------------------------------------------------------------
(***************************************************************************)
(* The batches.                                                            *)
(***************************************************************************)

\* A step that has nothing to do with a batch.
LEMMA BatchUntouched ==
    ASSUME NEW c \in Batches, BatchOK(c),
           running'[c] = running[c], error'[c] = error[c], process'[c] = process[c],
           file'[c] = file[c], worker'[c] = worker[c], plan'[c] = plan[c],
           c \in registry' => c \in registry
    PROVE  BatchOK(c)'
BY DEF BatchOK, Begun, Ended

\* Steps that leave alone what BatchOK is about, or let go of a batch.
Idle == UNCHANGED <<running, error, process, file, worker, plan>> /\ registry' \subseteq registry

LEMMA BatchesOfIdle == TypeOK /\ BatchesOK /\ Idle => BatchesOK'
BY BatchUntouched DEF Idle, BatchesOK

LEMMA IdleSteps ==
    ASSUME NEW b \in Batches,
           ReadLine(b) \/ PassStallLimit(b) \/ PrintLine(b)
    PROVE  Idle
BY DEF ReadLine, PassStallLimit, PrintLine, Idle, state, java, thread

\* A step of one batch leaves the others alone.
LEMMA BatchesOfOne ==
    ASSUME BatchesOK, NEW b \in Batches, BatchOK(b)',
           \A c \in Batches : c # b =>
               /\ running'[c] = running[c] /\ error'[c] = error[c] /\ process'[c] = process[c]
               /\ file'[c] = file[c] /\ worker'[c] = worker[c] /\ plan'[c] = plan[c]
               /\ c \in registry' => c \in registry
    PROVE  BatchesOK'
<1>1. SUFFICES ASSUME NEW c \in Batches PROVE BatchOK(c)'
  BY DEF BatchesOK
<1>2. CASE c = b
  BY <1>2
<1>3. CASE c # b
  BY <1>3, BatchUntouched DEF BatchesOK
<1>4. QED
  BY <1>2, <1>3

LEMMA BatchesOfStart ==
    ASSUME TypeOK, BatchesOK, NEW b \in Batches, Start(b)
    PROVE  BatchesOK'
<1>1. /\ BatchOK(b) /\ worker[b] = "absent" /\ running'[b] = TRUE
      /\ worker'[b] \in {"queued", "lost"}
  BY FunctionsOf DEF BatchesOK, Start
<1>2. UNCHANGED <<error, process, file, plan, registry>>
  BY DEF Start, java
<1>3. BatchOK(b)'
  BY <1>1, <1>2 DEF BatchOK, Begun, Ended
<1>4. QED
  BY <1>2, <1>3, FunctionsOf, BatchesOfOne DEF Start

LEMMA BatchesOfPopen ==
    ASSUME TypeOK, BatchesOK, NEW b \in Batches, Popen(b)
    PROVE  BatchesOK'
<1>1. BatchOK(b) /\ worker[b] = "queued" /\ UNCHANGED <<running, error, file, registry>>
  BY DEF BatchesOK, Popen, state
<1>2. plan[b] = << >>
  BY <1>1 DEF TypeOK
<1>3. CASE /\ process' = [process EXCEPT ![b] = "alive"]
           /\ worker' = [worker EXCEPT ![b] = "started"]
           /\ UNCHANGED plan
  <2>1. process'[b] = "alive" /\ worker'[b] = "started" /\ plan'[b] = << >>
    BY <1>2, <1>3, FunctionsOf
  <2>2. BatchOK(b)'
    BY <1>1, <2>1 DEF BatchOK, Begun, Ended, Plans
  <2>3. QED
    BY <1>1, <1>3, <2>2, FunctionsOf, BatchesOfOne
<1>4. CASE Settle(b, <<"stop", "start">>) /\ UNCHANGED process
  <2>1. process'[b] = "none" /\ worker'[b] = "settling" /\ plan'[b] = <<"stop", "start">>
    BY <1>1, <1>4, FunctionsOf DEF Settle, BatchOK
  <2>2. BatchOK(b)'
    BY <1>1, <2>1 DEF BatchOK, Begun, Ended, Plans
  <2>3. QED
    BY <1>1, <1>4, <2>2, FunctionsOf, BatchesOfOne DEF Settle
<1>5. QED
  BY <1>3, <1>4 DEF Popen

\* The thread settles a batch in one of three ways.
LEMMA BatchesOfSettle ==
    ASSUME TypeOK, BatchesOK, NEW b \in Batches, NEW steps, Settle(b, steps),
           worker[b] \in {"queued", "reading"},
           \/ steps = <<"exception", "stop">>
           \/ /\ steps \in {<<"stop">>, <<"stop", "exit">>}
              /\ process[b] # "alive",
           UNCHANGED <<running, error, process, file>>, registry' \subseteq registry
    PROVE  BatchesOK'
<1>1. BatchOK(b)
  BY DEF BatchesOK
<1>2. worker'[b] = "settling" /\ plan'[b] = steps
  BY FunctionsOf DEF Settle
<1>3. BatchOK(b)'
  BY <1>1, <1>2 DEF BatchOK, Begun, Ended, Plans
<1>4. QED
  BY <1>3, FunctionsOf, BatchesOfOne DEF Settle

LEMMA BatchesOfSettling ==
    ASSUME TypeOK, BatchesOK, NEW b \in Batches, NoCommand(b) \/ CannotDecode(b) \/ Finish(b)
    PROVE  BatchesOK'
<1>1. UNCHANGED <<running, error, process, file>>
  BY DEF NoCommand, CannotDecode, Finish, state, java
<1>2. CASE NoCommand(b) \/ CannotDecode(b)
  BY <1>1, <1>2, BatchesOfSettle DEF NoCommand, CannotDecode, Except
<1>3. CASE Finish(b)
  <2>1. registry' \subseteq registry /\ worker[b] = "reading" /\ process[b] # "alive"
    BY <1>3 DEF Finish, Unregister
  <2>2. CASE Settle(b, <<"stop">>)
    BY <1>1, <2>1, <2>2, BatchesOfSettle
  <2>3. CASE Settle(b, <<"stop", "exit">>)
    BY <1>1, <2>1, <2>3, BatchesOfSettle
  <2>4. QED
    BY <1>3, <2>2, <2>3 DEF Finish
<1>4. QED
  BY <1>2, <1>3

LEMMA BatchesOfRegister ==
    ASSUME TypeOK, BatchesOK, NEW b \in Batches, Register(b)
    PROVE  BatchesOK'
<1>1. BatchOK(b) /\ worker[b] = "started" /\ worker'[b] = "reading"
  BY FunctionsOf DEF BatchesOK, Register
<1>2. UNCHANGED <<running, error, process, file, plan>> /\ registry' = registry \cup {b}
  BY DEF Register, state, java
<1>3. BatchOK(b)'
  BY <1>1, <1>2 DEF BatchOK, Begun, Ended
<1>4. QED
  BY <1>2, <1>3, FunctionsOf, BatchesOfOne DEF Register

LEMMA BatchesOfReport ==
    ASSUME TypeOK, BatchesOK, NEW b \in Batches, Report(b)
    PROVE  BatchesOK'
<1>1. BatchOK(b) /\ worker[b] = "settling" /\ plan[b] # << >> /\ plan[b] \in Plans
  BY DEF BatchesOK, BatchOK, Report, TypeOK
<1>2. UNCHANGED <<file, registry>> /\ Write(b, Head(plan[b]))
  BY DEF Report
<1>3. plan'[b] = Tail(plan[b]) /\ worker'[b] \in {"settling", "done"}
      /\ \A c \in Batches : c # b => plan'[c] = plan[c] /\ worker'[c] = worker[c]
  BY <1>1, FunctionsOf DEF Report
<1> DEFINE step == Head(plan[b])
<1>4. /\ Tail(plan[b]) \in Plans
      /\ step \in {"stop", "exception", "start", "exit"}
      /\ plan[b] = <<"exception", "stop">> => step = "exception" /\ Tail(plan[b]) = <<"stop">>
      /\ plan[b] = <<"stop">> => step = "stop" /\ Tail(plan[b]) = << >>
      /\ plan[b] \notin {<<"exception", "stop">>, <<"stop">>} => Tail(plan[b]) # <<"stop">>
  BY <1>1, PlanSteps
<1>5. /\ \A c \in Batches : c # b =>
            running'[c] = running[c] /\ error'[c] = error[c] /\ process'[c] = process[c]
      /\ running'[b] = (running[b] /\ step # "stop")
      /\ error[b] # None => error'[b] # None
      /\ step \in Reasons => error'[b] # None
      /\ process'[b] = process[b]
  <2> HIDE DEF step
  <2>1. Write(b, step)
    BY <1>2 DEF step
  <2>2. QED
    BY <1>4, <2>1, WriteIs
<1> HIDE DEF step
<1>6. BatchOK(b)'
  <2>1. CASE plan[b] = <<"exception", "stop">>
    <3>1. plan'[b] = <<"stop">> /\ error'[b] # None
      BY <1>3, <1>4, <1>5, <2>1 DEF Reasons
    <3>2. QED
      BY <1>1, <1>2, <1>3, <1>5, <3>1 DEF BatchOK, Begun, Ended, Plans
  <2>2. CASE plan[b] = <<"stop">>
    <3>1. plan'[b] = << >>
      BY <1>3, <1>4, <2>2
    <3>2. QED
      BY <1>1, <1>2, <1>3, <1>5, <2>2, <3>1 DEF BatchOK, Begun, Ended, Plans
  <2>3. CASE plan[b] \notin {<<"exception", "stop">>, <<"stop">>}
    <3>1. plan'[b] \in Plans /\ plan'[b] # <<"stop">> /\ process[b] # "alive"
      BY <1>1, <1>3, <1>4, <2>3 DEF BatchOK
    <3>2. QED
      BY <1>1, <1>2, <1>3, <1>5, <3>1 DEF BatchOK, Begun, Ended
  <2>4. QED
    BY <2>1, <2>2, <2>3
<1>7. QED
  BY <1>2, <1>3, <1>5, <1>6, BatchesOfOne

LEMMA BatchesOfKill ==
    ASSUME TypeOK, BatchesOK, SweepOK, Kill
    PROVE  BatchesOK'
<1> DEFINE step == Head(watchdog.steps)
<1>1. PICK b \in Batches : b = watchdog.batch /\ b \in registry
  BY DEF Kill, SweepOK, TypeOK
<1>2. BatchOK(b) /\ Write(b, step) /\ UNCHANGED <<file, worker, plan, registry>>
  BY <1>1 DEF BatchesOK, Kill, thread
<1>3. /\ step \in {"kill", "stop", "stall"}
      /\ step # "kill" => process[b] # "alive"
  BY <1>1, SweepSteps DEF Kill, SweepOK
<1> HIDE DEF step
<1>4. /\ \A c \in Batches : c # b =>
            running'[c] = running[c] /\ error'[c] = error[c] /\ process'[c] = process[c]
      /\ running'[b] = (running[b] /\ step # "stop")
      /\ error[b] # None => error'[b] # None
      /\ process'[b] = IF step = "kill" /\ process[b] = "alive" THEN "failed" ELSE process[b]
  BY <1>1, <1>2, WriteIs
<1>5. process'[b] # "alive" /\ (process'[b] = "none" <=> process[b] = "none")
  BY <1>3, <1>4
<1>6. Begun(b)
  BY <1>1, <1>2 DEF BatchOK
<1>7. BatchOK(b)'
  BY <1>1, <1>2, <1>4, <1>5, <1>6 DEF BatchOK, Begun, Ended
<1>8. QED
  BY <1>1, <1>2, <1>4, <1>7, BatchesOfOne

LEMMA BatchesOfJava ==
    ASSUME TypeOK, BatchesOK, NEW b \in Batches, WriteResult(b) \/ Exit(b)
    PROVE  BatchesOK'
<1>1. BatchOK(b) /\ UNCHANGED <<running, error, worker, plan, registry>> /\ process[b] = "alive"
  BY DEF BatchesOK, WriteResult, Exit, state, thread
<1>2. CASE WriteResult(b)
  <2>1. process' = process
    BY <1>2 DEF WriteResult
  <2>2. BatchOK(b)'
    BY <1>1, <2>1 DEF BatchOK, Begun, Ended
  <2>3. QED
    BY <1>1, <1>2, <2>1, <2>2, FunctionsOf, BatchesOfOne DEF WriteResult
<1>3. CASE Exit(b)
  <2>1. file' = file /\ process'[b] \in {"ok", "failed"}
    BY <1>3, FunctionsOf DEF Exit
  <2>2. BatchOK(b)'
    BY <1>1, <2>1 DEF BatchOK, Begun, Ended
  <2>3. QED
    BY <1>1, <1>3, <2>1, <2>2, FunctionsOf, BatchesOfOne DEF Exit
<1>4. QED
  BY <1>2, <1>3

LEMMA NextBatchesOK == IInv /\ [Next]_vars => BatchesOK'
<1> SUFFICES ASSUME IInv, [Next]_vars PROVE BatchesOK'
  OBVIOUS
<1>1. TypeOK /\ BatchesOK /\ SweepOK
  BY DEF IInv
<1>2. CASE Watchdog \/ Page
  <2>1. CASE Kill
    BY <1>1, <2>1, BatchesOfKill
  <2>2. CASE Wake \/ Look \/ Sleep \/ Page
    <3>1. Idle
      BY <2>2
      DEF Wake, Look, Sleep, Page, PollStopped, PollError, Fetch, Open, Turn, Others, Idle,
          state, java, thread
    <3>2. QED
      BY <1>1, <3>1, BatchesOfIdle
  <2>3. QED
    BY <1>2, <2>1, <2>2 DEF Watchdog
<1>3. ASSUME NEW b \in Batches, Start(b) \/ Worker(b) \/ Java(b) \/ PassStallLimit(b)
      PROVE  BatchesOK'
  <2>1. CASE Start(b)
    BY <1>1, <2>1, BatchesOfStart
  <2>2. CASE Popen(b)
    BY <1>1, <2>2, BatchesOfPopen
  <2>3. CASE NoCommand(b) \/ CannotDecode(b) \/ Finish(b)
    BY <1>1, <2>3, BatchesOfSettling
  <2>4. CASE Register(b)
    BY <1>1, <2>4, BatchesOfRegister
  <2>5. CASE Report(b)
    BY <1>1, <2>5, BatchesOfReport
  <2>6. CASE WriteResult(b) \/ Exit(b)
    BY <1>1, <2>6, BatchesOfJava
  <2>7. CASE ReadLine(b) \/ PassStallLimit(b) \/ PrintLine(b)
    BY <1>1, <2>7, IdleSteps, BatchesOfIdle
  <2>8. QED
    BY <1>3, <2>1, <2>2, <2>3, <2>4, <2>5, <2>6, <2>7 DEF Worker, Java
<1>4. CASE UNCHANGED vars
  BY <1>1, <1>4, BatchesOfIdle DEF vars, state, java, thread, Idle
<1>5. QED
  BY <1>2, <1>3, <1>4 DEF Next

-----------------------------------------------------------------------------
(***************************************************************************)
(* The types.                                                              *)
(***************************************************************************)
Registered == \A b \in Batches : process[b] = "alive" => worker[b] = "started" \/ b \in registry

Planned == \A b \in Batches : (plan[b] # << >>) <=> (worker[b] = "settling")

LEMMA TypeOfStart ==
    ASSUME TypeOK, NEW b \in Batches, Start(b)
    PROVE  TypeOK'
<1>1. running' \in [Batches -> BOOLEAN]
  BY FunctionsOf DEF Start
<1>2. /\ worker' \in [Batches ->
             {"absent", "lost", "queued", "started", "reading", "settling", "done"}]
      /\ \A c \in Batches : (worker'[c] = "settling" <=> worker[c] = "settling")
                            /\ (worker[c] = "started" => worker'[c] = "started")
  BY FunctionsOf DEF Start
<1>3. /\ page' \in [batch : Batches \cup {None},
                    at : {"idle", "polling", "stopped", "fetching", "opening",
                          "failed", "empty", "shown"}]
      /\ (Busy => page.batch # None)'
  <2>1. CASE page' = [batch |-> b, at |-> "polling"]
    BY <2>1, Assumptions DEF Busy
  <2>2. CASE UNCHANGED page
    BY <2>2 DEF TypeOK, Busy
  <2>3. QED
    BY <2>1, <2>2 DEF Start
<1>4. QED
  BY <1>1, <1>2, <1>3 DEF Start, TypeOK, java

\* A step of the thread, but for its writes.
LEMMA TypeOfThread ==
    ASSUME TypeOK,
           read' \in [Batches -> Nat], \A c \in Batches : read'[c] <= printed[c],
           worker' \in [Batches ->
               {"absent", "lost", "queued", "started", "reading", "settling", "done"}],
           plan' \in [Batches -> Seq({"stop", "exception", "start", "exit"})],
           process' \in [Batches -> {"none", "alive", "ok", "failed"}],
           stale' \in [Batches -> BOOLEAN],
           registry' \subseteq Batches,
           registry \subseteq registry' \/ watchdog = Asleep,
           Planned', Registered',
           UNCHANGED <<state, printed, file, watchdog, page>>
    PROVE  TypeOK'
<1>1. watchdog' \in [awake : BOOLEAN, entries : SUBSET registry', finished : SUBSET registry',
                     batch : registry' \cup {None}, steps : Seq({"kill", "stop", "stall"})]
  <2>1. CASE watchdog = Asleep
    BY <2>1 DEF Asleep
  <2>2. CASE registry \subseteq registry'
    BY <2>2 DEF TypeOK
  <2>3. QED
    BY <2>1, <2>2
<1>2. QED
  BY <1>1 DEF TypeOK, state, Planned, Registered, Busy

LEMMA TypeOfSettle ==
    ASSUME TypeOK, NEW b \in Batches, NEW steps \in Plans, steps # << >>, Settle(b, steps)
    PROVE  /\ worker' \in [Batches ->
                 {"absent", "lost", "queued", "started", "reading", "settling", "done"}]
           /\ plan' \in [Batches -> Seq({"stop", "exception", "start", "exit"})]
           /\ Planned'
           /\ \A c \in Batches : c # b => worker'[c] = worker[c]
<1>1. steps \in Seq({"stop", "exception", "start", "exit"})
  BY PlansAreSequences
<1>2. worker' = [worker EXCEPT ![b] = "settling"] /\ plan' = [plan EXCEPT ![b] = steps]
  BY DEF Settle
<1>3. Planned
  BY DEF TypeOK, Planned
<1>4. QED
  BY <1>1, <1>2, <1>3, FunctionsOf DEF Planned

LEMMA TypeOfWorker ==
    ASSUME IInv, NEW b \in Batches, Worker(b)
    PROVE  TypeOK'
<1>1. TypeOK /\ BatchOK(b) /\ (~watchdog.awake => watchdog = Asleep)
  BY DEF IInv, BatchesOK, SweepOK
<1>2. read \in [Batches -> Nat] /\ \A c \in Batches : read[c] <= printed[c] /\ printed[c] \in Nat
  BY <1>1 DEF TypeOK
<1>3. Registered /\ Planned
  BY <1>1 DEF TypeOK, Registered, Planned
<1>4. <<"exception", "stop">> \in Plans /\ <<"stop">> \in Plans /\ <<"stop", "start">> \in Plans
      /\ <<"stop", "exit">> \in Plans /\ << >> \notin {<<"exception", "stop">>, <<"stop">>,
                                                     <<"stop", "start">>, <<"stop", "exit">>}
  BY DEF Plans
<1>5. CASE NoCommand(b) \/ CannotDecode(b)
  <2>1. Settle(b, Except) /\ worker[b] # "started" /\ UNCHANGED <<process, registry>>
    BY <1>5 DEF NoCommand, CannotDecode, java
  <2>2. /\ worker' \in [Batches ->
              {"absent", "lost", "queued", "started", "reading", "settling", "done"}]
        /\ plan' \in [Batches -> Seq({"stop", "exception", "start", "exit"})]
        /\ Planned'
        /\ \A c \in Batches : c # b => worker'[c] = worker[c]
    BY <1>1, <1>4, <2>1, TypeOfSettle DEF Except
  <2>3. Registered'
    BY <1>3, <2>1, <2>2 DEF Registered
  <2>4. UNCHANGED <<state, printed, file, watchdog, page, process, read, stale, registry>>
    BY <1>5 DEF NoCommand, CannotDecode, java
  <2>5. QED
    BY <1>1, <1>2, <2>2, <2>3, <2>4, TypeOfThread, FunctionsOf
<1>6. CASE Popen(b)
  <2> UNCHANGED <<state, printed, file, watchdog, page, read, stale, registry>>
    BY <1>6 DEF Popen
  <2>1. CASE /\ process' = [process EXCEPT ![b] = "alive"]
             /\ worker' = [worker EXCEPT ![b] = "started"]
             /\ UNCHANGED plan
    <3>1. worker[b] = "queued"
      BY <1>6 DEF Popen
    <3>2. /\ process' \in [Batches -> {"none", "alive", "ok", "failed"}]
          /\ worker' \in [Batches ->
                {"absent", "lost", "queued", "started", "reading", "settling", "done"}]
          /\ worker'[b] = "started"
          /\ \A c \in Batches : c # b => worker'[c] = worker[c] /\ process'[c] = process[c]
      BY <1>1, <2>1, FunctionsOf
    <3>3. Planned' /\ Registered'
      BY <1>3, <1>6, <2>1, <3>1, <3>2 DEF Planned, Registered, Popen
    <3>4. QED
      BY <1>1, <1>2, <2>1, <3>2, <3>3, TypeOfThread, FunctionsOf
  <2>2. CASE Settle(b, <<"stop", "start">>) /\ UNCHANGED process
    <3>1. /\ worker' \in [Batches ->
                {"absent", "lost", "queued", "started", "reading", "settling", "done"}]
          /\ plan' \in [Batches -> Seq({"stop", "exception", "start", "exit"})]
          /\ Planned'
          /\ \A c \in Batches : c # b => worker'[c] = worker[c]
      BY <1>1, <1>4, <2>2, TypeOfSettle
    <3>2. Registered'
      BY <1>3, <1>6, <2>2, <3>1 DEF Registered, Popen
    <3>3. QED
      BY <1>1, <1>2, <2>2, <3>1, <3>2, TypeOfThread, FunctionsOf
  <2>3. QED
    BY <1>6, <2>1, <2>2 DEF Popen
<1>7. CASE Register(b)
  <2>1. /\ worker[b] = "started"
        /\ worker' \in [Batches ->
              {"absent", "lost", "queued", "started", "reading", "settling", "done"}]
        /\ stale' \in [Batches -> BOOLEAN]
        /\ worker'[b] = "reading"
        /\ \A c \in Batches : c # b => worker'[c] = worker[c]
    BY <1>1, <1>7, FunctionsOf DEF Register
  <2>2. Planned' /\ Registered'
    BY <1>3, <1>7, <2>1 DEF Planned, Registered, Register, java
  <2>3. registry' = registry \cup {b}
    BY <1>7 DEF Register
  <2>4. QED
    BY <1>1, <1>2, <1>7, <2>1, <2>2, <2>3, TypeOfThread, FunctionsOf DEF Register, java
<1>8. CASE ReadLine(b)
  <2>1. read' \in [Batches -> Nat] /\ \A c \in Batches : read'[c] <= printed[c]
    BY <1>2, <1>8 DEF ReadLine
  <2>2. stale' \in [Batches -> BOOLEAN]
    BY <1>1, <1>8, FunctionsOf DEF ReadLine
  <2>3. Planned' /\ Registered'
    BY <1>3, <1>8 DEF Planned, Registered, ReadLine, java
  <2>4. QED
    BY <1>1, <1>8, <2>1, <2>2, <2>3, TypeOfThread, FunctionsOf DEF ReadLine, java
<1>9. CASE Finish(b)
  <2>1. \E steps \in {<<"stop">>, <<"stop", "exit">>} : Settle(b, steps)
    BY <1>9 DEF Finish
  <2>2. /\ worker' \in [Batches ->
              {"absent", "lost", "queued", "started", "reading", "settling", "done"}]
        /\ plan' \in [Batches -> Seq({"stop", "exception", "start", "exit"})]
        /\ Planned'
        /\ \A c \in Batches : c # b => worker'[c] = worker[c]
    BY <1>1, <1>4, <2>1, TypeOfSettle
  <2>3. /\ UNCHANGED <<state, java, read, stale, watchdog, page>>
        /\ registry' = registry \ {b} /\ ~watchdog.awake /\ process[b] # "alive"
    BY <1>9 DEF Finish, Unregister
  <2>4. Registered'
    BY <1>3, <2>2, <2>3 DEF Registered, java
  <2>5. QED
    BY <1>1, <1>2, <2>2, <2>3, <2>4, TypeOfThread, FunctionsOf DEF java
<1>10. CASE Report(b)
  <2> DEFINE step == Head(plan[b])
  <2>1. worker[b] = "settling" /\ plan[b] # << >> /\ plan[b] \in Plans
    BY <1>1, <1>10 DEF Report, BatchOK, TypeOK
  <2>2. /\ Tail(plan[b]) \in Plans /\ step \in {"stop", "exception", "start", "exit"}
        /\ Len(plan[b]) = 1 <=> Tail(plan[b]) = << >>
    BY <2>1, PlanSteps
  <2>3. Tail(plan[b]) \in Seq({"stop", "exception", "start", "exit"})
    BY <2>2, PlansAreSequences
  <2>4. /\ plan' = [plan EXCEPT ![b] = Tail(plan[b])]
        /\ worker' = [worker EXCEPT ![b] = IF Len(plan[b]) = 1 THEN "done" ELSE worker[b]]
    BY <1>10 DEF Report
  <2>5. /\ plan' \in [Batches -> Seq({"stop", "exception", "start", "exit"})]
        /\ worker' \in [Batches ->
              {"absent", "lost", "queued", "started", "reading", "settling", "done"}]
        /\ plan'[b] = Tail(plan[b])
        /\ worker'[b] = IF Len(plan[b]) = 1 THEN "done" ELSE "settling"
        /\ \A c \in Batches : c # b => plan'[c] = plan[c] /\ worker'[c] = worker[c]
    BY <1>1, <2>1, <2>3, <2>4, FunctionsOf
  <2>6. Planned'
    BY <1>3, <2>2, <2>5 DEF Planned
  <2>7. Write(b, step)
    BY <1>10 DEF Report
  <2> HIDE DEF step
  <2>8. /\ running' \in [Batches -> BOOLEAN]
        /\ error' \in [Batches -> Reasons \cup {None}]
        /\ process' \in [Batches -> {"none", "alive", "ok", "failed"}]
        /\ \A c \in Batches : process'[c] = process[c]
    BY <1>1, <2>2, <2>7, WriteIs
  <2>9. UNCHANGED <<printed, file, read, registry, stale, watchdog, page>>
    BY <1>10 DEF Report
  <2>10. Registered'
    BY <1>3, <2>1, <2>5, <2>8, <2>9 DEF Registered
  <2>11. QED
    BY <1>1, <2>5, <2>6, <2>8, <2>9, <2>10 DEF TypeOK, Planned, Registered, Busy
<1>11. QED
  BY <1>5, <1>6, <1>7, <1>8, <1>9, <1>10 DEF Worker

LEMMA TypeOfJava ==
    ASSUME TypeOK, NEW b \in Batches, Java(b) \/ PassStallLimit(b)
    PROVE  TypeOK'
<1>1. CASE PrintLine(b)
  <2>1. printed[b] \in Nat /\ MaxLines[b] \in Nat /\ printed[b] < MaxLines[b]
        /\ printed' = [printed EXCEPT ![b] = printed[b] + 1]
        /\ printed \in [Batches -> Nat]
    BY <1>1, Assumptions DEF PrintLine, TypeOK
  <2>2. /\ printed' \in [Batches -> Nat]
        /\ printed'[b] = printed[b] + 1
        /\ \A c \in Batches : c # b => printed'[c] = printed[c]
    BY <2>1
  <2>3. /\ read \in [Batches -> Nat]
        /\ \A c \in Batches : printed[c] <= MaxLines[c] /\ read[c] <= printed[c]
                               /\ read[c] \in Nat /\ printed[c] \in Nat
    BY DEF TypeOK
  <2>4. \A c \in Batches : printed'[c] <= MaxLines[c] /\ read[c] <= printed'[c]
    <3> TAKE c \in Batches
    <3>1. CASE c = b
      BY <2>1, <2>2, <2>3, <3>1
    <3>2. CASE c # b
      BY <2>2, <2>3, <3>2
    <3>3. QED
      BY <3>1, <3>2
  <2>5. QED
    BY <1>1, <2>2, <2>4 DEF PrintLine, TypeOK, state, thread, Busy
<1>2. CASE WriteResult(b)
  <2>1. file' \in [Batches -> {"absent", "torn", "whole"}]
    BY <1>2, FunctionsOf DEF WriteResult
  <2>2. QED
    BY <1>2, <2>1 DEF WriteResult, TypeOK, state, thread, Busy
<1>3. CASE Exit(b)
  <2>1. PICK code \in {"ok", "failed"} : process' = [process EXCEPT ![b] = code]
    BY <1>3 DEF Exit
  <2>2. /\ process' \in [Batches -> {"none", "alive", "ok", "failed"}]
        /\ \A c \in Batches : process'[c] = "alive" => process[c] = "alive"
    BY <2>1, FunctionsOf
  <2>3. QED
    BY <1>3, <2>2 DEF Exit, TypeOK, state, thread, Busy
<1>4. CASE PassStallLimit(b)
  <2>1. stale' \in [Batches -> BOOLEAN]
    BY <1>4, FunctionsOf DEF PassStallLimit
  <2>2. QED
    BY <1>4, <2>1 DEF PassStallLimit, TypeOK, state, java, thread, Busy
<1>5. QED
  BY <1>1, <1>2, <1>3, <1>4 DEF Java

LEMMA TypeOfPage ==
    TypeOK /\ Page => TypeOK'
<1> SUFFICES ASSUME TypeOK, Page PROVE TypeOK'
  OBVIOUS
<1>1. PICK next \in {"stopped", "fetching", "opening", "failed", "empty", "shown"} : Turn(next)
  BY DEF Page, PollStopped, PollError, Fetch, Open
<1>2. Busy
  BY DEF Page, PollStopped, PollError, Fetch, Open, Busy
<1>3. QED
  BY <1>1, <1>2 DEF Turn, Others, TypeOK, state, java, thread, Busy

LEMMA TypeOfWatchdog ==
    ASSUME TypeOK, SweepOK, Watchdog
    PROVE  TypeOK'
<1>1. watchdog \in [awake : BOOLEAN, entries : SUBSET registry, finished : SUBSET registry,
                    batch : registry \cup {None}, steps : Seq({"kill", "stop", "stall"})]
  BY DEF TypeOK
<1>2. CASE Wake \/ Look
  <2>1. watchdog' \in [awake : BOOLEAN, entries : SUBSET registry, finished : SUBSET registry,
                       batch : registry \cup {None}, steps : Seq({"kill", "stop", "stall"})]
    <3>1. CASE Wake
      <4>1. watchdog' = [awake |-> TRUE, entries |-> registry, batch |-> None, steps |-> << >>,
                         finished |-> {}]
        BY <3>1 DEF Wake, Asleep
      <4>2. QED
        BY <4>1
    <3>2. CASE Look
      <4>1. PICK b \in watchdog.entries, stalled \in BOOLEAN :
               watchdog' = [watchdog EXCEPT
                   !.entries = @ \ {b},
                   !.batch = b,
                   !.steps = IF stalled THEN StallSteps ELSE << >>,
                   !.finished = IF process[b] # "alive" \/ stalled THEN @ \cup {b} ELSE @]
        BY <3>2 DEF Look
      <4>2. StallSteps \in Seq({"kill", "stop", "stall"})
            /\ << >> \in Seq({"kill", "stop", "stall"})
        BY SweepsAreSequences
      <4>3. PICK steps \in Seq({"kill", "stop", "stall"}), finished \in SUBSET registry :
               watchdog' = [watchdog EXCEPT !.entries = @ \ {b}, !.batch = b, !.steps = steps,
                                            !.finished = finished]
        <5>1. watchdog.finished \in SUBSET registry
              /\ watchdog.finished \cup {b} \in SUBSET registry
          BY <1>1
        <5>2. QED
          BY <4>1, <4>2, <5>1
      <4>4. b \in registry
        BY <1>1
      <4>5. QED
        BY <1>1, <4>3, <4>4
    <3>3. QED
      BY <1>2, <3>1, <3>2
  <2>2. UNCHANGED <<running, error, process, printed, file, read, worker, plan, registry, stale, page>>
    BY <1>2 DEF Wake, Look, state, java, thread
  <2>3. QED
    BY <2>1, <2>2 DEF TypeOK, Busy
<1>3. CASE Kill
  <2>1. watchdog.batch \in Batches /\ watchdog.steps \in Sweeps /\ watchdog.steps # << >>
    BY <1>3 DEF Kill, SweepOK, TypeOK
  <2>2. PICK step : Write(watchdog.batch, step)
    BY <1>3 DEF Kill
  <2>3. /\ running' \in [Batches -> BOOLEAN]
        /\ error' \in [Batches -> Reasons \cup {None}]
        /\ process' \in [Batches -> {"none", "alive", "ok", "failed"}]
        /\ \A c \in Batches : process'[c] = "alive" => process[c] = "alive"
    BY <2>1, <2>2, WriteIs
  <2>4. Tail(watchdog.steps) \in Seq({"kill", "stop", "stall"})
    BY <2>1, SweepSteps, SweepsAreSequences
  <2>5. watchdog' \in [awake : BOOLEAN, entries : SUBSET registry, finished : SUBSET registry,
                       batch : registry \cup {None}, steps : Seq({"kill", "stop", "stall"})]
    BY <1>1, <1>3, <2>4 DEF Kill
  <2>6. UNCHANGED <<printed, file, read, worker, plan, registry, stale, page>>
    BY <1>3 DEF Kill, thread
  <2>7. Registered'
    BY <2>3, <2>6 DEF Registered, TypeOK
  <2>8. QED
    BY <2>3, <2>5, <2>6, <2>7 DEF TypeOK, Registered, Busy
<1>4. CASE Sleep
  <2>1. \A b \in watchdog.finished : process[b] # "alive"
    BY <1>4, SweepsAreSequences DEF Sleep, SweepOK
  <2>2. watchdog' \in [awake : BOOLEAN, entries : SUBSET registry', finished : SUBSET registry',
                       batch : registry' \cup {None}, steps : Seq({"kill", "stop", "stall"})]
    BY <1>4 DEF Sleep, Asleep
  <2>3. Registered'
    BY <1>4, <2>1 DEF Sleep, Registered, TypeOK, java, thread
  <2>4. QED
    BY <1>4, <2>2, <2>3 DEF Sleep, TypeOK, Registered, state, java, thread, Busy
<1>5. QED
  BY <1>2, <1>3, <1>4 DEF Watchdog

LEMMA NextTypeOK == IInv /\ [Next]_vars => TypeOK'
<1> SUFFICES ASSUME IInv, [Next]_vars PROVE TypeOK'
  OBVIOUS
<1>1. TypeOK /\ SweepOK
  BY DEF IInv
<1>2. CASE Watchdog \/ Page
  BY <1>1, <1>2, TypeOfWatchdog, TypeOfPage
<1>3. ASSUME NEW b \in Batches, Start(b) \/ Worker(b) \/ Java(b) \/ PassStallLimit(b)
      PROVE  TypeOK'
  BY <1>1, <1>3, TypeOfStart, TypeOfWorker, TypeOfJava
<1>4. CASE UNCHANGED vars
  BY <1>1, <1>4 DEF vars, state, java, thread, TypeOK, Busy
<1>5. QED
  BY <1>2, <1>3, <1>4 DEF Next

-----------------------------------------------------------------------------
(***************************************************************************)
(* What a batch cannot lose again, the sweep and the page.                  *)
(***************************************************************************)

\* What is true of a batch for good: that it was started, that its thread is past Popen,
\* that its process has been started, and has ended, and that its result is whole.
Progress(c) ==
    /\ worker[c] # "absent" => worker'[c] # "absent"
    /\ Begun(c) => Begun(c)'
    /\ Begun(c) /\ process[c] # "alive" => process'[c] # "alive"
    /\ process[c] \in {"ok", "failed"} => process'[c] = process[c]
    /\ file[c] = "whole" => file'[c] = "whole"

LEMMA NextProgress ==
    ASSUME IInv, [Next]_vars, NEW c \in Batches
    PROVE  Progress(c)
<1>1. TypeOK /\ BatchOK(c) /\ SweepOK
  BY DEF IInv, BatchesOK
<1>2. CASE Kill
  <2>1. watchdog.batch \in Batches /\ \E step : Write(watchdog.batch, step)
    BY <1>1, <1>2 DEF Kill, SweepOK, TypeOK
  <2>2. /\ process'[c] = "alive" => process[c] = "alive"
        /\ process[c] \in {"ok", "failed"} => process'[c] = process[c]
    BY <1>1, <2>1, WriteIs
  <2>3. QED
    BY <1>2, <2>2 DEF Kill, thread, Progress, Begun
<1>3. CASE Wake \/ Look \/ Sleep \/ Page
  BY <1>3
  DEF Wake, Look, Sleep, Page, PollStopped, PollError, Fetch, Open, Turn, Others, Progress, Begun,
      java, thread
<1>4. CASE UNCHANGED vars
  BY <1>4 DEF vars, java, thread, Progress, Begun
<1>5. ASSUME NEW b \in Batches, Start(b) \/ Worker(b) \/ Java(b) \/ PassStallLimit(b)
      PROVE  Progress(c)
  <2>1. CASE Start(b)
    BY <1>1, <2>1, FunctionsOf DEF Start, java, Progress, Begun
  <2>2. CASE NoCommand(b) \/ CannotDecode(b) \/ Finish(b)
    BY <1>1, <2>2, FunctionsOf DEF NoCommand, CannotDecode, Finish, Settle, java, Progress, Begun
  <2>3. CASE Popen(b)
    <3>1. worker[b] = "queued" /\ process[b] # "alive" /\ file' = file
          /\ ~Begun(b) /\ process[b] = "none"
      BY <1>1, <2>3 DEF Popen, BatchOK, Begun, IInv, BatchesOK
    <3>2. worker'[b] # "absent" /\ \A d \in Batches : d # b => worker'[d] = worker[d]
                                                          /\ process'[d] = process[d]
      BY <1>1, <2>3, FunctionsOf DEF Popen, Settle
    <3>3. CASE c = b
      BY <3>1, <3>2, <3>3 DEF Progress
    <3>4. CASE c # b
      BY <3>1, <3>2, <3>4 DEF Progress, Begun
    <3>5. QED
      BY <3>3, <3>4
  <2>4. CASE Register(b) \/ ReadLine(b)
    BY <1>1, <2>4, FunctionsOf DEF Register, ReadLine, java, Progress, Begun
  <2>5. CASE Report(b)
    <3>1. PICK step : Write(b, step) /\ step # "kill"
      <4>1. plan[b] \in Plans /\ plan[b] # << >>
        BY <1>1, <2>5 DEF IInv, BatchesOK, BatchOK, Report, TypeOK
      <4>2. Write(b, Head(plan[b])) /\ Head(plan[b]) # "kill"
        BY <2>5, <4>1, PlanSteps DEF Report
      <4>3. QED
        BY <4>2
    <3>2. process'[c] = process[c]
      BY <1>1, <3>1, WriteIs
    <3>3. file' = file /\ worker' = [worker EXCEPT ![b] = IF Len(plan[b]) = 1 THEN "done" ELSE @]
          /\ worker[b] = "settling"
      BY <2>5 DEF Report
    <3>4. QED
      BY <1>1, <3>2, <3>3, FunctionsOf DEF Progress, Begun
  <2>6. CASE PrintLine(b) \/ PassStallLimit(b)
    BY <2>6 DEF PrintLine, PassStallLimit, java, thread, Progress, Begun
  <2>7. CASE WriteResult(b) \/ Exit(b)
    BY <1>1, <2>7, FunctionsOf DEF WriteResult, Exit, thread, Progress, Begun
  <2>8. QED
    BY <1>5, <2>1, <2>2, <2>3, <2>4, <2>5, <2>6, <2>7 DEF Worker, Java
<1>6. QED
  BY <1>2, <1>3, <1>4, <1>5 DEF Next, Watchdog

\* The page looks at the batch it polls.
LEMMA NextPageOK == IInv /\ [Next]_vars => PageOK' /\ ShownIsFinal'
<1> SUFFICES ASSUME IInv, [Next]_vars PROVE PageOK' /\ ShownIsFinal'
  OBVIOUS
<1>1. TypeOK /\ BatchesOK /\ PageOK /\ ShownIsFinal
  BY DEF IInv
<1>2. TypeOK'
  BY NextTypeOK
<1>3. CASE UNCHANGED page
  <2>1. CASE page.at = "idle"
    BY <1>3, <2>1 DEF PageOK, ShownIsFinal
  <2>2. CASE page.at # "idle"
    <3>1. page.batch \in Batches /\ worker[page.batch] # "absent"
      BY <1>1, <2>2 DEF PageOK
    <3>2. Progress(page.batch)
      BY <3>1, NextProgress
    <3>3. PageOK'
      BY <1>1, <1>3, <3>1, <3>2 DEF PageOK, Progress, Ended, Begun
    <3>4. ShownIsFinal'
      <4>1. ASSUME page.at = "shown"
            PROVE  file'[page.batch] = "whole" /\ process'[page.batch] \in {"ok", "failed"}
        <5>1. file[page.batch] = "whole" /\ process[page.batch] \in {"ok", "failed"}
          BY <1>1, <4>1 DEF ShownIsFinal
        <5>2. QED
          BY <3>2, <5>1 DEF Progress
      <4>2. QED
        BY <1>3, <4>1 DEF ShownIsFinal
    <3>5. QED
      BY <3>3, <3>4
  <2>3. QED
    BY <2>1, <2>2
<1>4. CASE \E b \in Batches : Start(b) /\ page' = [batch |-> b, at |-> "polling"]
  <2>1. PICK b \in Batches : Start(b) /\ page' = [batch |-> b, at |-> "polling"]
    BY <1>4
  <2>2. worker'[b] # "absent"
    BY <1>1, <2>1, FunctionsOf DEF Start
  <2>3. QED
    BY <2>1, <2>2 DEF PageOK, ShownIsFinal
<1>5. CASE Page
  <2>1. UNCHANGED <<running, error, process, file, worker>> /\ page.at # "idle"
        /\ page'.batch = page.batch
    BY <1>1, <1>5
    DEF Page, PollStopped, PollError, Fetch, Open, Turn, Others, TypeOK, state, java, thread
  <2>2. page.batch \in Batches /\ worker[page.batch] # "absent" /\ BatchOK(page.batch)
    BY <1>1, <2>1 DEF PageOK, BatchesOK
  <2>3. CASE Fetch
    <3>1. page'.at \in {"empty", "opening"}
          /\ (page'.at = "opening" => ~running[page.batch] /\ error[page.batch] = None)
      BY <1>1, <2>3 DEF Fetch, Turn, TypeOK
    <3>2. page'.at = "opening" => Ended(page.batch)
      BY <2>2, <3>1 DEF BatchOK
    <3>3. QED
      BY <2>1, <2>2, <3>1, <3>2 DEF PageOK, ShownIsFinal, Ended, Begun
  <2>4. CASE Open
    <3>1. page'.at \in {"empty", "shown"} /\ (page'.at = "shown" => file[page.batch] = "whole")
      BY <1>1, <2>4 DEF Open, Turn, TypeOK
    <3>2. process[page.batch] # "alive"
      BY <1>1, <2>4 DEF PageOK, Ended, Open
    <3>3. file[page.batch] = "whole" => process[page.batch] \in {"ok", "failed"}
      BY <1>1, <2>2, <3>2, FunctionsOf DEF BatchOK
    <3>4. QED
      BY <2>1, <2>2, <3>1, <3>3 DEF PageOK, ShownIsFinal
  <2>5. CASE PollStopped \/ PollError
    <3>1. page'.at \in {"stopped", "fetching", "failed"}
      BY <1>1, <2>5 DEF PollStopped, PollError, Turn, TypeOK
    <3>2. QED
      BY <2>1, <2>2, <3>1 DEF PageOK, ShownIsFinal
  <2>6. QED
    BY <1>5, <2>3, <2>4, <2>5 DEF Page
<1>6. CASE Watchdog \/ UNCHANGED vars
  BY <1>3, <1>6 DEF Watchdog, Wake, Look, Kill, Sleep, vars
<1>7. ASSUME NEW b \in Batches, Start(b) \/ Worker(b) \/ Java(b) \/ PassStallLimit(b)
      PROVE  PageOK' /\ ShownIsFinal'
  <2>1. CASE Start(b)
    BY <1>3, <1>4, <2>1 DEF Start
  <2>2. CASE Worker(b) \/ Java(b) \/ PassStallLimit(b)
    BY <1>3, <2>2
    DEF Worker, NoCommand, Popen, Register, ReadLine, CannotDecode, Finish, Report, Java,
        PrintLine, WriteResult, Exit, PassStallLimit
  <2>3. QED
    BY <1>7, <2>1, <2>2
<1>8. QED
  BY <1>5, <1>6, <1>7 DEF Next

LEMMA NextSweepOK == IInv /\ [Next]_vars => SweepOK'
<1> SUFFICES ASSUME IInv, [Next]_vars PROVE SweepOK'
  OBVIOUS
<1>1. TypeOK /\ BatchesOK /\ SweepOK
  BY DEF IInv
<1>2. CASE UNCHANGED watchdog
  <2>1. \A c \in Batches : Progress(c)
    BY NextProgress
  <2>2. ASSUME NEW b \in registry, process[b] # "alive" PROVE process'[b] # "alive"
    <3>1. b \in Batches /\ Begun(b)
      BY <1>1 DEF TypeOK, BatchesOK, BatchOK
    <3>2. QED
      BY <2>1, <2>2, <3>1 DEF Progress
  <2>3. /\ watchdog.finished \subseteq registry
        /\ watchdog.steps \notin {<< >>, StallSteps} => watchdog.batch \in registry
    BY <1>1 DEF TypeOK, SweepOK
  <2>4. QED
    BY <1>1, <1>2, <2>2, <2>3 DEF SweepOK
<1>3. CASE Wake \/ Sleep
  <2>1. watchdog' \in {Asleep, [awake |-> TRUE, entries |-> registry, batch |-> None,
                                steps |-> << >>, finished |-> {}]}
    BY <1>3 DEF Wake, Sleep, Asleep
  <2>2. /\ watchdog'.steps = << >> /\ watchdog'.finished = {}
        /\ watchdog'.awake \/ watchdog' = Asleep
    BY <2>1 DEF Asleep
  <2>3. QED
    BY <2>2, SweepsAreSequences DEF SweepOK
<1>4. CASE Look
  <2>1. PICK b \in watchdog.entries, stalled \in BOOLEAN :
           /\ watchdog' = [watchdog EXCEPT
                  !.entries = @ \ {b},
                  !.batch = b,
                  !.steps = IF stalled THEN StallSteps ELSE << >>,
                  !.finished = IF process[b] # "alive" \/ stalled THEN @ \cup {b} ELSE @]
    BY <1>4 DEF Look
  <2>2. /\ watchdog.awake /\ watchdog.steps = << >> /\ process' = process
        /\ b \in Batches
    BY <1>1, <1>4 DEF Look, java, TypeOK
  <2>3. /\ watchdog'.awake = TRUE
        /\ watchdog'.steps = IF stalled THEN StallSteps ELSE << >>
        /\ watchdog'.batch = b
        /\ watchdog'.finished =
              IF process[b] # "alive" \/ stalled THEN watchdog.finished \cup {b}
                                                 ELSE watchdog.finished
    BY <1>1, <2>1, <2>2 DEF TypeOK
  <2>4. \A c \in watchdog.finished : process[c] # "alive"
    BY <1>1, <2>2, SweepsAreSequences DEF SweepOK
  <2>5. watchdog'.steps \in Sweeps /\ (watchdog'.steps # << >> => stalled)
    BY <2>3, SweepsAreSequences
  <2>6. QED
    BY <2>2, <2>3, <2>4, <2>5, Assumptions, SweepsAreSequences DEF SweepOK, StallSteps
<1>5. CASE Kill
  <2>1. watchdog.batch \in Batches /\ watchdog.steps \in Sweeps /\ watchdog.steps # << >>
        /\ watchdog.batch # None
    BY <1>1, <1>5 DEF Kill, SweepOK, TypeOK
  <2>2. PICK step : step = Head(watchdog.steps) /\ Write(watchdog.batch, step)
    BY <1>5 DEF Kill
  <2>3. /\ \A c \in Batches : process'[c] = "alive" => process[c] = "alive"
        /\ step = "kill" => process'[watchdog.batch] # "alive"
    BY <1>1, <2>1, <2>2, WriteIs
  <2>4. /\ watchdog'.steps = Tail(watchdog.steps) /\ watchdog'.batch = watchdog.batch
        /\ watchdog'.finished = watchdog.finished /\ watchdog'.awake = watchdog.awake
    BY <1>1, <1>5 DEF Kill, TypeOK
  <2>5. /\ Tail(watchdog.steps) \in Sweeps /\ Tail(watchdog.steps) # StallSteps
        /\ watchdog.steps = StallSteps => step = "kill"
    BY <2>1, <2>2, SweepSteps
  <2>6. process'[watchdog.batch] # "alive"
    BY <1>1, <2>1, <2>3, <2>5 DEF SweepOK
  <2>7. watchdog.awake
    BY <1>1, <2>1 DEF SweepOK, Asleep
  <2>8. \A c \in watchdog.finished : process'[c] # "alive"
    BY <1>1, <2>3, <2>6 DEF SweepOK, TypeOK
  <2>9. QED
    BY <2>1, <2>4, <2>5, <2>6, <2>7, <2>8 DEF SweepOK
<1>6. CASE Page \/ UNCHANGED vars
  BY <1>2, <1>6 DEF Page, PollStopped, PollError, Fetch, Open, Turn, Others, vars
<1>7. ASSUME NEW b \in Batches, Start(b) \/ Worker(b) \/ Java(b) \/ PassStallLimit(b)
      PROVE  SweepOK'
  BY <1>2, <1>7
  DEF Start, Worker, NoCommand, Popen, Register, ReadLine, CannotDecode, Finish, Report, Java,
      PrintLine, WriteResult, Exit, PassStallLimit
<1>8. QED
  BY <1>3, <1>4, <1>5, <1>6, <1>7 DEF Next, Watchdog

-----------------------------------------------------------------------------
(***************************************************************************)
(* The theorems.                                                           *)
(***************************************************************************)
LEMMA InitIInv == Init => IInv
<1> SUFFICES ASSUME Init PROVE IInv
  OBVIOUS
<1>1. << >> \in Seq({"stop", "exception", "start", "exit"}) /\ << >> \in Seq({"kill", "stop", "stall"})
  OBVIOUS
<1>2. TypeOK
  BY <1>1, Assumptions DEF Init, TypeOK, Asleep, Busy
<1>3. BatchesOK
  BY DEF Init, BatchesOK, BatchOK, Plans
<1>4. SweepOK /\ PageOK /\ ShownIsFinal
  BY DEF Init, SweepOK, PageOK, ShownIsFinal, Asleep, Sweeps
<1>5. QED
  BY <1>2, <1>3, <1>4 DEF IInv

\* The inductive invariant holds in every behaviour of the lab.
THEOREM Invariance == Spec => []IInv
<1>1. IInv /\ [Next]_vars => IInv'
  BY NextTypeOK, NextBatchesOK, NextSweepOK, NextPageOK DEF IInv
<1>2. QED
  BY InitIInv, <1>1, PTL DEF Spec

\* The variables have their types; above all, what a sweep deletes from the registry is
\* still there, and no process that lives is unwatched.
THEOREM TypeCorrect == Spec => []TypeOK
<1>1. IInv => TypeOK
  BY DEF IInv
<1>2. QED
  BY <1>1, Invariance, PTL

\* Whatever the threads of any number of batches, the watchdog and the Java processes
\* do, and in whatever order their unlocked writes to running and error fall, the page
\* shows a result only when it is whole and its process has ended.
THEOREM ResultsAreFinal == Spec => []ShownIsFinal
<1>1. IInv => ShownIsFinal
  BY DEF IInv
<1>2. QED
  BY <1>1, Invariance, PTL
=============================================================================
