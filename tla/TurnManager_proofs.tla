-------------------------- MODULE TurnManager_proofs --------------------------
(***************************************************************************)
(* Theorems about module TurnManager, for any number of seats and rounds,    *)
(* any control of the seats, any pool and any number of clicks.             *)
(***************************************************************************)
EXTENDS TurnManager, FiniteSetTheorems, TLAPS

-----------------------------------------------------------------------------
(***************************************************************************)
(* The inductive invariant.                                                *)
(***************************************************************************)
InTurn == pc \in {"phase", "prompt", "check"}

\* The turn of the round a seat has not had yet.
StillDue(s) == (pc = "seat" /\ s >= position) \/ (InTurn /\ s > position)

\* How many turns a seat has begun if it is still in.
Due(s) == IF StillDue(s) THEN turn - 1 ELSE turn

\* Until the game is finished, who is in has begun as many turns as there were rounds,
\* but for the one still to come; who is out, no more.
TurnsCounted ==
    ~Finished => \A s \in Seats : turns[s] <= Due(s) /\ (s \in Alive => turns[s] = Due(s))

\* Who is in has a place in the queue and in the round.
AliveSeated ==
    /\ Alive \subseteq turn_queue
    /\ pc = "seat" \/ InTurn => Alive \subseteq round

\* In a turn a land may be played beyond those of the turns before, and lands are not
\* made from nothing.
LandsCounted ==
    /\ OneLandPerTurn
    /\ InTurn => battlefield[Active] + 1 <= turns[Active] + lands_played[Active]
    /\ \A s \in Seats : hand[s] + battlefield[s] <= DeckLands

IInv == TypeOK /\ TurnsCounted /\ AliveSeated /\ LandsCounted /\ TurnsGoRound /\ WinnerSurvives

LEMMA Assumptions ==
    /\ Players \in Nat \ {0} /\ MaxTurns \in Nat /\ PoolSize \in Nat /\ DeckLands \in Nat
    /\ MaxClicks \in Nat
    /\ Lives \subseteq [Seats -> Nat] /\ Hands \in [Seats -> 0 .. DeckLands]
    /\ None \notin Seats /\ None # "waiting" /\ None # "answered"
BY PlayersAssumption, LimitsAssumption, NoneAssumption

LEMMA SeatNumbers == Seats \subseteq Nat /\ IsFiniteSet(Seats) /\ \A s \in Seats : s < Players
<1>1. IsFiniteSet(0 .. Players - 1)
  BY Assumptions, FS_Interval
<1>2. QED
  BY <1>1, Assumptions DEF Seats

LEMMA PhaseNumbers ==
    /\ DOMAIN Phases = 1 .. 12
    /\ Phases[12] = "cleanup"
BY DEF Phases

\* A phase is followed by a phase, or by the check after the turn.
LEMMA PhaseEnds ==
    ASSUME phase \in DOMAIN Phases, EndPhase
    PROVE  phase' \in DOMAIN Phases /\ pc' \in {"phase", "check"}
<1>1. phase \in 1 .. 12
  BY PhaseNumbers
<1>2. phase = 12 => Current = "cleanup"
  BY PhaseNumbers DEF Current
<1> HIDE DEF Current
<1>3. phase' \in 1 .. 12
  BY <1>1, <1>2 DEF EndPhase
<1>4. QED
  BY <1>3, PhaseNumbers DEF EndPhase

-----------------------------------------------------------------------------
(***************************************************************************)
(* The types.                                                              *)
(***************************************************************************)
LEMMA InitTypeOK == Init => TypeOK
<1> SUFFICES ASSUME Init PROVE TypeOK
  OBVIOUS
<1>1. 0 \in 0 .. MaxTurns /\ 0 \in 0 .. Players /\ 0 \in 0 .. MaxClicks /\ 0 \in 0 .. PoolSize
      /\ 0 \in 0 .. DeckLands
  BY Assumptions
<1>2. 1 \in DOMAIN Phases
  BY PhaseNumbers
<1>3. Zero \in [Seats -> 0 .. 1] /\ Zero \in [Seats -> 0 .. DeckLands]
      /\ Zero \in [Seats -> 0 .. MaxTurns]
  BY <1>1 DEF Zero
<1>4. QED
  BY <1>1, <1>2, <1>3, Assumptions DEF Init, TypeOK

\* The steps of run_game between turns.
LEMMA TypeOfRounds ==
    TypeOK /\ (NextRound \/ EndRound \/ SkipTurn) => TypeOK'
<1> SUFFICES ASSUME TypeOK, NextRound \/ EndRound \/ SkipTurn PROVE TypeOK'
  OBVIOUS
<1>1. CASE NextRound
  <2>1. turn' \in 0 .. MaxTurns /\ position' \in 0 .. Players
    BY <1>1, Assumptions DEF NextRound, TypeOK
  <2>2. QED
    BY <1>1, <2>1 DEF NextRound, TypeOK, zones, Waiting
<1>2. CASE EndRound
  BY <1>2 DEF EndRound, TypeOK, table, zones, Waiting
<1>3. CASE SkipTurn
  <2>1. position' \in 0 .. Players
    BY <1>3, Assumptions DEF SkipTurn, TypeOK
  <2>2. QED
    BY <1>3, <2>1 DEF SkipTurn, TypeOK, zones, Waiting
<1>4. QED
  BY <1>1, <1>2, <1>3

\* The seat whose turn it is.
LEMMA ActiveSeat == TypeOK /\ pc = "seat" /\ position < Players => Active \in Seats
BY Assumptions DEF TypeOK, Active, Seats

LEMMA ActiveInTurn == TypeOK /\ InTurn => Active \in Seats
BY DEF TypeOK, InTurn

LEMMA TypeOfBeginTurn ==
    ASSUME TypeOK, TurnsCounted, BeginTurn
    PROVE  TypeOK'
<1>1. Active \in Seats
  BY ActiveSeat DEF BeginTurn
<1>2. turns[Active] <= turn - 1
  BY <1>1 DEF TurnsCounted, Due, StillDue, BeginTurn, Active, TypeOK, Finished
<1>3. turns' \in [Seats -> 0 .. MaxTurns]
  <2>1. turns[Active] \in 0 .. MaxTurns /\ turn \in 0 .. MaxTurns
    BY <1>1 DEF TypeOK
  <2>2. turns[Active] + 1 \in 0 .. MaxTurns
    BY <1>2, <2>1, Assumptions
  <2>3. turns' = [turns EXCEPT ![Active] = turns[Active] + 1]
    BY DEF BeginTurn
  <2> HIDE DEF Active
  <2>4. QED
    BY <2>2, <2>3 DEF TypeOK
<1>4. lands_played' \in [Seats -> 0 .. 1]
  BY DEF BeginTurn, TypeOK
<1>5. 1 \in DOMAIN Phases
  BY PhaseNumbers
<1>6. QED
  BY <1>3, <1>4, <1>5 DEF BeginTurn, TypeOK, table, zones, Waiting, Active

\* A phase ends and nothing is asked.
LEMMA TypeOfPhaseEnd ==
    ASSUME TypeOK, pc = "phase", EndPhase,
           hand' \in [Seats -> 0 .. DeckLands],
           UNCHANGED <<table, eliminated, lands_played, battlefield, prompt, scheduled, hung, winner,
                       turns>>
    PROVE  TypeOK'
<1>1. phase' \in DOMAIN Phases /\ pc' \in {"phase", "check"}
  BY PhaseEnds DEF TypeOK
<1>2. QED
  BY <1>1 DEF TypeOK, table, Waiting, Active

LEMMA TypeOfPhases ==
    TypeOK /\ LandsCounted /\ (Draw \/ Cleanup \/ PassPhase \/ Prompt) => TypeOK'
<1> SUFFICES ASSUME TypeOK, LandsCounted, Draw \/ Cleanup \/ PassPhase \/ Prompt PROVE TypeOK'
  OBVIOUS
<1>1. Active \in Seats
  BY ActiveInTurn DEF InTurn, Draw, Cleanup, PassPhase, Prompt
<1> HIDE DEF Active
<1>2. hand[Active] \in 0 .. DeckLands /\ battlefield[Active] \in 0 .. DeckLands
  BY <1>1 DEF TypeOK
<1>3. CASE Draw
  <2>1. hand[Active] + battlefield[Active] < DeckLands => hand[Active] + 1 \in 0 .. DeckLands
    BY <1>2, Assumptions
  <2>2. hand' \in [Seats -> 0 .. DeckLands] /\ battlefield' = battlefield
    BY <1>1, <1>3, <2>1 DEF Draw, zones, TypeOK
  <2>3. QED
    BY <1>3, <2>2, TypeOfPhaseEnd DEF Draw
<1>4. CASE Cleanup
  <2>1. \A n \in 0 .. hand[Active] : n \in 0 .. DeckLands
    BY <1>2, Assumptions
  <2>2. hand' \in [Seats -> 0 .. DeckLands]
    BY <1>1, <1>4, <2>1 DEF Cleanup, TypeOK
  <2>3. QED
    BY <1>4, <2>2, TypeOfPhaseEnd DEF Cleanup
<1>5. CASE PassPhase
  BY <1>5, TypeOfPhaseEnd DEF PassPhase, zones, TypeOK
<1>6. CASE Prompt
  <2>1. CASE EndPhase /\ UNCHANGED prompt
    BY <1>6, <2>1, TypeOfPhaseEnd DEF Prompt, zones, TypeOK
  <2>2. CASE prompt' = "waiting" /\ pc' = "prompt" /\ UNCHANGED phase
    BY <1>6, <2>2, Assumptions DEF Prompt, TypeOK, table, zones, Waiting, Active
  <2>3. QED
    BY <1>6, <2>1, <2>2 DEF Prompt
<1>7. QED
  BY <1>3, <1>4, <1>5, <1>6

\* The three changes a move can make.
LEMMA TypeOfMove ==
    ASSUME TypeOK, LandsCounted, Active \in Seats, ApplyMove
    PROVE  /\ hand' \in [Seats -> 0 .. DeckLands]
           /\ battlefield' \in [Seats -> 0 .. DeckLands]
           /\ lands_played' \in [Seats -> 0 .. 1]
<1> HIDE DEF Active
<1>1. /\ hand[Active] \in 0 .. DeckLands /\ battlefield[Active] \in 0 .. DeckLands
      /\ lands_played[Active] \in 0 .. 1
      /\ hand[Active] + battlefield[Active] <= DeckLands
  BY DEF TypeOK, LandsCounted
<1>2. CASE PlayLand
  <2>1. /\ hand[Active] - 1 \in 0 .. DeckLands
        /\ battlefield[Active] + 1 \in 0 .. DeckLands
        /\ lands_played[Active] + 1 \in 0 .. 1
    BY <1>1, <1>2, Assumptions DEF PlayLand, CanPlayLand
  <2>2. QED
    BY <1>2, <2>1 DEF PlayLand, TypeOK
<1>3. CASE NoLand
  BY <1>3 DEF NoLand, zones, TypeOK
<1>4. QED
  BY <1>2, <1>3 DEF ApplyMove

\* A prompt is over.
LEMMA TypeOfEndPrompt ==
    ASSUME TypeOK, LandsCounted, pc = "prompt", ApplyMove, EndPrompt, hung' \in 0 .. PoolSize
    PROVE  TypeOK'
<1>1. Active \in Seats
  BY ActiveInTurn DEF InTurn
<1>2. /\ hand' \in [Seats -> 0 .. DeckLands]
      /\ battlefield' \in [Seats -> 0 .. DeckLands]
      /\ lands_played' \in [Seats -> 0 .. 1]
  BY <1>1, TypeOfMove
<1>3. phase' \in DOMAIN Phases /\ pc' \in {"phase", "check"}
  BY PhaseEnds DEF EndPrompt, TypeOK
<1>4. scheduled' \in 0 .. MaxClicks /\ ~(scheduled' > 0)
  BY Assumptions DEF EndPrompt
<1>5. QED
  BY <1>2, <1>3, <1>4 DEF EndPrompt, TypeOK, table, Active

\* Every prompt ends with a move, by whoever makes it.
PromptEnds == HumanMoves \/ HumanTimesOut \/ AIMoves \/ AITimesOut

LEMMA PromptEndsIs ==
    ASSUME TypeOK, PromptEnds
    PROVE  pc = "prompt" /\ ApplyMove /\ EndPrompt /\ hung' \in 0 .. PoolSize
<1>1. hung \in 0 .. PoolSize /\ (hung < PoolSize => hung + 1 \in 0 .. PoolSize)
  BY Assumptions DEF TypeOK
<1>2. QED
  BY <1>1 DEF PromptEnds, HumanMoves, HumanTimesOut, AIMoves, AITimesOut, ApplyMove, Waiting

LEMMA TypeOfRaise == TypeOK /\ AIRaises => TypeOK'
BY DEF AIRaises, TypeOK, table, zones, Waiting, Active

LEMMA TypeOfEnvironment ==
    TypeOK /\ (HumanPlay \/ SetResult \/ ThreadEnds \/ (\E seat \in Seats : Eliminate(seat)) \/ Over)
        => TypeOK'
<1> SUFFICES ASSUME TypeOK,
                    \/ HumanPlay \/ SetResult \/ ThreadEnds
                    \/ (\E seat \in Seats : Eliminate(seat)) \/ Over
             PROVE  TypeOK'
  OBVIOUS
<1>1. CASE HumanPlay
  <2>1. scheduled' \in 0 .. MaxClicks
    BY <1>1, Assumptions DEF HumanPlay, TypeOK
  <2>2. QED
    BY <1>1, <2>1 DEF HumanPlay, TypeOK, Others, table, zones, Waiting, Active
<1>2. CASE SetResult
  <2>1. scheduled' \in 0 .. MaxClicks
    BY <1>2, Assumptions DEF SetResult, TypeOK
  <2>2. QED
    BY <1>2, <2>1, Assumptions DEF SetResult, TypeOK, Others, table, zones, Waiting, Active
<1>3. CASE ThreadEnds
  <2>1. hung' \in 0 .. PoolSize
    BY <1>3, Assumptions DEF ThreadEnds, TypeOK
  <2>2. QED
    BY <1>3, <2>1 DEF ThreadEnds, TypeOK, Others, table, zones, Waiting, Active
<1>4. CASE \E seat \in Seats : Eliminate(seat)
  BY <1>4 DEF Eliminate, TypeOK, table, zones, Waiting, Active
<1>5. CASE Over
  BY <1>5 DEF Over, TypeOK, vars, table, zones, Waiting, Active
<1>6. QED
  BY <1>1, <1>2, <1>3, <1>4, <1>5

-----------------------------------------------------------------------------
(***************************************************************************)
(* The end of the game.                                                    *)
(***************************************************************************)

\* A seat of a set that is ahead of all others there: more life, or as much and a
\* greater number.
Ahead(s, seats) ==
    s \in seats /\ \A t \in seats : life[t] < life[s] \/ (life[t] = life[s] /\ t <= s)

\* Of some seats one is ahead.  A set of seats without one would have a smallest
\* subset without one, and that has one if it loses any of its seats.
LEMMA AheadExists ==
    ASSUME TypeOK, NEW seats, seats \subseteq Seats, seats # {}
    PROVE  \E s \in seats : Ahead(s, seats)
<1> DEFINE Counter == {S \in SUBSET seats : S # {} /\ \A s \in S : ~Ahead(s, S)}
<1> SUFFICES ASSUME Counter # {} PROVE FALSE
  <2>1. seats \notin Counter => \E s \in seats : Ahead(s, seats)
    OBVIOUS
  <2>2. QED
    BY <2>1
<1>1. IsWellFoundedOn(StrictSubsetOrdering(seats), SUBSET seats)
  <2>1. IsFiniteSet(seats)
    BY SeatNumbers, FS_Subset
  <2>2. QED
    BY <2>1, FS_StrictSubsetOrderingWellFounded, FS_FiniteSubsetsOfFinite
<1>2. Counter \subseteq SUBSET seats
  OBVIOUS
<1>3. PICK S \in Counter : \A T \in Counter : <<T, S>> \notin StrictSubsetOrdering(seats)
  <2> HIDE DEF Counter
  <2> QED
    BY <1>1, <1>2, WFMin
<1>4. S \subseteq seats /\ S # {} /\ \A s \in S : ~Ahead(s, S)
  OBVIOUS
<1>5. PICK x \in S : TRUE
  BY <1>4
<1> DEFINE Rest == S \ {x}
<1>6. Rest \notin Counter
  <2>1. Rest \subseteq S /\ Rest # S /\ Rest \in SUBSET seats
    BY <1>4, <1>5
  <2>2. <<Rest, S>> \in StrictSubsetOrdering(seats)
    BY <2>1, <1>4 DEF StrictSubsetOrdering
  <2>3. QED
    BY <1>3, <2>2
<1>7. \A s \in S : s \in Nat /\ life[s] \in Nat
  BY <1>4, SeatNumbers, Assumptions DEF TypeOK
<1>8. CASE Rest = {}
  <2>1. S = {x}
    BY <1>5, <1>8
  <2>2. Ahead(x, S)
    BY <2>1, <1>7 DEF Ahead
  <2>3. QED
    BY <2>2, <1>4, <1>5
<1>9. CASE Rest # {}
  <2>1. PICK y \in Rest : Ahead(y, Rest)
    BY <1>4, <1>6, <1>9
  <2>2. y \in S /\ \A t \in S : t = x \/ life[t] < life[y] \/ (life[t] = life[y] /\ t <= y)
    BY <2>1 DEF Ahead
  <2>3. ~Ahead(y, S) /\ ~Ahead(x, S)
    BY <1>4, <1>5, <2>2
  <2>4. ~(life[x] < life[y] \/ (life[x] = life[y] /\ x <= y))
    BY <2>2, <2>3 DEF Ahead
  <2>5. life[y] < life[x] \/ (life[y] = life[x] /\ y <= x)
    BY <1>7, <2>2, <2>4
  <2>6. \A t \in S : life[t] < life[x] \/ (life[t] = life[x] /\ t <= x)
    BY <1>7, <2>2, <2>5
  <2>7. QED
    BY <1>5, <2>3, <2>6 DEF Ahead
<1>10. QED
  BY <1>8, <1>9

LEMMA LeaderIs ==
    ASSUME TypeOK, Alive # {}
    PROVE  Leader \in Alive /\ \A s \in Alive : life[s] <= life[Leader]
<1>1. Alive \subseteq Seats
  BY DEF Alive
<1>2. PICK s \in Alive : Ahead(s, Alive)
  BY <1>1, AheadExists
<1>3. Leader \in Alive
      /\ \A t \in Alive : life[t] < life[Leader] \/ (life[t] = life[Leader] /\ t <= Leader)
  BY <1>2 DEF Leader, Ahead
<1>4. \A t \in Alive : life[t] \in Nat
  BY <1>1, Assumptions DEF TypeOK
<1>5. QED
  BY <1>3, <1>4

\* After the check the queue is who is alive, and a queue of one is its winner.
LEMMA CheckedQueue ==
    ASSUME TypeOK, AliveSeated, CheckEliminations
    PROVE  /\ turn_queue' = Alive
           /\ pc' = "over" => \A s, t \in Alive : s = t
<1>1. turn_queue' = Alive
  BY DEF CheckEliminations, AliveSeated, TypeOK, Alive
<1>2. ASSUME pc' = "over", NEW s \in Alive, NEW t \in Alive, s # t PROVE FALSE
  <2>1. Cardinality(Alive) <= 1
    BY <1>1, <1>2 DEF CheckEliminations
  <2>2. IsFiniteSet(Alive)
    BY SeatNumbers, FS_Subset DEF Alive
  <2>3. Cardinality({s, t}) = 2
    <3>1. IsFiniteSet({s}) /\ Cardinality({s}) = 1
      BY FS_Singleton
    <3>2. {s} \cup {t} = {s, t} /\ t \notin {s}
      BY <1>2
    <3>3. Cardinality({s} \cup {t}) = 1 + 1
      BY <3>1, <3>2, FS_AddElement
    <3>4. QED
      BY <3>2, <3>3
  <2>4. {s, t} \in SUBSET Alive
    BY <1>2
  <2>5. Cardinality({s, t}) <= Cardinality(Alive)
    BY <2>2, <2>4, FS_Subset
  <2>6. Cardinality(Alive) \in Nat
    BY <2>2, FS_CardinalityType
  <2>7. QED
    BY <2>1, <2>3, <2>5, <2>6
<1>3. QED
  BY <1>1, <1>2

LEMMA TypeOfCheck ==
    ASSUME TypeOK, AliveSeated, CheckEliminations
    PROVE  TypeOK'
<1>1. Active \in Seats /\ position' = Active + 1
  BY ActiveInTurn DEF InTurn, CheckEliminations, Active
<1>2. position' \in 0 .. Players
  BY <1>1, Assumptions DEF Seats
<1>3. turn_queue' = Alive
  BY CheckedQueue
<1>4. winner' \in Seats \cup {None} /\ pc' \in {"over", "seat"}
  <2>1. Alive \subseteq Seats
    BY DEF Alive
  <2>2. QED
    BY <1>3, <2>1 DEF CheckEliminations, TypeOK
<1>5. QED
  BY <1>2, <1>3, <1>4 DEF CheckEliminations, TypeOK, zones, Waiting, Alive

LEMMA TypeOfTimeOut == TypeOK /\ TimeOut => TypeOK'
<1> SUFFICES ASSUME TypeOK, TimeOut PROVE TypeOK'
  OBVIOUS
<1>1. winner' \in Seats \cup {None}
  BY LeaderIs DEF TimeOut, Alive
<1>2. QED
  BY <1>1 DEF TimeOut, TypeOK, table, zones, Waiting

LEMMA NextTypeOK == IInv /\ [Next]_vars => TypeOK'
<1> SUFFICES ASSUME IInv, [Next]_vars PROVE TypeOK'
  OBVIOUS
<1> USE DEF IInv
<1>1. CASE NextRound \/ EndRound \/ SkipTurn
  BY <1>1, TypeOfRounds
<1>2. CASE BeginTurn
  BY <1>2, TypeOfBeginTurn
<1>3. CASE CheckEliminations
  BY <1>3, TypeOfCheck
<1>4. CASE TimeOut
  BY <1>4, TypeOfTimeOut
<1>5. CASE Draw \/ Cleanup \/ PassPhase \/ Prompt
  BY <1>5, TypeOfPhases
<1>6. CASE PromptEnds
  BY <1>6, PromptEndsIs, TypeOfEndPrompt
<1>7. CASE HumanPlay \/ SetResult \/ ThreadEnds \/ (\E seat \in Seats : Eliminate(seat)) \/ Over
  BY <1>7, TypeOfEnvironment
<1>8. CASE UNCHANGED vars
  BY <1>8 DEF vars, table, zones, TypeOK, Waiting, Active
<1>9. CASE AIRaises
  BY <1>9, TypeOfRaise
<1>10. QED
  BY <1>1, <1>2, <1>3, <1>4, <1>5, <1>6, <1>7, <1>8, <1>9
  DEF Next, RunGame, Environment, PromptEnds

-----------------------------------------------------------------------------
(***************************************************************************)
(* Who is in has a place, and a winner is in.                              *)
(***************************************************************************)
LEMMA NextAliveSeated == IInv /\ [Next]_vars => AliveSeated'
<1> SUFFICES ASSUME IInv, [Next]_vars PROVE AliveSeated'
  OBVIOUS
<1>1. TypeOK /\ AliveSeated
  BY DEF IInv
<1>2. CASE CheckEliminations
  <2>1. turn_queue' = Alive /\ eliminated' = eliminated /\ round' = round
    BY <1>1, <1>2, CheckedQueue DEF CheckEliminations
  <2>2. QED
    BY <1>1, <1>2, <2>1 DEF AliveSeated, Alive, CheckEliminations, InTurn
<1>3. CASE \E seat \in Seats : Eliminate(seat)
  BY <1>1, <1>3 DEF AliveSeated, Alive, Eliminate, InTurn, table
<1>4. CASE NextRound
  BY <1>1, <1>4 DEF AliveSeated, Alive, NextRound
<1>5. CASE EndRound \/ TimeOut
  BY <1>1, <1>5 DEF AliveSeated, Alive, EndRound, TimeOut, InTurn, table
<1>6. CASE SkipTurn \/ BeginTurn
  BY <1>1, <1>6 DEF AliveSeated, Alive, SkipTurn, BeginTurn, InTurn, table
<1>7. CASE Draw \/ Cleanup \/ PassPhase \/ Prompt
  BY <1>1, <1>7 DEF AliveSeated, Alive, Draw, Cleanup, PassPhase, Prompt, EndPhase, InTurn, table
<1>8. CASE PromptEnds
  BY <1>1, <1>8, PromptEndsIs DEF AliveSeated, Alive, EndPrompt, EndPhase, InTurn, table
<1>9. CASE HumanPlay \/ SetResult \/ ThreadEnds
  BY <1>1, <1>9 DEF AliveSeated, Alive, HumanPlay, SetResult, ThreadEnds, Others, InTurn, table
<1>10. CASE Over \/ UNCHANGED vars
  BY <1>1, <1>10 DEF AliveSeated, Alive, Over, InTurn, table, vars
<1>11. CASE AIRaises
  BY <1>1, <1>11 DEF AliveSeated, Alive, AIRaises, InTurn, table
<1>12. QED
  BY <1>2, <1>3, <1>4, <1>5, <1>6, <1>7, <1>8, <1>9, <1>10, <1>11
  DEF Next, RunGame, Environment, PromptEnds

LEMMA NextWinnerSurvives == IInv /\ [Next]_vars => WinnerSurvives'
<1> SUFFICES ASSUME IInv, [Next]_vars PROVE WinnerSurvives'
  OBVIOUS
<1>1. TypeOK /\ AliveSeated /\ WinnerSurvives
  BY DEF IInv
<1>2. CASE CheckEliminations
  <2>1. turn_queue' = Alive /\ Alive' = Alive /\ life' = life
        /\ (pc' = "over" => \A s, t \in Alive : s = t)
    BY <1>1, <1>2, CheckedQueue DEF CheckEliminations, Alive
  <2>2. ASSUME pc' = "over", Alive # {}
        PROVE  winner' \in Alive /\ \A s \in Alive : life[s] <= life[winner']
    <3>1. winner' \in Alive
      BY <1>2, <2>1, <2>2 DEF CheckEliminations
    <3>2. \A s \in Alive : s = winner' /\ life[s] \in Nat
      BY <1>1, <2>1, <2>2, <3>1, Assumptions DEF TypeOK, Alive
    <3>3. QED
      BY <3>1, <3>2
  <2>3. ASSUME pc' = "over", Alive = {} PROVE winner' = None
    BY <1>2, <2>1, <2>3 DEF CheckEliminations
  <2>4. QED
    BY <2>1, <2>2, <2>3 DEF WinnerSurvives
<1>3. CASE TimeOut
  <2>1. Alive' = Alive /\ life' = life
    BY <1>3 DEF TimeOut, Alive, table
  <2>2. QED
    BY <1>1, <1>3, <2>1, LeaderIs DEF TimeOut, WinnerSurvives
<1>4. CASE Over \/ UNCHANGED vars
  BY <1>1, <1>4 DEF WinnerSurvives, Alive, Over, table, vars
<1>5. CASE ThreadEnds
  BY <1>1, <1>5 DEF WinnerSurvives, Alive, ThreadEnds, Others, table
<1>6. CASE SetResult
  BY <1>1, <1>6 DEF WinnerSurvives, Alive, SetResult, Others, table
<1>7. ASSUME pc' # "over" PROVE WinnerSurvives'
  BY <1>7 DEF WinnerSurvives
<1>8. CASE NextRound \/ EndRound \/ SkipTurn \/ BeginTurn
  BY <1>7, <1>8 DEF NextRound, EndRound, SkipTurn, BeginTurn
<1>9. CASE Draw \/ Cleanup \/ PassPhase \/ Prompt
  BY <1>7, <1>9 DEF Draw, Cleanup, PassPhase, Prompt, EndPhase
<1>10. CASE PromptEnds
  BY <1>1, <1>7, <1>10, PromptEndsIs DEF EndPrompt, EndPhase
<1>11. CASE HumanPlay \/ AIRaises \/ (\E seat \in Seats : Eliminate(seat))
  BY <1>7, <1>11 DEF HumanPlay, Others, Waiting, AIRaises, Eliminate, Finished
<1>12. QED
  BY <1>2, <1>3, <1>4, <1>5, <1>6, <1>8, <1>9, <1>10, <1>11
  DEF Next, RunGame, Environment, PromptEnds

-----------------------------------------------------------------------------
(***************************************************************************)
(* The turns are counted.                                                  *)
(***************************************************************************)

\* A step within a turn, or outside run_game, changes nothing the count is about.
LEMMA TurnsUntouched ==
    ASSUME TurnsCounted, UNCHANGED <<turns, turn, position, eliminated>>,
           (pc' = "seat") <=> (pc = "seat"), InTurn' <=> InTurn, Finished => Finished'
    PROVE  TurnsCounted'
BY DEF TurnsCounted, Due, StillDue, Alive

LEMMA NextTurnsCounted == IInv /\ [Next]_vars => TurnsCounted'
<1> SUFFICES ASSUME IInv, [Next]_vars PROVE TurnsCounted'
  OBVIOUS
<1> USE DEF Finished
<1>1. TypeOK /\ AliveSeated /\ TurnsCounted
  BY DEF IInv
<1>2. turn \in Nat /\ position \in Nat /\ \A s \in Seats : s \in Nat /\ s < Players /\ turns[s] \in Nat
  BY <1>1, Assumptions, SeatNumbers DEF TypeOK
<1>3. CASE NextRound
  <2>1. \A s \in Seats : turns[s] <= turn /\ (s \in Alive => turns[s] = turn)
    BY <1>1, <1>3 DEF TurnsCounted, Due, StillDue, InTurn, NextRound
  <2>2. \A s \in Seats : Due(s)' = turn
    BY <1>2, <1>3 DEF Due, StillDue, NextRound
  <2>3. QED
    BY <1>3, <2>1, <2>2 DEF NextRound, TurnsCounted, Alive
<1>4. CASE EndRound
  <2>1. \A s \in Seats : turns[s] <= turn /\ (s \in Alive => turns[s] = turn)
    BY <1>1, <1>2, <1>4 DEF TurnsCounted, Due, StillDue, InTurn, EndRound
  <2>2. QED
    BY <1>4, <2>1 DEF EndRound, TurnsCounted, Due, StillDue, InTurn, Alive, table
<1>5. CASE SkipTurn
  <2>1. position \notin Alive
    BY <1>1, <1>5 DEF SkipTurn, AliveSeated, Active, Alive
  <2>2. \A s \in Seats : turns[s] <= Due(s) /\ (s \in Alive => turns[s] = Due(s))
    BY <1>1, <1>5 DEF TurnsCounted, SkipTurn
  <2>3. \A s \in Seats : s # position => Due(s)' = Due(s)
    BY <1>2, <1>5 DEF SkipTurn, Due, StillDue, InTurn
  <2>4. \A s \in Seats : s = position => Due(s) = turn - 1 /\ Due(s)' = turn
    BY <1>2, <1>5 DEF SkipTurn, Due, StillDue, InTurn
  <2>5. \A s \in Seats : turns[s] <= Due(s)' /\ (s \in Alive => turns[s] = Due(s)')
    BY <1>2, <2>1, <2>2, <2>3, <2>4
  <2>6. QED
    BY <1>5, <2>5 DEF SkipTurn, TurnsCounted, Alive
<1>6. CASE BeginTurn
  <2>1. turns' = [turns EXCEPT ![position] = turns[position] + 1] /\ position \in Alive
    BY <1>1, <1>6, ActiveSeat DEF BeginTurn, Active, Alive
  <2>2. \A s \in Seats : turns[s] <= Due(s) /\ (s \in Alive => turns[s] = Due(s))
    BY <1>1, <1>6 DEF TurnsCounted, BeginTurn
  <2>3. \A s \in Seats : s # position => Due(s)' = Due(s) /\ turns'[s] = turns[s]
    BY <1>1, <1>2, <1>6, <2>1 DEF BeginTurn, Due, StillDue, InTurn, table, TypeOK
  <2>4. \A s \in Seats : s = position =>
          Due(s) = turn - 1 /\ Due(s)' = turn /\ turns'[s] = turns[s] + 1
    BY <1>1, <1>2, <1>6, <2>1 DEF BeginTurn, Due, StillDue, InTurn, table, TypeOK, Alive
  <2>5. \A s \in Seats : turns'[s] <= Due(s)' /\ (s \in Alive => turns'[s] = Due(s)')
    <3> TAKE s \in Seats
    <3>1. CASE s = position
      BY <1>2, <2>1, <2>2, <2>4, <3>1
    <3>2. CASE s # position
      BY <2>2, <2>3, <3>2
    <3>3. QED
      BY <3>1, <3>2
  <2>6. QED
    BY <1>6, <2>5 DEF BeginTurn, TurnsCounted, Alive
<1>7. CASE CheckEliminations
  <2>1. \A s \in Seats : turns[s] <= Due(s) /\ (s \in Alive => turns[s] = Due(s))
    BY <1>1, <1>7 DEF TurnsCounted, CheckEliminations
  <2>2. ASSUME ~Finished' PROVE \A s \in Seats : Due(s)' = Due(s)
    BY <1>2, <1>7, <2>2 DEF CheckEliminations, Due, StillDue, InTurn
  <2>3. QED
    BY <1>7, <2>1, <2>2 DEF CheckEliminations, TurnsCounted, Alive
<1>8. CASE TimeOut
  BY <1>8 DEF TimeOut, TurnsCounted
<1>9. CASE \E seat \in Seats : Eliminate(seat)
  BY <1>1, <1>9 DEF Eliminate, TurnsCounted, Due, StillDue, InTurn, Alive, table
<1>10. CASE Draw \/ Cleanup \/ PassPhase \/ Prompt
  BY <1>1, <1>10, TurnsUntouched DEF Draw, Cleanup, PassPhase, Prompt, EndPhase, InTurn, table
<1>11. CASE PromptEnds
  BY <1>1, <1>11, PromptEndsIs, TurnsUntouched DEF EndPrompt, EndPhase, InTurn, table
<1>12. CASE HumanPlay \/ SetResult \/ ThreadEnds
  BY <1>1, <1>12, TurnsUntouched DEF HumanPlay, SetResult, ThreadEnds, Others, InTurn, table
<1>13. CASE Over \/ UNCHANGED vars
  BY <1>1, <1>13, TurnsUntouched DEF Over, InTurn, table, vars
<1>14. CASE AIRaises
  BY <1>14 DEF AIRaises, TurnsCounted
<1>15. QED
  BY <1>3, <1>4, <1>5, <1>6, <1>7, <1>8, <1>9, <1>10, <1>11, <1>12, <1>13, <1>14
  DEF Next, RunGame, Environment, PromptEnds

\* While the game is on turns are fair because they are counted; when it is finished they
\* stay as they were, and no one drops out.
LEMMA NextTurnsGoRound == IInv /\ [Next]_vars => TurnsGoRound'
<1> SUFFICES ASSUME IInv, [Next]_vars PROVE TurnsGoRound'
  OBVIOUS
<1>1. TypeOK' /\ TurnsCounted' /\ TurnsGoRound
  BY NextTypeOK, NextTurnsCounted DEF IInv
<1>2. CASE ~Finished'
  <2>1. turn' \in Nat /\ position' \in Nat /\ \A s \in Seats : s \in Nat
    BY <1>1, Assumptions, SeatNumbers DEF TypeOK
  <2>2. \A s \in Alive' : s \in Seats /\ turns'[s] = Due(s)'
    BY <1>1, <1>2 DEF TurnsCounted, Alive
  <2>3. ASSUME NEW s \in Seats, NEW t \in Seats, s < t PROVE StillDue(s)' => StillDue(t)'
    BY <2>1, <2>3 DEF StillDue
  <2>4. ASSUME NEW s \in Seats, NEW t \in Seats, s < t
        PROVE  Due(s)' - Due(t)' = 0 \/ Due(s)' - Due(t)' = 1
    <3>1. turn' - turn' = 0 /\ (turn' - 1) - (turn' - 1) = 0 /\ turn' - (turn' - 1) = 1
      <4>1. \A n \in Nat : n - n = 0 /\ (n - 1) - (n - 1) = 0 /\ n - (n - 1) = 1
        OBVIOUS
      <4>2. QED
        BY <2>1, <4>1, Zenon
    <3>2. CASE StillDue(s)'
      <4>1. Due(s)' = turn' - 1 /\ Due(t)' = turn' - 1
        BY <2>3, <2>4, <3>2 DEF Due
      <4> QED
        BY <3>1, <4>1, Zenon
    <3>3. CASE ~StillDue(s)' /\ StillDue(t)'
      <4>1. Due(s)' = turn' /\ Due(t)' = turn' - 1
        BY <3>3 DEF Due
      <4> QED
        BY <3>1, <4>1, Zenon
    <3>4. CASE ~StillDue(s)' /\ ~StillDue(t)'
      <4>1. Due(s)' = turn' /\ Due(t)' = turn'
        BY <3>4 DEF Due
      <4> QED
        BY <3>1, <4>1, Zenon
    <3>5. QED
      BY <3>2, <3>3, <3>4
  <2>5. QED
    BY <2>2, <2>4 DEF TurnsGoRound
<1>3. CASE UNCHANGED <<turns, eliminated>>
  BY <1>1, <1>3 DEF TurnsGoRound, Alive
<1>4. CASE Draw \/ Cleanup \/ PassPhase \/ Prompt \/ CheckEliminations \/ TimeOut
  BY <1>3, <1>4 DEF Draw, Cleanup, PassPhase, Prompt, CheckEliminations, TimeOut
<1>5. CASE NextRound \/ EndRound \/ SkipTurn \/ BeginTurn
  BY <1>2, <1>5 DEF NextRound, EndRound, SkipTurn, BeginTurn, Finished
<1>6. CASE PromptEnds
  BY <1>3, <1>6, PromptEndsIs DEF EndPrompt, IInv
<1>7. CASE \E seat \in Seats : Eliminate(seat)
  BY <1>2, <1>7 DEF Eliminate, Finished
<1>8. CASE HumanPlay \/ SetResult \/ ThreadEnds \/ AIRaises
  BY <1>3, <1>8 DEF HumanPlay, SetResult, ThreadEnds, AIRaises, Others
<1>9. CASE Over \/ UNCHANGED vars
  BY <1>3, <1>9 DEF Over, vars
<1>10. QED
  BY <1>4, <1>5, <1>6, <1>7, <1>8, <1>9 DEF Next, RunGame, Environment, PromptEnds

-----------------------------------------------------------------------------
(***************************************************************************)
(* The lands are counted.                                                  *)
(***************************************************************************)

\* A step that plays no land.
LEMMA LandsUntouched ==
    ASSUME LandsCounted, UNCHANGED <<turns, battlefield, lands_played, position>>,
           \A s \in Seats : hand'[s] + battlefield[s] <= DeckLands,
           InTurn' => InTurn
    PROVE  LandsCounted'
BY DEF LandsCounted, OneLandPerTurn, Active

\* A move in a turn: the land drop of the turn, or none.
LEMMA LandsOfMove ==
    ASSUME TypeOK, LandsCounted, InTurn, ApplyMove, UNCHANGED <<turns, position>>
    PROVE  LandsCounted'
<1>1. CASE NoLand
  BY <1>1, LandsUntouched DEF NoLand, zones, LandsCounted
<1>2. CASE PlayLand
  <2>1. Active \in Seats /\ Active' = Active
    BY ActiveInTurn DEF Active
  <2> HIDE DEF Active
  <2>2. /\ \A s \in Seats : /\ hand[s] \in Nat /\ battlefield[s] \in Nat /\ turns[s] \in Nat
                            /\ battlefield[s] <= turns[s]
                            /\ hand[s] + battlefield[s] <= DeckLands
        /\ lands_played[Active] = 0
        /\ battlefield[Active] + 1 <= turns[Active] + lands_played[Active]
        /\ hand[Active] > 0
    BY <1>2, <2>1, Assumptions
    DEF TypeOK, LandsCounted, OneLandPerTurn, PlayLand, CanPlayLand
  <2>3. \A s \in Seats :
            /\ s = Active =>
                  /\ hand'[s] = hand[s] - 1 /\ battlefield'[s] = battlefield[s] + 1
                  /\ lands_played'[s] = lands_played[s] + 1
            /\ s # Active => hand'[s] = hand[s] /\ battlefield'[s] = battlefield[s]
    BY <1>2, <2>1 DEF PlayLand, TypeOK
  <2>4. battlefield[Active] + 1 <= turns[Active]
    BY <2>1, <2>2
  <2>5. \A s \in Seats : battlefield'[s] <= turns[s] /\ hand'[s] + battlefield'[s] <= DeckLands
    <3> TAKE s \in Seats
    <3>1. CASE s = Active
      BY <2>2, <2>3, <2>4, <3>1, Assumptions
    <3>2. CASE s # Active
      BY <2>2, <2>3, <3>2
    <3>3. QED
      BY <3>1, <3>2
  <2>6. battlefield'[Active] + 1 <= turns[Active] + lands_played'[Active]
    BY <2>1, <2>2, <2>3, <2>4
  <2>7. QED
    BY <2>1, <2>5, <2>6 DEF LandsCounted, OneLandPerTurn
<1>3. QED
  BY <1>1, <1>2 DEF ApplyMove

LEMMA NextLandsCounted == IInv /\ [Next]_vars => LandsCounted'
<1> SUFFICES ASSUME IInv, [Next]_vars PROVE LandsCounted'
  OBVIOUS
<1>1. TypeOK /\ LandsCounted
  BY DEF IInv
<1>2. \A s \in Seats : hand[s] \in Nat /\ battlefield[s] \in Nat /\ turns[s] \in Nat
  BY <1>1, Assumptions DEF TypeOK
<1>3. CASE BeginTurn
  <2>1. Active \in Seats /\ Active' = Active
    BY <1>1, <1>3, ActiveSeat DEF BeginTurn, Active, table
  <2> HIDE DEF Active
  <2>2. \A s \in Seats : /\ s = Active => turns'[s] = turns[s] + 1 /\ lands_played'[s] = 0
                         /\ s # Active => turns'[s] = turns[s]
    BY <1>1, <1>3, <2>1 DEF BeginTurn, TypeOK
  <2>3. \A s \in Seats : battlefield[s] <= turns[s] /\ hand[s] + battlefield[s] <= DeckLands
    BY <1>1 DEF LandsCounted, OneLandPerTurn
  <2>4. \A s \in Seats : battlefield[s] <= turns'[s]
    BY <1>2, <2>2, <2>3
  <2>5. battlefield[Active] + 1 <= turns'[Active] + lands_played'[Active]
    BY <1>2, <2>1, <2>2, <2>3
  <2>6. QED
    BY <1>3, <2>1, <2>3, <2>4, <2>5 DEF BeginTurn, LandsCounted, OneLandPerTurn, zones
<1>4. CASE Draw
  <2>1. Active \in Seats
    BY <1>1, <1>4, ActiveInTurn DEF Draw, InTurn
  <2> HIDE DEF Active
  <2>2. \A s \in Seats : hand'[s] + battlefield[s] <= DeckLands
    <3>1. CASE UNCHANGED zones
      BY <1>1, <3>1 DEF zones, LandsCounted
    <3>2. CASE /\ hand[Active] + battlefield[Active] < DeckLands
               /\ hand' = [hand EXCEPT ![Active] = @ + 1]
      <4>1. \A s \in Seats : /\ s = Active => hand'[s] = hand[s] + 1
                             /\ s # Active => hand'[s] = hand[s]
        BY <1>1, <2>1, <3>2 DEF TypeOK
      <4>2. \A s \in Seats : hand[s] + battlefield[s] <= DeckLands
        BY <1>1 DEF LandsCounted
      <4>3. QED
        BY <1>2, <2>1, <3>2, <4>1, <4>2, Assumptions
    <3>3. QED
      BY <1>4, <3>1, <3>2 DEF Draw
  <2>3. QED
    BY <1>1, <1>4, <2>2, LandsUntouched DEF Draw, InTurn, table, zones
<1>5. CASE Cleanup
  <2>1. Active \in Seats
    BY <1>1, <1>5, ActiveInTurn DEF Cleanup, InTurn
  <2> HIDE DEF Active
  <2>2. PICK n \in 0 .. hand[Active] : hand' = [hand EXCEPT ![Active] = n]
    BY <1>5 DEF Cleanup
  <2>3. \A s \in Seats : hand'[s] \in Nat /\ hand'[s] <= hand[s]
    BY <1>1, <1>2, <2>1, <2>2 DEF TypeOK
  <2>4. \A s \in Seats : hand[s] + battlefield[s] <= DeckLands
    BY <1>1 DEF LandsCounted
  <2>5. \A s \in Seats : hand'[s] + battlefield[s] <= DeckLands
    BY <1>2, <2>3, <2>4, Assumptions
  <2>6. QED
    BY <1>1, <1>5, <2>5, LandsUntouched DEF Cleanup, InTurn, table
<1>6. CASE PassPhase \/ Prompt
  BY <1>1, <1>6, LandsUntouched DEF PassPhase, Prompt, InTurn, table, zones, LandsCounted
<1>7. CASE PromptEnds
  BY <1>1, <1>7, PromptEndsIs, LandsOfMove DEF EndPrompt, InTurn, table
<1>8. CASE NextRound \/ EndRound \/ SkipTurn \/ TimeOut \/ CheckEliminations
  <2>1. ~InTurn'
    BY <1>8 DEF NextRound, EndRound, SkipTurn, TimeOut, CheckEliminations, InTurn
  <2>2. UNCHANGED <<turns, zones>>
    BY <1>8 DEF NextRound, EndRound, SkipTurn, TimeOut, CheckEliminations
  <2>3. QED
    BY <1>1, <2>1, <2>2 DEF LandsCounted, OneLandPerTurn, zones
<1>9. CASE HumanPlay \/ SetResult \/ ThreadEnds
  BY <1>1, <1>9, LandsUntouched
  DEF HumanPlay, SetResult, ThreadEnds, Others, InTurn, table, zones, LandsCounted
<1>10. CASE \E seat \in Seats : Eliminate(seat)
  BY <1>1, <1>10, LandsUntouched DEF Eliminate, InTurn, table, zones, LandsCounted
<1>11. CASE Over \/ UNCHANGED vars
  BY <1>1, <1>11, LandsUntouched DEF Over, InTurn, table, zones, vars, LandsCounted
<1>12. CASE AIRaises
  BY <1>1, <1>12, LandsUntouched DEF AIRaises, InTurn, table, zones, LandsCounted
<1>13. QED
  BY <1>3, <1>4, <1>5, <1>6, <1>7, <1>8, <1>9, <1>10, <1>11, <1>12
  DEF Next, RunGame, Environment, PromptEnds

-----------------------------------------------------------------------------
(***************************************************************************)
(* The theorems.                                                           *)
(***************************************************************************)

LEMMA InitIInv == Init => IInv
<1> SUFFICES ASSUME Init PROVE IInv
  OBVIOUS
<1>1. TypeOK
  BY InitTypeOK
<1>2. ~InTurn /\ ~Finished /\ pc # "over" /\ pc # "seat" /\ turn = 0 /\ turn_queue = Seats
  BY DEF Init, InTurn, Finished
<1>3. \A s \in Seats : turns[s] = 0 /\ battlefield[s] = 0
  BY DEF Init, Zero
<1>4. TurnsCounted /\ TurnsGoRound
  <2>1. \A s \in Seats : Due(s) = 0
    BY <1>2 DEF Due, StillDue
  <2>2. QED
    BY <1>3, <2>1 DEF TurnsCounted, TurnsGoRound, Alive
<1>5. AliveSeated /\ WinnerSurvives
  BY <1>2 DEF AliveSeated, WinnerSurvives, Alive
<1>6. LandsCounted
  <2>1. \A s \in Seats : hand[s] \in Nat /\ hand[s] <= DeckLands
    BY Assumptions DEF Init
  <2>2. QED
    BY <1>2, <1>3, <2>1, Assumptions DEF LandsCounted, OneLandPerTurn
<1>7. QED
  BY <1>1, <1>4, <1>5, <1>6 DEF IInv

\* The inductive invariant holds throughout every game.
THEOREM Invariance == Spec => []IInv
<1>1. IInv /\ [Next]_vars => IInv'
  BY NextTypeOK, NextTurnsCounted, NextAliveSeated, NextLandsCounted, NextTurnsGoRound,
     NextWinnerSurvives DEF IInv
<1>2. QED
  BY InitIInv, <1>1, PTL DEF Spec

\* The variables have their types, and a prompt is open exactly while run_game waits.
THEOREM TypeCorrect == Spec => []TypeOK
<1>1. IInv => TypeOK
  BY DEF IInv
<1>2. QED
  BY <1>1, Invariance, PTL

\* However clicks, timeouts and late answers fall, a player has played no more lands
\* than turns were begun (_apply_play_land counts them, begin_turn resets the count).
THEOREM LandsAreLimited == Spec => []OneLandPerTurn
<1>1. IInv => OneLandPerTurn
  BY DEF IInv, LandsCounted
<1>2. QED
  BY <1>1, Invariance, PTL

\* Whoever drops out when, the turns of any two players who are still in differ by at
\* most the one of the current round, in seat order (run_game's snapshot of the queue).
THEOREM TurnsAreFair == Spec => []TurnsGoRound
<1>1. IInv => TurnsGoRound
  BY DEF IInv
<1>2. QED
  BY <1>1, Invariance, PTL

\* The game goes to a player who is still in and whom nobody still in exceeds in life,
\* for any number of seats and any life totals (_check_eliminations, run_game's end).
THEOREM WinnersSurvive == Spec => []WinnerSurvives
<1>1. IInv => WinnerSurvives
  BY DEF IInv
<1>2. QED
  BY <1>1, Invariance, PTL

-----------------------------------------------------------------------------
(***************************************************************************)
(* How long a game lasts.  run_game counts up: by its place in a turn, by    *)
(* seats within a round, by rounds.                                         *)
(***************************************************************************)
Place ==
    CASE pc = "seat"   -> 0
      [] pc = "phase"  -> 2 * phase - 1
      [] pc = "prompt" -> 2 * phase
      [] pc = "check"  -> 25
      [] pc = "round"  -> 26
      [] Finished      -> 27

PerSeat  == 28
PerRound == (Players + 1) * PerSeat

Progress == turn * PerRound + position * PerSeat + Place

\* The AI's decision is made, or has raised.
AIEnds == AIMoves \/ AIRaises

\* No game takes more steps of run_game and the AI than this.
Longest == (MaxTurns + 1) * PerRound - 1

\* Every step of run_game brings the game forward, and no step of a human, an AI, a
\* thread or an elimination sets it back: neither timeouts nor late answers make run_game
\* repeat anything.
GameGoesOn ==
    [][/\ RunGame \/ AIEnds => Progress' > Progress
       /\ ~RunGame /\ ~AIEnds => Progress' = Progress]_vars

\* What run_game has gone through is bounded by its seats and rounds.
GameIsBounded == Progress \in 0 .. Longest

LEMMA PlaceIs ==
    ASSUME TypeOK
    PROVE  /\ pc = "seat"   => Place = 0
           /\ pc = "phase"  => Place = 2 * phase - 1
           /\ pc = "prompt" => Place = 2 * phase
           /\ pc = "check"  => Place = 25
           /\ pc = "round"  => Place = 26
           /\ Finished      => Place = 27
           /\ phase \in 1 .. 12
           /\ Place \in 0 .. PerSeat - 1
<1>1. phase \in 1 .. 12
  BY PhaseNumbers DEF TypeOK
<1>2. pc \in {"round", "seat", "phase", "prompt", "check", "over", "raised"}
  BY DEF TypeOK
<1>3. QED
  BY <1>1, <1>2 DEF Place, PerSeat, Finished

LEMMA OneMore == ASSUME NEW a \in Int, NEW b \in Int PROVE (a + 1) * b = a * b + b
OBVIOUS

LEMMA UpTo ==
    ASSUME NEW a \in Nat, NEW b \in Nat, NEW c \in Nat, a <= b
    PROVE  /\ a * c \in Nat /\ b * c \in Nat
           /\ a * c <= b * c
OBVIOUS

LEMMA RoundNumbers ==
    ASSUME TypeOK
    PROVE  /\ turn \in Nat /\ turn <= MaxTurns /\ position \in Nat /\ position <= Players
           /\ PerRound \in Nat /\ PerRound = Players * 28 + 28 /\ Players \in Nat /\ MaxTurns \in Nat
           /\ turn * PerRound \in Nat /\ turn * PerRound <= MaxTurns * PerRound
           /\ MaxTurns * PerRound \in Nat
           /\ Place \in 0 .. 27
           /\ Progress = turn * PerRound + position * 28 + Place
<1>1. turn \in Nat /\ turn <= MaxTurns /\ position \in Nat /\ position <= Players
      /\ Players \in Nat /\ MaxTurns \in Nat
  BY Assumptions DEF TypeOK
<1>2. PerRound \in Nat /\ PerRound = Players * 28 + 28
  BY <1>1 DEF PerRound, PerSeat
<1>3. Place \in 0 .. 27
  BY PlaceIs DEF PerSeat
<1> HIDE DEF PerRound, Place
<1>4. turn * PerRound \in Nat /\ MaxTurns * PerRound \in Nat /\ turn * PerRound <= MaxTurns * PerRound
  BY <1>1, <1>2, UpTo
<1>5. QED
  BY <1>1, <1>2, <1>3, <1>4 DEF Progress, PerSeat

\* The same of the next state.
NextNumbers ==
    /\ turn \in Nat /\ position \in Nat /\ Place \in 0 .. 27
    /\ Progress = turn * PerRound + position * 28 + Place

LEMMA NextRoundNumbers == TypeOK' => NextNumbers'
<1>1. TypeOK => NextNumbers
  BY RoundNumbers DEF NextNumbers
<1>2. QED
  BY <1>1, PTL

LEMMA Bounded == TypeOK => GameIsBounded
<1> SUFFICES ASSUME TypeOK PROVE Progress \in 0 .. Longest
  BY DEF GameIsBounded
<1>1. Longest = MaxTurns * PerRound + PerRound - 1
  BY RoundNumbers, OneMore DEF Longest
<1>2. position * 28 + Place <= Players * 28 + 27
  BY RoundNumbers
<1> HIDE DEF Progress, Longest, PerRound, Place
<1>3. QED
  BY <1>1, <1>2, RoundNumbers

\* The three ways forward.
LEMMA Forward ==
    ASSUME TypeOK, TypeOK',
           \/ turn' = turn /\ position' = position /\ Place' > Place
           \/ turn' = turn /\ position' = position + 1
           \/ turn' = turn + 1 /\ position' = 0
    PROVE  Progress' > Progress
<1>1. PerRound' = PerRound
  BY DEF PerRound, PerSeat
<1>2. /\ turn' \in Nat /\ position' \in Nat /\ Place' \in 0 .. 27
      /\ Progress' = turn' * PerRound + position' * 28 + Place'
  BY <1>1, NextRoundNumbers DEF NextNumbers
<1>3. position * 28 + Place <= Players * 28 + 27
  BY RoundNumbers
<1> HIDE DEF Progress, PerRound, Place
<1>4. CASE turn' = turn + 1 /\ position' = 0
  <2>1. turn' * PerRound = turn * PerRound + PerRound
    BY <1>4, RoundNumbers, OneMore
  <2>2. QED
    BY <1>2, <1>3, <1>4, <2>1, RoundNumbers
<1>5. CASE turn' = turn
  <2>1. turn' * PerRound = turn * PerRound
    BY <1>5
  <2>2. QED
    BY <1>2, <1>4, <1>5, <2>1, RoundNumbers
<1>6. QED
  BY <1>4, <1>5

LEMMA NextPlaceIs ==
    TypeOK' => /\ pc' = "seat"   => Place' = 0
               /\ pc' = "phase"  => Place' = 2 * phase' - 1
               /\ pc' = "prompt" => Place' = 2 * phase'
               /\ pc' = "check"  => Place' = 25
               /\ pc' = "round"  => Place' = 26
               /\ Finished'      => Place' = 27
               /\ phase' \in 1 .. 12
<1> DEFINE Places == /\ pc = "seat"   => Place = 0
                     /\ pc = "phase"  => Place = 2 * phase - 1
                     /\ pc = "prompt" => Place = 2 * phase
                     /\ pc = "check"  => Place = 25
                     /\ pc = "round"  => Place = 26
                     /\ Finished      => Place = 27
                     /\ phase \in 1 .. 12
<1>1. TypeOK => Places
  BY PlaceIs
<1>2. TypeOK' => Places'
  <2> HIDE DEF Places
  <2>1. QED
    BY <1>1, PTL
<1>3. QED
  BY <1>2

\* The end of a phase comes after the phase and after its prompt.
LEMMA PhaseEndIsForward ==
    ASSUME TypeOK, TypeOK', pc \in {"phase", "prompt"}, EndPhase
    PROVE  Place' > Place
<1>1. phase \in 1 .. 12 /\ phase' \in 1 .. 12
  BY PlaceIs, NextPlaceIs
<1>2. Place <= 2 * phase /\ Place \in Nat
  BY <1>1, PlaceIs
<1>3. \/ pc' = "check"
      \/ pc' = "phase" /\ phase' = phase + 1
  BY DEF EndPhase
<1> HIDE DEF Place
<1>4. QED
  BY <1>1, <1>2, <1>3, NextPlaceIs

LEMMA RunGameGoesForward ==
    ASSUME TypeOK, TypeOK', RunGame \/ AIEnds
    PROVE  Progress' > Progress
<1> USE DEF table
<1>1. CASE NextRound
  BY <1>1, Forward DEF NextRound
<1>2. CASE SkipTurn
  BY <1>2, Forward DEF SkipTurn
<1>3. CASE CheckEliminations
  BY <1>3, Forward DEF CheckEliminations
<1>4. CASE EndRound \/ TimeOut \/ BeginTurn \/ AIRaises
  <2>1. turn' = turn /\ position' = position
    BY <1>4 DEF EndRound, TimeOut, BeginTurn, AIRaises
  <2>2. \/ pc = "seat" /\ pc' = "round"
        \/ pc = "round" /\ Finished'
        \/ pc = "seat" /\ pc' = "phase" /\ phase' = 1
        \/ pc = "prompt" /\ Finished'
    BY <1>4 DEF EndRound, TimeOut, BeginTurn, AIRaises, Waiting, Finished
  <2> HIDE DEF Place
  <2>3. Place' > Place
    BY <2>2, PlaceIs, NextPlaceIs
  <2>4. QED
    BY <2>1, <2>3, Forward
<1>5. CASE Draw \/ Cleanup \/ PassPhase \/ (Prompt /\ pc' # "prompt") \/ PromptEnds
  <2>1. turn' = turn /\ position' = position
    BY <1>5, PromptEndsIs DEF Draw, Cleanup, PassPhase, Prompt, EndPrompt
  <2>2. pc \in {"phase", "prompt"} /\ EndPhase
    BY <1>5, PromptEndsIs DEF Draw, Cleanup, PassPhase, Prompt, EndPrompt
  <2>3. QED
    BY <2>1, <2>2, PhaseEndIsForward, Forward
<1>6. CASE Prompt /\ pc' = "prompt"
  <2>1. turn' = turn /\ position' = position /\ pc = "phase"
    BY <1>6 DEF Prompt
  <2>2. phase' = phase
    BY <1>6 DEF Prompt, EndPhase
  <2> HIDE DEF Place
  <2>3. Place' > Place
    BY <1>6, <2>1, <2>2, PlaceIs, NextPlaceIs
  <2>4. QED
    BY <2>1, <2>3, Forward
<1>7. QED
  BY <1>1, <1>2, <1>3, <1>4, <1>5, <1>6 DEF RunGame, PromptEnds, AIEnds

LEMMA OthersLeaveProgress ==
    ASSUME [Next]_vars, ~RunGame, ~AIEnds
    PROVE  Progress' = Progress
<1>1. turn' = turn /\ position' = position /\ pc' = pc /\ phase' = phase
  BY DEF Next, Environment, HumanPlay, SetResult, ThreadEnds, Eliminate, Over, Others, vars, table,
         AIEnds
<1>2. QED
  BY <1>1 DEF Progress, PerRound, PerSeat, Place, Finished

\* A game of any number of seats goes on until it is over, whatever humans and AIs do:
\* what is left to assume for its end is that run_game keeps taking steps.
THEOREM GamesGoOn == Spec => GameGoesOn
<1>1. IInv /\ IInv' /\ [Next]_vars
         => [/\ RunGame \/ AIEnds => Progress' > Progress
             /\ ~RunGame /\ ~AIEnds => Progress' = Progress]_vars
  BY RunGameGoesForward, OthersLeaveProgress DEF IInv
<1>2. QED
  BY <1>1, Invariance, PTL DEF Spec, GameGoesOn

\* However long humans and AIs take, run_game returns, or raises, after at most so many steps of its
\* own: 28 for each seat in each round, and as many again for the ends of the rounds.
THEOREM GamesAreBounded == Spec => []GameIsBounded
<1>1. IInv => GameIsBounded
  BY Bounded DEF IInv
<1>2. QED
  BY <1>1, Invariance, PTL
=============================================================================
