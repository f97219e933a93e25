----------------------------- MODULE TurnManager -----------------------------
(***************************************************************************)
(* archive/src/commander_ai_lab/sim/turn_manager.py: run_game drives a       *)
(* Commander game in rounds of turns of twelve phases, and waits at prompts  *)
(* for a human who clicks in another thread, or for an AI that thinks in a   *)
(* thread of a small pool.                                                  *)
(*                                                                         *)
(* Of the cards the model keeps the lands: they alone are limited, to one a  *)
(* turn.  Spells, the commander and attacks are moves that change nothing    *)
(* kept here, as sim.combat is None throughout (no code of run_game creates  *)
(* it) and so no life is lost; whether such a move is on offer is left open. *)
(* A move id is taken by apply_move from the menu of that moment, so an id   *)
(* from an older menu is any move of it, or none.  The priority windows      *)
(* always pass: no menu has an instant, an ability or a trigger.            *)
(* Lists of seats are in seat order throughout, so a set stands for each.    *)
(*                                                                         *)
(* Outside the module: whoever shares the game state may eliminate a player  *)
(* at any moment (a concession), the window posts clicks, and the AI's       *)
(* thread answers, late or never.                                           *)
(***************************************************************************)
EXTENDS Integers, Sequences, FiniteSets

CONSTANTS
    Players,    \* number of seats
    Control,    \* who moves for each seat
    Lives,      \* life totals a game can start with, by seat
    MaxTurns,   \* config.max_turns
    PoolSize,   \* config.thread_pool_size
    Hands,      \* lands in the opening hands, by seat
    DeckLands,  \* bound: lands a player can have in hand and in play
    MaxClicks,  \* bound: clicks under way at once
    None        \* no winner; no prompt

Seats == 0 .. Players - 1

ASSUME PlayersAssumption ==
    /\ Players \in Nat \ {0}
    /\ Control \in [Seats -> {"human", "ai", "headless"}]
    /\ Lives \subseteq [Seats -> Nat]
    /\ Hands \in [Seats -> 0 .. DeckLands]
ASSUME LimitsAssumption ==
    MaxTurns \in Nat /\ PoolSize \in Nat /\ DeckLands \in Nat /\ MaxClicks \in Nat
ASSUME NoneAssumption == None \notin Seats /\ None \notin {"waiting", "answered"}

\* PHASE_ORDER.
Phases == <<"untap", "upkeep", "draw", "main1", "begin_combat", "declare_attackers",
            "declare_blockers", "combat_damage", "end_combat", "main2", "end_step", "cleanup">>

VARIABLES
    life,        \* of each seat
    eliminated,  \* the seats that are out
    turn_queue,  \* _turn_queue: its seats
    turn,        \* number of the round
    round,       \* active_seats: the snapshot the round goes through
    position,    \* the seat it has come to
    pc,          \* where run_game is
    phase,       \* index of the current phase
    lands_played,\* lands_played_this_turn, by seat
    hand,        \* lands in hand, by seat
    battlefield, \* lands in play, by seat
    prompt,      \* the move run_game is waiting for, or None
    scheduled,   \* set_result calls under way to the future of the prompt
    hung,        \* threads of the pool that are busy with an abandoned decision
    winner,      \* winner_seat
    turns        \* history: turns each seat has begun

table  == <<life, turn_queue, turn, round, position>>
zones  == <<hand, battlefield>>
vars   == <<table, eliminated, pc, phase, lands_played, zones, prompt, scheduled, hung, winner, turns>>

Zero == [s \in Seats |-> 0]

\* A game may start with players who are out already.
Init ==
    /\ life \in Lives
    /\ eliminated \in SUBSET Seats
    /\ turn_queue = Seats
    /\ turn = 0
    /\ round = {}
    /\ position = 0
    /\ pc = "round"
    /\ phase = 1
    /\ lands_played = Zero
    /\ hand = Hands
    /\ battlefield = Zero
    /\ prompt = None
    /\ scheduled = 0
    /\ hung = 0
    /\ winner = None
    /\ turns = Zero

Active  == position
Current == Phases[phase]
Alive   == Seats \ eliminated

-----------------------------------------------------------------------------
(***************************************************************************)
(* run_game: rounds and turns.                                             *)
(***************************************************************************)
NextRound ==
    /\ pc = "round"
    /\ turn < MaxTurns
    /\ turn' = turn + 1
    /\ round' = turn_queue
    /\ position' = 0
    /\ pc' = "seat"
    /\ UNCHANGED <<life, turn_queue, eliminated, phase, lands_played, zones, prompt, scheduled, hung,
                   winner, turns>>

EndRound ==
    /\ pc = "seat"
    /\ position = Players
    /\ pc' = "round"
    /\ UNCHANGED <<table, eliminated, phase, lands_played, zones, prompt, scheduled, hung, winner, turns>>

\* Mutation: `break' for `continue', so that the round ends with a seat that is out.
BreakRound ==
    /\ pc = "seat"
    /\ position < Players
    /\ Active \notin round \ eliminated
    /\ position' = IF Active \in round THEN Players ELSE position + 1
    /\ UNCHANGED <<life, turn_queue, turn, round, eliminated, pc, phase, lands_played, zones, prompt,
                   scheduled, hung, winner, turns>>

\* The seat is not in the snapshot, or has been eliminated since.
SkipTurn ==
    /\ pc = "seat"
    /\ position < Players
    /\ Active \notin round \ eliminated
    /\ position' = position + 1
    /\ UNCHANGED <<life, turn_queue, turn, round, eliminated, pc, phase, lands_played, zones, prompt,
                   scheduled, hung, winner, turns>>

BeginTurn ==
    /\ pc = "seat"
    /\ position < Players
    /\ Active \in round \ eliminated
    /\ pc' = "phase"
    /\ phase' = 1
    /\ lands_played' = [lands_played EXCEPT ![Active] = 0]
    /\ turns' = [turns EXCEPT ![Active] = @ + 1]
    /\ UNCHANGED <<table, eliminated, zones, prompt, scheduled, hung, winner>>

\* The phase ends, and with the last one the turn.
EndPhase ==
    /\ phase' = IF Current = "cleanup" THEN 1 ELSE phase + 1
    /\ pc' = IF Current = "cleanup" THEN "check" ELSE "phase"

\* _check_eliminations, after a turn.
CheckEliminations ==
    /\ pc = "check"
    /\ turn_queue' = turn_queue \ eliminated
    /\ position' = position + 1
    /\ IF Cardinality(turn_queue') <= 1
       THEN /\ pc' = "over"
            /\ winner' = IF turn_queue' = {} THEN None ELSE CHOOSE s \in turn_queue' : TRUE
       ELSE pc' = "seat" /\ UNCHANGED winner
    /\ UNCHANGED <<life, turn, round, eliminated, phase, lands_played, zones, prompt, scheduled, hung, turns>>

\* Mutation: the dead compete with the life they had.
LeaderOfAll == CHOOSE s \in Seats : \A t \in Seats : life[t] < life[s] \/ (life[t] = life[s] /\ t <= s)

\* max((life, seat)) of those alive.
Leader == CHOOSE s \in Alive : \A t \in Alive : life[t] < life[s] \/ (life[t] = life[s] /\ t <= s)

\* All rounds are played.
TimeOut ==
    /\ pc = "round"
    /\ turn = MaxTurns
    /\ winner' = IF Alive = {} THEN None ELSE Leader
    /\ pc' = "over"
    /\ UNCHANGED <<table, eliminated, phase, lands_played, zones, prompt, scheduled, hung, turns>>

-----------------------------------------------------------------------------
(***************************************************************************)
(* _run_player_turn: the phases.                                           *)
(***************************************************************************)
\* Nothing is drawn in the first turn of the game, nor from an empty library;
\* the card drawn is a land or it is not.
Draw ==
    /\ pc = "phase"
    /\ Current = "draw"
    /\ \/ UNCHANGED zones
       \/ /\ ~(turn = 1 /\ Active = 0)
          /\ hand[Active] + battlefield[Active] < DeckLands
          /\ hand' = [hand EXCEPT ![Active] = @ + 1]
          /\ UNCHANGED battlefield
    /\ EndPhase
    /\ UNCHANGED <<table, eliminated, lands_played, prompt, scheduled, hung, winner, turns>>

\* Cards beyond the seventh are discarded, lands or not.
Cleanup ==
    /\ pc = "phase"
    /\ Current = "cleanup"
    /\ hand' \in {[hand EXCEPT ![Active] = n] : n \in 0 .. hand[Active]}
    /\ EndPhase
    /\ UNCHANGED <<table, eliminated, lands_played, battlefield, prompt, scheduled, hung,
                   winner, turns>>

\* Untapping, and phases that are priority windows or nothing at all.
PassPhase ==
    /\ pc = "phase"
    /\ Current \notin {"draw", "main1", "declare_attackers", "main2", "cleanup"}
    /\ EndPhase
    /\ UNCHANGED <<table, eliminated, lands_played, zones, prompt, scheduled, hung, winner, turns>>

\* A main phase asks the active seat for a move; the declaration of attackers
\* does if there is an attack to make.  A headless seat makes none.
Prompt ==
    /\ pc = "phase"
    /\ Current \in {"main1", "declare_attackers", "main2"}
    /\ \/ /\ Control[Active] # "headless"
          /\ Current = "declare_attackers" => Active \notin eliminated
          /\ prompt' = "waiting"
          /\ pc' = "prompt"
          /\ UNCHANGED phase
       \/ /\ Control[Active] = "headless" \/ Current = "declare_attackers"
          /\ EndPhase
          /\ UNCHANGED prompt
    /\ UNCHANGED <<table, eliminated, lands_played, zones, scheduled, hung, winner, turns>>

-----------------------------------------------------------------------------
(***************************************************************************)
(* Moves.                                                                  *)
(***************************************************************************)
\* generate_legal_moves offers the active seat a land drop, and _apply_play_land
\* looks again.
CanPlayLand ==
    /\ Active \notin eliminated
    /\ Current \in {"main1", "main2"}
    /\ lands_played[Active] < 1
    /\ hand[Active] > 0

\* Mutation: the counter is forgotten when the land is played.
PlayLandUncounted ==
    /\ CanPlayLand
    /\ hand' = [hand EXCEPT ![Active] = @ - 1]
    /\ battlefield' = [battlefield EXCEPT ![Active] = @ + 1]
    /\ UNCHANGED lands_played

PlayLand ==
    /\ CanPlayLand
    /\ hand' = [hand EXCEPT ![Active] = @ - 1]
    /\ battlefield' = [battlefield EXCEPT ![Active] = @ + 1]
    /\ lands_played' = [lands_played EXCEPT ![Active] = @ + 1]

NoLand == UNCHANGED <<zones, lands_played>>

\* apply_move of any id.
ApplyMove == PlayLand \/ NoLand

\* Mutation: the next prompt takes the future of the last one.
EndPromptKeepingFuture ==
    /\ prompt' = None
    /\ EndPhase
    /\ UNCHANGED <<table, eliminated, scheduled, winner, turns>>

\* The prompt is over; a set_result that is still under way comes too late: it is
\* an InvalidStateError in the event loop, and nothing else.
EndPrompt ==
    /\ prompt' = None
    /\ scheduled' = 0
    /\ EndPhase
    /\ UNCHANGED <<table, eliminated, winner, turns>>

Waiting(control) == pc = "prompt" /\ Control[Active] = control

\* The future has a result.
HumanMoves ==
    /\ Waiting("human")
    /\ prompt = "answered"
    /\ ApplyMove
    /\ EndPrompt
    /\ UNCHANGED hung

\* Five minutes have passed: the human passes.
HumanTimesOut ==
    /\ Waiting("human")
    /\ prompt = "waiting"
    /\ NoLand
    /\ EndPrompt
    /\ UNCHANGED hung

\* A thread of the pool is free, and decide_action answers.
AIMoves ==
    /\ Waiting("ai")
    /\ hung < PoolSize
    /\ ApplyMove
    /\ EndPrompt
    /\ UNCHANGED hung

\* decide_action raises outside its own try, say while it builds the prompt:
\* run_game catches timeouts only and ends with the exception.
AIRaises ==
    /\ Waiting("ai")
    /\ hung < PoolSize
    /\ pc' = "raised"
    /\ prompt' = None
    /\ UNCHANGED <<table, eliminated, phase, lands_played, zones, scheduled, hung, winner, turns>>

\* Mutation: without a thread the decision waits.
AITimesOutInThread ==
    /\ Waiting("ai")
    /\ hung < PoolSize
    /\ hung' = hung + 1
    /\ IF CanPlayLand THEN PlayLand ELSE NoLand
    /\ EndPrompt

\* ai_decision_timeout: the heuristic moves, a land first.  The thread, if the
\* decision had got one, stays busy.
AITimesOut ==
    /\ Waiting("ai")
    /\ hung' = IF hung < PoolSize THEN hung + 1 ELSE hung
    /\ IF CanPlayLand THEN PlayLand ELSE NoLand
    /\ EndPrompt

-----------------------------------------------------------------------------
(***************************************************************************)
(* human_play, and the others.                                             *)
(***************************************************************************)
Others == <<table, eliminated, pc, phase, lands_played, zones, winner, turns>>

\* A click of the window has reached human_play, now or long after it was made:
\* it goes to the future of the active seat, and to none if there is none or it
\* is done.  set_result follows later, so two clicks may find the future undone.
HumanPlay ==
    /\ Waiting("human")
    /\ prompt = "waiting"
    /\ scheduled < MaxClicks
    /\ scheduled' = scheduled + 1
    /\ UNCHANGED <<Others, prompt, hung>>

\* set_result runs in the event loop; a second one is an InvalidStateError there.
SetResult ==
    /\ scheduled > 0
    /\ scheduled' = scheduled - 1
    /\ prompt' = "answered"
    /\ UNCHANGED <<Others, hung>>

\* An abandoned decision ends.
ThreadEnds ==
    /\ hung > 0
    /\ hung' = hung - 1
    /\ UNCHANGED <<Others, scheduled, prompt>>

Finished == pc \in {"over", "raised"}

Eliminate(seat) ==
    /\ ~Finished
    /\ eliminated' = eliminated \cup {seat}
    /\ eliminated' # eliminated
    /\ UNCHANGED <<table, pc, phase, lands_played, zones, prompt, scheduled, hung, winner, turns>>

\* run_game has returned, or raised, and nothing is left to happen.
Over ==
    /\ Finished
    /\ hung = 0
    /\ UNCHANGED vars

RunGame ==
    \/ NextRound \/ EndRound \/ SkipTurn \/ BeginTurn \/ CheckEliminations \/ TimeOut
    \/ Draw \/ Cleanup \/ PassPhase \/ Prompt
    \/ HumanMoves \/ HumanTimesOut \/ AITimesOut

Environment ==
    \/ HumanPlay \/ SetResult
    \/ AIMoves \/ AIRaises \/ ThreadEnds
    \/ \E seat \in Seats : Eliminate(seat)

Next == RunGame \/ Environment \/ Over

\* The event loop runs and timers fire.  Nothing is assumed of humans, AIs or
\* their threads.
FairSpec == Init /\ [][Next]_vars /\ WF_vars(RunGame)

Spec == Init /\ [][Next]_vars

-----------------------------------------------------------------------------
\* The variables have their types; a prompt is open exactly while run_game
\* waits for one, and no result is under way for a future that is not.
TypeOK ==
    /\ life \in Lives
    /\ eliminated \subseteq Seats
    /\ turn_queue \subseteq Seats
    /\ turn \in 0 .. MaxTurns
    /\ round \subseteq Seats
    /\ position \in 0 .. Players
    /\ pc \in {"round", "seat", "phase", "prompt", "check", "over", "raised"}
    /\ pc \in {"phase", "prompt", "check"} => Active \in round
    /\ phase \in DOMAIN Phases
    /\ lands_played \in [Seats -> 0 .. 1]
    /\ hand \in [Seats -> 0 .. DeckLands]
    /\ battlefield \in [Seats -> 0 .. DeckLands]
    /\ prompt \in {"waiting", "answered", None}
    /\ (prompt # None) <=> (pc = "prompt")
    /\ scheduled \in 0 .. MaxClicks
    /\ scheduled > 0 => Waiting("human")
    /\ hung \in 0 .. PoolSize
    /\ winner \in Seats \cup {None}
    /\ turns \in [Seats -> 0 .. MaxTurns]

\* Nobody has more lands in play than turns begun, however clicks, timeouts and
\* late answers fall: one land a turn (the comment on CR 305.2).
OneLandPerTurn == \A s \in Seats : battlefield[s] <= turns[s]

\* Between players who are still in, turns are fair: in each round everyone has
\* had a turn before anyone has another, in seat order, whoever drops out when.
TurnsGoRound ==
    \A s, t \in Alive : s < t => turns[s] - turns[t] \in {0, 1}

\* The winner is a player who is still in and has the most life of those, also when
\* all rounds are played ("Timeout -- winner is highest life total"); there is none
\* only if nobody is in.
WinnerSurvives ==
    pc = "over" =>
        IF Alive = {} THEN winner = None
        ELSE winner \in Alive /\ \A s \in Alive : life[s] <= life[winner]

\* run_game's docstring: it returns the winner's seat index, or None if the game
\* timed out, that is, if all rounds are played and more than one player is in.
NoWinnerOnTimeout == pc = "over" /\ Cardinality(Alive) > 1 => winner = None

\* Every game ends, if only with an exception of an AI's decision, although the human
\* may never click, or at the wrong moment, and decisions of the AI may fill the pool
\* for ever.
GameEnds == <>Finished
=============================================================================
