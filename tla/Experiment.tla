----------------------------- MODULE Experiment -----------------------------
(***************************************************************************)
(* llmtg.experiments.runner.run_experiment: a Python program calls it any   *)
(* number of times; each call plays its games one by one on a               *)
(* SimulationEngine and returns a summary, or raises and returns nothing.   *)
(*                                                                         *)
(* Two engines stand behind the interface.  MockEngine draws a game from    *)
(* random.Random(seed): an arbitrary function of the seed and the number of *)
(* players, whose values are fixed the first time they are drawn (drawn).   *)
(* ForgeEngine asks an external process: it answers anything its validation *)
(* lets through, a different answer each time if it likes, or raises.       *)
(***************************************************************************)
EXTENDS Runner

CONSTANTS
    DeckIds,      \* what deck_id can be
    PolicyIds,    \* what policy_id can be
    Calls,        \* the argument tuples run_experiment is called with
    TurnCounts,   \* game lengths an engine reports
    MaxCalls,     \* bound: calls of run_experiment in one behaviour
    NoCall        \* no call is in progress

Engines == {"mock-v1", "forge-bridge-v1"}

CallType == [engine : Engines, decks : Seq(DeckIds), policies : Seq(PolicyIds),
             games : Int, seed : Int, rotate_seats : BOOLEAN]

ASSUME CallsAssumption == Calls \subseteq CallType /\ NoCall \notin CallType
ASSUME TurnCountsAssumption == TurnCounts \subseteq Nat \ {0}
ASSUME MaxCallsAssumption == MaxCalls \in Nat

VARIABLES
    call,      \* arguments of the call in progress, or NoCall
    results,   \* its `results' list
    drawn,     \* MockEngine: the games drawn so far, by seed and player count
    returned,  \* history: the summaries callers got, with the arguments they gave
    calls      \* history: number of calls made

vars == <<call, results, drawn, returned, calls>>

Init ==
    /\ call = NoCall
    /\ results = << >>
    /\ drawn = {}
    /\ returned = {}
    /\ calls = 0

\* run_experiment is called with arguments its guards let through ...
Start(c) ==
    /\ call = NoCall
    /\ calls < MaxCalls
    /\ Accepts(c)
    /\ call' = c
    /\ calls' = calls + 1
    /\ UNCHANGED <<results, drawn, returned>>

\* ... or not, and raises ValueError.
Refuse(c) ==
    /\ call = NoCall
    /\ calls < MaxCalls
    /\ ~Accepts(c)
    /\ calls' = calls + 1
    /\ UNCHANGED <<call, results, drawn, returned>>

\* The game the loop is about to play; results has one entry per game played.
GameNumber == Len(results)

\* Mutation: the loop plays range(games + 1).
NextGameInclusive(engine) ==
    /\ call # NoCall
    /\ GameNumber <= call.games
    /\ call.engine = engine
    /\ EngineAccepts(SeatedDecks(call, GameNumber), SeatedPolicies(call, GameNumber))

NextGame(engine) ==
    /\ call # NoCall
    /\ GameNumber < call.games
    /\ call.engine = engine
    /\ EngineAccepts(SeatedDecks(call, GameNumber), SeatedPolicies(call, GameNumber))

\* results.append(engine.play_game(game_decks, game_policies, seed=...))
Record(outcome) ==
    /\ results' = Append(results, GameResult(call, GameNumber, outcome))
    /\ UNCHANGED <<call, returned, calls>>

Draw(outcome) ==
    [seed |-> GameSeed(call, GameNumber), players |-> Len(call.decks), outcome |-> outcome]

SameDraw(d, e) == d.seed = e.seed /\ d.players = e.players

\* Mutation: the draws come from the process-wide random generator.
MockPlaysUnseeded ==
    /\ NextGame("mock-v1")
    /\ \E outcome \in Outcomes(Len(call.decks), TurnCounts) : Record(outcome)
    /\ UNCHANGED drawn

\* MockEngine.play_game.
MockPlays ==
    /\ NextGame("mock-v1")
    /\ \E outcome \in Outcomes(Len(call.decks), TurnCounts) :
          /\ \A d \in drawn : SameDraw(d, Draw(outcome)) => d.outcome = outcome
          /\ drawn' = drawn \cup {Draw(outcome)}
          /\ Record(outcome)

\* ForgeEngine.play_game, the bridge having answered.
BridgePlays ==
    /\ NextGame("forge-bridge-v1")
    /\ \E outcome \in Outcomes(Len(call.decks), TurnCounts) : Record(outcome)
    /\ UNCHANGED drawn

\* An exception leaves run_experiment: its results are lost.
Raise ==
    /\ call' = NoCall
    /\ results' = << >>
    /\ UNCHANGED <<drawn, returned, calls>>

\* The engine refuses the table: a single deck passes run_experiment's guard
\* and no engine's.
EngineRefuses ==
    /\ call # NoCall
    /\ GameNumber < call.games
    /\ ~EngineAccepts(SeatedDecks(call, GameNumber), SeatedPolicies(call, GameNumber))
    /\ Raise

FinishedRun == [call |-> call, results |-> results, wins |-> WinsByDeck(call, results)]

\* Mutation: a game the bridge fails to play ends the experiment early.
BridgeFailureReturns ==
    /\ NextGame("forge-bridge-v1")
    /\ returned' = returned \cup {FinishedRun}
    /\ call' = NoCall
    /\ results' = << >>
    /\ UNCHANGED <<drawn, calls>>

\* ForgeEngine.play_game raises: no bridge, a timeout, a bad answer.
BridgeFails ==
    /\ NextGame("forge-bridge-v1")
    /\ Raise

\* Every game is played: the summary is computed and returned.
Return ==
    /\ call # NoCall
    /\ GameNumber = call.games
    /\ returned' = returned \cup {FinishedRun}
    /\ call' = NoCall
    /\ results' = << >>
    /\ UNCHANGED <<drawn, calls>>

Next ==
    \/ \E c \in Calls : Start(c) \/ Refuse(c)
    \/ MockPlays
    \/ BridgePlays
    \/ EngineRefuses
    \/ BridgeFails
    \/ Return

Spec == Init /\ [][Next]_vars

-----------------------------------------------------------------------------
(***************************************************************************)
(* Type correctness.                                                       *)
(***************************************************************************)
ResultType ==
    [winner_index : Nat, turns : Nat, seed : Int,
     deck_ids : Seq(DeckIds), policy_ids : Seq(PolicyIds)]

DrawType == [seed : Int, players : Nat, outcome : [winner_index : Nat, turns : Nat]]

\* The variables hold values of the source's types, the loop never runs past
\* call.games, and a call in progress passed the guards.
TypeOK ==
    /\ call \in Calls \cup {NoCall}
    /\ results \in Seq(ResultType)
    /\ call = NoCall => results = << >>
    /\ call # NoCall => Accepts(call) /\ Len(results) <= call.games
    /\ drawn \subseteq DrawType
    /\ \A run \in returned :
          /\ run.call \in Calls
          /\ run.results \in Seq(ResultType)
          /\ run.wins \in [Members(run.call.decks) -> Nat]
    /\ calls \in 0 .. MaxCalls

-----------------------------------------------------------------------------
(***************************************************************************)
(* Safety properties of what run_experiment returns.                       *)
(***************************************************************************)
\* A summary stands for a whole experiment: an engine failure at any game
\* leaves no summary of the games before it, and game k of a summary has the
\* seed and seating the arguments prescribe for it (runner.py's loop).
SummariesAreComplete == \A run \in returned : IsRun(run)

\* In every game every deck is piloted by the policy the caller listed it
\* with, wherever the rotation seats the two (the pair of _rotate calls).
PilotsFollowDecks ==
    \A run \in returned : \A k \in DOMAIN run.results :
        LET result == run.results[k] IN
        \A s \in DOMAIN result.deck_ids :
            \E i \in DOMAIN run.call.decks :
                /\ result.deck_ids[s] = run.call.decks[i]
                /\ result.policy_ids[s] = run.call.policies[i]

\* The decks that sat in seat s during the n games that start with game k.
SeatHolders(results_, s, k, n) == {results_[g].deck_ids[s] : g \in k .. k + n - 1}

\* Seat rotation cycles each deck through every seat (README.md:175): in any
\* window of as many consecutive games as there are decks, each seat is held
\* by each deck.
SeatsCycle ==
    \A run \in returned :
        LET n == Len(run.call.decks) IN
        run.call.rotate_seats =>
            \A k \in 1 .. run.call.games - n + 1 : \A s \in 1 .. n :
                SeatHolders(run.results, s, k, n) = Members(run.call.decks)

\* What rotation is for: when the outcome depends on the seat alone (one seat
\* wins every game) and every deck sat everywhere equally often, all decks
\* have the same number of wins.
SeatBiasCancels ==
    \A run \in returned :
        LET n == Len(run.call.decks) IN
        ( /\ run.call.rotate_seats
          /\ Cardinality(Members(run.call.decks)) = n
          /\ run.call.games % n = 0
          /\ \A j, k \in DOMAIN run.results :
                run.results[j].winner_index = run.results[k].winner_index )
        => \A d \in Members(run.call.decks) : run.wins[d] = run.call.games \div n

\* Every game counts as the win of exactly one deck id, also when two decks of
\* the table share an id and so an entry of wins_by_deck: the number of wins of
\* each id is the size of a class of a partition of the games.
EveryGameWonOnce ==
    \A run \in returned :
        /\ UNION {GamesWonBy(run.results, d) : d \in DOMAIN run.wins} = 1 .. run.call.games
        /\ \A d \in DOMAIN run.wins : run.wins[d] = Cardinality(GamesWonBy(run.results, d))
        /\ \A d, e \in DOMAIN run.wins :
              d # e => GamesWonBy(run.results, d) \cap GamesWonBy(run.results, e) = {}

\* With MockEngine a game is a function of its seed and of its place in the
\* seat rotation, whatever was run before, between or after.  So an experiment
\* can be repeated game for game, and one cut into batches that continue the
\* seeds at a multiple of the number of decks gives the games of the whole.
Reproducible ==
    \A run, again \in returned :
        ( /\ run.call.engine = "mock-v1" /\ again.call.engine = "mock-v1"
          /\ run.call.decks = again.call.decks
          /\ run.call.policies = again.call.policies
          /\ run.call.rotate_seats = again.call.rotate_seats )
        => \A j \in DOMAIN run.results, k \in DOMAIN again.results :
              ( /\ run.call.seed + j = again.call.seed + k
                /\ run.call.rotate_seats => (j - k) % Len(run.call.decks) = 0 )
              => run.results[j] = again.results[k]
=============================================================================
