------------------------------- MODULE Runner -------------------------------
(***************************************************************************)
(* The values the experiment layer of llmtg computes with: seat rotation,   *)
(* one game's GameResult and the standings of a finished experiment         *)
(* (experiments/runner.py, simulation/result.py, simulation/mock_engine.py).*)
(*                                                                         *)
(* A deck is represented by its deck_id and a policy by its policy_id, the  *)
(* only parts of them the experiment layer reads.  `games', seeds and game  *)
(* numbers are the source's integers; seats and game numbers count from 0   *)
(* as in the source, TLA+ sequences from 1.                                 *)
(*                                                                         *)
(* An operator introduced by `Mutation:' is a plausible bug in the          *)
(* definition that follows it, kept to show that a property notices the     *)
(* bug; no definition refers to it.                                         *)
(***************************************************************************)
EXTENDS Integers, Sequences, FiniteSets

\* The deck list, the policy list or any other list of the caller as a set.
Members(list) == {list[i] : i \in DOMAIN list}

\* runner._rotate.  items[shift:] + items[:shift].
Rotate(items, offset) ==
    IF items = << >> THEN << >>
    ELSE LET shift == offset % Len(items) IN
         SubSeq(items, shift + 1, Len(items)) \o SubSeq(items, 1, shift)

\* Mutation: seats are only rotated once every deck count, not every game.
OffsetPerRound(call, game) ==
    IF call.rotate_seats THEN game \div Len(call.decks) ELSE 0

\* The offset of game number `game' of an experiment.
Offset(call, game) == IF call.rotate_seats THEN game ELSE 0

SeatedDecks(call, game)    == Rotate(call.decks, Offset(call, game))

\* Mutation: the pilots stay in the seats the caller listed them in.
UnrotatedPolicies(call, game) == call.policies

SeatedPolicies(call, game) == Rotate(call.policies, Offset(call, game))

GameSeed(call, game) == call.seed + game

\* What an engine decides about one game of `players' players.
Outcomes(players, TurnCounts) ==
    [winner_index : 0 .. players - 1, turns : TurnCounts]

\* The GameResult play_game returns for game number `game' once the engine has
\* decided it: the seating and the seed are those it was called with.
GameResult(call, game, outcome) ==
    [winner_index |-> outcome.winner_index,
     turns        |-> outcome.turns,
     seed         |-> GameSeed(call, game),
     deck_ids     |-> SeatedDecks(call, game),
     policy_ids   |-> SeatedPolicies(call, game)]

\* GameResult.__post_init__ accepts the result.
WellFormed(result) ==
    /\ result.winner_index \in 0 .. Len(result.deck_ids) - 1
    /\ Len(result.deck_ids) = Len(result.policy_ids)
    /\ result.turns >= 1

WinningDeck(result) == result.deck_ids[result.winner_index + 1]

\* The numbers (from 1) of the games won by deck id d.
GamesWonBy(results, d) == {k \in DOMAIN results : WinningDeck(results[k]) = d}

\* Mutation: the winning seat is looked up in the caller's list, as if nobody
\* had changed seats.
WinsByOriginalSeat(call, results) ==
    [d \in Members(call.decks) |->
        Cardinality({k \in DOMAIN results :
                        call.decks[results[k].winner_index + 1] = d})]

\* Mutation: every deck of the table adds the wins of its id, so decks that
\* share an id count them twice.
WinsPerEntry(call, results) ==
    [d \in Members(call.decks) |->
        Cardinality({i \in DOMAIN call.decks : call.decks[i] = d} \X GamesWonBy(results, d))]

\* wins_by_deck: a dict keyed by deck_id, so decks that share an id share an
\* entry.
WinsByDeck(call, results) ==
    [d \in Members(call.decks) |-> Cardinality(GamesWonBy(results, d))]

\* The guards of run_experiment.
Accepts(call) ==
    /\ call.games >= 1
    /\ Len(call.decks) = Len(call.policies)
    /\ call.decks # << >>

\* The guards of MockEngine.play_game and forge_protocol.build_game_request.
EngineAccepts(decks, policies) ==
    /\ Len(decks) >= 2
    /\ Len(decks) = Len(policies)

\* A finished experiment, as run_experiment returns it to its caller: every
\* game was played, in order, with the seating and the seed its number implies.
IsRun(run) ==
    /\ Accepts(run.call)
    /\ DOMAIN run.results = 1 .. run.call.games
    /\ \A k \in DOMAIN run.results :
          /\ WellFormed(run.results[k])
          /\ run.results[k] = GameResult(run.call, k - 1, run.results[k])
    /\ run.wins = WinsByDeck(run.call, run.results)
=============================================================================
