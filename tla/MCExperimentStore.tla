------------------------- MODULE MCExperimentStore -------------------------
(***************************************************************************)
(* Two clients, two identifiers; an experiment of two games with rotated     *)
(* seats, one of a single game, and a save its length check refuses.         *)
(***************************************************************************)
EXTENDS ExperimentStore

Call(engine, decks, policies, games) ==
    [engine |-> engine, decks |-> decks, policies |-> policies, games |-> games,
     seed |-> 5, rotate_seats |-> TRUE]

\* The summary of a call whose games are all won by the same seat.
Run(call, seat) ==
    LET results == [k \in 1 .. call.games |->
                       GameResult(call, k - 1, [winner_index |-> seat, turns |-> 6])] IN
    [call |-> call, results |-> results, wins |-> WinsByDeck(call, results)]

TwoGames == Call("mock-v1", <<"a", "b">>, <<"p", "q">>, 2)
OneGame  == Call("forge-bridge-v1", <<"b", "c">>, <<"p", "p">>, 1)

MCRequests ==
    { [call |-> TwoGames, run |-> Run(TwoGames, 0)],
      [call |-> OneGame, run |-> Run(OneGame, 1)],
      [call |-> [TwoGames EXCEPT !.policies = <<"p">>], run |-> Run(TwoGames, 1)] }
=============================================================================
