---------------------------- MODULE MCExperiment ----------------------------
(***************************************************************************)
(* Tables of one to three decks, experiments of up to four games.           *)
(***************************************************************************)
EXTENDS Experiment

MCDeckIds    == {"a", "b", "c"}
MCPolicyIds  == {"p", "q", "r"}
MCTurnCounts == {4}
MCMaxCalls   == 2

MCSeeded(seed, engine, decks, policies, games, rotate) ==
    [engine |-> engine, decks |-> decks, policies |-> policies, games |-> games,
     seed |-> seed, rotate_seats |-> rotate]

MCCall(engine, decks, policies, games, rotate) ==
    MCSeeded(7, engine, decks, policies, games, rotate)

MCCalls ==
    {MCCall("mock-v1", <<"a", "b">>, <<"p", "q">>, 4, rotate) : rotate \in BOOLEAN}
    \cup {MCSeeded(seed, "mock-v1", <<"a", "b">>, <<"p", "q">>, 2, TRUE) : seed \in {8, 9}}
    \cup {MCCall("mock-v1", <<"a", "b", "c">>, <<"p", "q", "r">>, games, TRUE) : games \in {3, 4}}
    \cup {MCCall("mock-v1", <<"a", "b", "a">>, <<"p", "q", "r">>, 3, TRUE)}
    \cup {MCCall("forge-bridge-v1", <<"b", "a">>, <<"p", "p">>, games, TRUE) : games \in 1 .. 3}
    \cup {MCCall("mock-v1", <<"a">>, <<"p">>, 1, TRUE)}
    \cup {MCCall("mock-v1", <<"a", "b">>, <<"p", "q">>, 0, TRUE)}
    \cup {MCCall("mock-v1", <<"a", "b">>, <<"p">>, 2, TRUE)}
    \cup {MCCall("mock-v1", << >>, << >>, 2, FALSE)}
=============================================================================
