---------------------------- MODULE MCTurnManager ----------------------------
(***************************************************************************)
(* Two rounds of a human, an AI and a headless seat, two of them with the    *)
(* same life; a pool of one thread; two clicks at a time.                    *)
(***************************************************************************)
EXTENDS TurnManager

MCControl == [s \in Seats |-> <<"human", "ai", "headless">>[s + 1]]
MCHands   == [s \in Seats |-> <<1, 2, 0>>[s + 1]]
MCLives   == {[s \in Seats |-> <<30, 20, 30>>[s + 1]], [s \in Seats |-> <<20, 30, 10>>[s + 1]]}
=============================================================================
