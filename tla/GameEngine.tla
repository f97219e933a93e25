----------------------------- MODULE GameEngine -----------------------------
(***************************************************************************)
(* What a SimulationEngine promises its caller, and all that Experiment     *)
(* relies on: a call of play_game ends with a result of the game it was     *)
(* asked for, or with an exception.                                         *)
(***************************************************************************)
EXTENDS Runner

CONSTANTS
    Requests,  \* arguments of play_game: decks, policies and a seed
    None       \* no call is in progress; nothing was answered

VARIABLES
    request,   \* the call in progress
    reply      \* how the last call ended

vars == <<request, reply>>

Raised == [kind |-> "raised"]

IsResultOf(result, r) ==
    /\ WellFormed(result)
    /\ result.deck_ids = r.decks
    /\ result.policy_ids = r.policies
    /\ result.seed = r.seed

\* A reply remembers the request it answers.
IsAnswer(rep, r) == rep.kind = "result" /\ IsResultOf(rep.result, r)

Init == request = None /\ reply = None

Ask(r) ==
    /\ request = None
    /\ request' = r
    /\ reply' = None

Answer ==
    /\ request # None
    /\ EngineAccepts(request.decks, request.policies)
    /\ reply' # None
    /\ IsAnswer(reply', request)
    /\ request' = None

Raise ==
    /\ request # None
    /\ reply' = Raised
    /\ request' = None

Next == (\E r \in Requests : Ask(r)) \/ Answer \/ Raise

Spec == Init /\ [][Next]_vars
=============================================================================
