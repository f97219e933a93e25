-------------------------- MODULE ExperimentLedger --------------------------
(***************************************************************************)
(* What SQLiteExperimentStore promises the programs that use it: a ledger    *)
(* of experiments.  An experiment enters the ledger whole and at one         *)
(* instant, under an identifier nothing is filed under, and never changes or *)
(* leaves.  A lookup answers what the ledger holds at one instant of the     *)
(* call.  A program that gets an exception from a save has stored nothing;   *)
(* one that dies in a save may have stored its experiment without learning   *)
(* the identifier.                                                           *)
(***************************************************************************)
CONSTANTS
    Clients,      \* programs that use the store
    Ids,          \* experiment identifiers
    Experiments,  \* what can be stored
    NotStored     \* nothing is filed under an identifier

VARIABLES
    ledger,       \* what is filed under each identifier
    session       \* what each client is doing

ledgerVars == <<ledger, session>>

Down     == [state |-> "down"]
Idle     == [state |-> "idle"]
Saving(experiment)  == [state |-> "saving", experiment |-> experiment]
Saved(id)           == [state |-> "saved", id |-> id]
Loading(id)         == [state |-> "loading", id |-> id]
Loaded(id, answer)  == [state |-> "loaded", id |-> id, answer |-> answer]

Init ==
    /\ ledger = [id \in Ids |-> NotStored]
    /\ session = [c \in Clients |-> Down]

Become(c, s) == session' = [session EXCEPT ![c] = s]

Open(c) == session[c] = Down /\ Become(c, Idle) /\ UNCHANGED ledger

AskSave(c) ==
    /\ session[c] = Idle
    /\ \E e \in Experiments : Become(c, Saving(e))
    /\ UNCHANGED ledger

\* The experiment is filed, whole.
File(c) ==
    /\ session[c].state = "saving"
    /\ \E id \in Ids :
          /\ ledger[id] = NotStored
          /\ ledger' = [ledger EXCEPT ![id] = session[c].experiment]
          /\ Become(c, Saved(id))

AskLoad(c) ==
    /\ session[c] = Idle
    /\ \E id \in Ids : Become(c, Loading(id))
    /\ UNCHANGED ledger

\* The ledger is looked up.
LookUp(c) ==
    /\ session[c].state = "loading"
    /\ Become(c, Loaded(session[c].id, ledger[session[c].id]))
    /\ UNCHANGED ledger

\* The call returns what it found out.
Answer(c) ==
    /\ session[c].state \in {"saved", "loaded"}
    /\ Become(c, Idle)
    /\ UNCHANGED ledger

\* The call raises.
Fail(c) ==
    /\ session[c].state \in {"saving", "loading", "loaded"}
    /\ Become(c, Idle)
    /\ UNCHANGED ledger

Crash(c) == session[c] # Down /\ Become(c, Down) /\ UNCHANGED ledger

Next ==
    \E c \in Clients :
        \/ Open(c) \/ AskSave(c) \/ File(c) \/ AskLoad(c) \/ LookUp(c)
        \/ Answer(c) \/ Fail(c) \/ Crash(c)

Spec == Init /\ [][Next]_ledgerVars
=============================================================================
