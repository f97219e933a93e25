--------------------------- MODULE ExperimentStore ---------------------------
(***************************************************************************)
(* llmtg.experiments.storage.SQLiteExperimentStore: several programs, each   *)
(* with a store object of its own, save and load experiments in one SQLite   *)
(* file; they fail, die and start again at any step.                         *)
(*                                                                         *)
(* SQLite and Python's sqlite3 module are outside src/ and modelled by what  *)
(* the code relies on: a statement outside a transaction commits by itself;  *)
(* the first INSERT after connecting opens a transaction and takes the one   *)
(* writer lock; nobody else sees its rows before the commit at the end of    *)
(* the `with connection' block; leaving the block by an exception, and the   *)
(* death of the process, undo it; a SELECT sees one committed state; waiting *)
(* for the lock ends in an exception after the busy timeout; a row whose     *)
(* primary key is taken is refused.                                          *)
(*                                                                         *)
(* uuid4().hex may return any identifier: the module does not assume that    *)
(* two experiments never draw the same one.                                  *)
(***************************************************************************)
EXTENDS Runner

CONSTANTS
    Clients,    \* programs with a store object on the file
    Ids,        \* what uuid4().hex can return
    Requests,   \* arguments save_experiment is called with
    NoClient,   \* the writer lock is free
    NotFound    \* load_experiment's None

\* A summary comes from run_experiment; what else is passed is up to the caller.
ASSUME RequestsAssumption ==
    \A request \in Requests : IsRun(request.run) /\ request.run.call.games \in Nat
ASSUME ClientsAssumption  == NoClient \notin Clients

Tables == {"experiments", "game_results"}

VARIABLES
    tables,   \* tables that exist in the file
    rows,     \* committed rows of each table
    writer,   \* whose transaction holds the writer lock
    pending,  \* rows of each table the writer has inserted and not committed
    client,   \* per client: where its call is, and the call's locals
    acked     \* history: the saves whose identifier was returned to the caller

vars == <<tables, rows, writer, pending, client, acked>>

NoRows == [t \in Tables |-> {}]

Idle == [pc |-> "idle"]
Down == [pc |-> "down"]

Init ==
    /\ tables = {}
    /\ rows = NoRows
    /\ writer = NoClient
    /\ pending = NoRows
    /\ client = [c \in Clients |-> Down]
    /\ acked = {}

At(c, pc)     == client[c].pc = pc
Goto(c, next) == client' = [client EXCEPT ![c] = next]

-----------------------------------------------------------------------------
(***************************************************************************)
(* Rows.                                                                   *)
(***************************************************************************)

\* Mutation: the header records the table as the first game seated it last.
SeatedHeaderRow(id, request) ==
    [experiment_id |-> id, engine_id |-> request.call.engine, seed |-> request.call.seed,
     rotate_seats |-> request.call.rotate_seats, games |-> request.run.call.games,
     deck_ids |-> SeatedDecks(request.call, request.call.games - 1),
     policy_ids |-> SeatedPolicies(request.call, request.call.games - 1)]

\* The row of table experiments.
HeaderRow(id, request) ==
    [experiment_id |-> id, engine_id |-> request.call.engine, seed |-> request.call.seed,
     rotate_seats |-> request.call.rotate_seats, games |-> request.run.call.games,
     deck_ids |-> request.call.decks, policy_ids |-> request.call.policies]

\* Mutation: the winning seat is looked up in the experiment's deck list.
GameRowOriginalSeat(id, request, k) ==
    LET result == request.run.results[k] IN
    [experiment_id |-> id, game_number |-> k - 1, seed |-> result.seed,
     winner_index |-> result.winner_index,
     winning_deck_id |-> request.call.decks[result.winner_index + 1],
     turns |-> result.turns, deck_ids |-> result.deck_ids, policy_ids |-> result.policy_ids]

\* The row of table game_results for the k-th result.
GameRow(id, request, k) ==
    LET result == request.run.results[k] IN
    [experiment_id |-> id, game_number |-> k - 1, seed |-> result.seed,
     winner_index |-> result.winner_index, winning_deck_id |-> WinningDeck(result),
     turns |-> result.turns, deck_ids |-> result.deck_ids, policy_ids |-> result.policy_ids]

HeadersOf(id) == {row \in rows["experiments"] : row.experiment_id = id}
GamesOf(id)   == {row \in rows["game_results"] : row.experiment_id = id}

\* What a load of the experiment a request saved is to return.
Stored(id, request) ==
    [experiment |-> HeaderRow(id, request),
     games |-> {GameRow(id, request, k) : k \in DOMAIN request.run.results}]

-----------------------------------------------------------------------------
(***************************************************************************)
(* The constructor: one CREATE TABLE IF NOT EXISTS after the other, each     *)
(* committing by itself.                                                     *)
(***************************************************************************)
CanCreate(table) == table \in tables \/ writer = NoClient

\* Mutation: a file that has a table is taken to be initialized.
CreateExperimentsUnlessPresent(c) ==
    /\ At(c, "down")
    /\ CanCreate("experiments")
    /\ tables' = tables \cup {"experiments"}
    /\ Goto(c, IF "experiments" \in tables THEN Idle ELSE [pc |-> "creating"])
    /\ UNCHANGED <<rows, writer, pending, acked>>

CreateExperiments(c) ==
    /\ At(c, "down")
    /\ CanCreate("experiments")
    /\ tables' = tables \cup {"experiments"}
    /\ Goto(c, [pc |-> "creating"])
    /\ UNCHANGED <<rows, writer, pending, acked>>

CreateGameResults(c) ==
    /\ At(c, "creating")
    /\ CanCreate("game_results")
    /\ tables' = tables \cup {"game_results"}
    /\ Goto(c, Idle)
    /\ UNCHANGED <<rows, writer, pending, acked>>

-----------------------------------------------------------------------------
(***************************************************************************)
(* save_experiment.                                                        *)
(***************************************************************************)

\* The lengths are checked and an identifier drawn.
BeginSave(c) ==
    /\ At(c, "idle")
    /\ \E request \in Requests, id \in Ids :
          /\ Len(request.call.decks) = Len(request.call.policies)
          /\ Goto(c, [pc |-> "saving", request |-> request, id |-> id])
    /\ UNCHANGED <<tables, rows, writer, pending, acked>>

\* Mutation: the header is committed before the games are inserted.
InsertHeaderAutocommit(c) ==
    /\ At(c, "saving")
    /\ writer = NoClient
    /\ "experiments" \in tables
    /\ HeadersOf(client[c].id) = {}
    /\ rows' = [rows EXCEPT !["experiments"] = @ \cup {HeaderRow(client[c].id, client[c].request)}]
    /\ writer' = c
    /\ Goto(c, [client[c] EXCEPT !.pc = "inserting"])
    /\ UNCHANGED <<tables, pending, acked>>

\* Mutation: the identifier is not a primary key.
InsertHeaderAnyKey(c) ==
    /\ At(c, "saving")
    /\ writer = NoClient
    /\ "experiments" \in tables
    /\ writer' = c
    /\ pending' = [pending EXCEPT !["experiments"] = {HeaderRow(client[c].id, client[c].request)}]
    /\ Goto(c, [client[c] EXCEPT !.pc = "inserting"])
    /\ UNCHANGED <<tables, rows, acked>>

\* The INSERT into experiments opens the transaction.
InsertHeader(c) ==
    /\ At(c, "saving")
    /\ writer = NoClient
    /\ "experiments" \in tables
    /\ HeadersOf(client[c].id) = {}
    /\ writer' = c
    /\ pending' = [pending EXCEPT !["experiments"] = {HeaderRow(client[c].id, client[c].request)}]
    /\ Goto(c, [client[c] EXCEPT !.pc = "inserting"])
    /\ UNCHANGED <<tables, rows, acked>>

Results(c) == client[c].request.run.results

\* The result executemany inserts next; the rows before it are pending.
NextGame == Cardinality(pending["game_results"]) + 1

\* One row of executemany.
InsertGame(c) ==
    /\ At(c, "inserting")
    /\ NextGame \in DOMAIN Results(c)
    /\ "game_results" \in tables
    /\ pending' = [pending EXCEPT !["game_results"] =
                      @ \cup {GameRow(client[c].id, client[c].request, NextGame)}]
    /\ UNCHANGED <<tables, rows, writer, client, acked>>

\* The end of the `with' block: everything that was inserted becomes visible.
Commit(c) ==
    /\ At(c, "inserting")
    /\ NextGame \notin DOMAIN Results(c)
    /\ rows' = [t \in Tables |-> rows[t] \cup pending[t]]
    /\ writer' = NoClient
    /\ pending' = NoRows
    /\ Goto(c, [client[c] EXCEPT !.pc = "saved"])
    /\ UNCHANGED <<tables, acked>>

ReturnId(c) ==
    /\ At(c, "saved")
    /\ acked' = acked \cup {[id |-> client[c].id, request |-> client[c].request]}
    /\ Goto(c, Idle)
    /\ UNCHANGED <<tables, rows, writer, pending>>

\* Mutation: the transaction stays open.
NoRollback(c) == UNCHANGED <<tables, rows, writer, pending, acked>>

\* The transaction of client c, if it has one, is undone.
Rollback(c) ==
    /\ writer'  = IF writer = c THEN NoClient ELSE writer
    /\ pending' = IF writer = c THEN NoRows ELSE pending
    /\ UNCHANGED <<tables, rows, acked>>

\* Mutation: the exception leaves what was inserted behind, committed.
SaveFailsKeeping(c) ==
    /\ At(c, "saving") \/ At(c, "inserting")
    /\ Goto(c, Idle)
    /\ IF writer = c
       THEN /\ rows' = [t \in Tables |-> rows[t] \cup pending[t]]
            /\ writer' = NoClient
            /\ pending' = NoRows
            /\ UNCHANGED <<tables, acked>>
       ELSE UNCHANGED <<tables, rows, writer, pending, acked>>

\* An exception in any statement, the commit included: a full disk, a missing
\* table, a reader that keeps the commit waiting.
SaveFails(c) ==
    /\ At(c, "saving") \/ At(c, "inserting")
    /\ Goto(c, Idle)
    /\ Rollback(c)

\* The two exceptions the program itself meets: the identifier is taken ...
KeyTaken(c) ==
    /\ At(c, "saving")
    /\ writer = NoClient
    /\ HeadersOf(client[c].id) # {}
    /\ Goto(c, Idle)
    /\ Rollback(c)

\* Mutation: the connection waits for the lock for ever.
NoLockTimeout(c) ==
    /\ At(c, "saving")
    /\ writer = c
    /\ Goto(c, Idle)
    /\ Rollback(c)

\* ... or another client holds the writer lock until the busy timeout.
LockTimeout(c) ==
    /\ At(c, "saving")
    /\ writer # NoClient
    /\ Goto(c, Idle)
    /\ Rollback(c)

-----------------------------------------------------------------------------
(***************************************************************************)
(* load_experiment: two SELECTs, each of the state committed at the time.    *)
(***************************************************************************)
WasAcked(id) == \E save \in acked : save.id = id

\* `known' is a history: the identifier had been returned when the call began.
BeginLoad(c) ==
    /\ At(c, "idle")
    /\ \E id \in Ids : Goto(c, [pc |-> "loading", id |-> id, known |-> WasAcked(id)])
    /\ UNCHANGED <<tables, rows, writer, pending, acked>>

Loaded(s, answer) == [pc |-> "loaded", id |-> s.id, known |-> s.known, answer |-> answer]

SelectHeader(c) ==
    /\ At(c, "loading")
    /\ "experiments" \in tables
    /\ \/ /\ HeadersOf(client[c].id) = {}
          /\ Goto(c, Loaded(client[c], NotFound))
       \/ \E row \in HeadersOf(client[c].id) :
             Goto(c, [pc |-> "header", id |-> client[c].id, known |-> client[c].known,
                      header |-> row])
    /\ UNCHANGED <<tables, rows, writer, pending, acked>>

SelectGames(c) ==
    /\ At(c, "header")
    /\ "game_results" \in tables
    /\ Goto(c, Loaded(client[c], [experiment |-> client[c].header,
                                  games |-> GamesOf(client[c].id)]))
    /\ UNCHANGED <<tables, rows, writer, pending, acked>>

ReturnAnswer(c) ==
    /\ At(c, "loaded")
    /\ Goto(c, Idle)
    /\ UNCHANGED <<tables, rows, writer, pending, acked>>

\* An exception in a SELECT.
LoadFails(c) ==
    /\ At(c, "loading") \/ At(c, "header")
    /\ Goto(c, Idle)
    /\ UNCHANGED <<tables, rows, writer, pending, acked>>

-----------------------------------------------------------------------------
\* The process dies, or its constructor raises; another may start later.
Crash(c) ==
    /\ ~At(c, "down")
    /\ Goto(c, Down)
    /\ Rollback(c)

\* What a call in progress does next when nothing outside makes it fail.
Step(c) ==
    \/ InsertHeader(c) \/ KeyTaken(c) \/ LockTimeout(c)
    \/ InsertGame(c) \/ Commit(c) \/ ReturnId(c)
    \/ SelectHeader(c) \/ SelectGames(c) \/ ReturnAnswer(c)

Next ==
    \E c \in Clients :
        \/ CreateExperiments(c) \/ CreateGameResults(c)
        \/ BeginSave(c) \/ BeginLoad(c)
        \/ Step(c)
        \/ SaveFails(c) \/ LoadFails(c) \/ Crash(c)

Spec == Init /\ [][Next]_vars

\* Statements terminate: a client's call goes on until it ends, unless the
\* client fails or dies.
FairSpec == Spec /\ \A c \in Clients : WF_vars(Step(c))

-----------------------------------------------------------------------------
(***************************************************************************)
(* Type correctness.                                                       *)
(***************************************************************************)
HeaderRows == {HeaderRow(id, request) : id \in Ids, request \in Requests}

GameRows ==
    UNION {Stored(id, request).games : id \in Ids, request \in Requests}

Answers == {NotFound} \cup [experiment : HeaderRows, games : SUBSET GameRows]

Sessions ==
    {Idle, Down, [pc |-> "creating"]}
    \cup [pc : {"saving", "inserting", "saved"}, request : Requests, id : Ids]
    \cup [pc : {"loading"}, id : Ids, known : BOOLEAN]
    \cup [pc : {"header"}, id : Ids, known : BOOLEAN, header : HeaderRows]
    \cup [pc : {"loaded"}, id : Ids, known : BOOLEAN, answer : Answers]

\* The two tables hold rows of their own kind, a client is somewhere in one of
\* the three calls, and the writer lock belongs to the client that inserts.
TypeOK ==
    /\ tables \subseteq Tables
    /\ \A table \in {rows, pending} :
          /\ table \in [Tables -> SUBSET (HeaderRows \cup GameRows)]
          /\ table["experiments"] \subseteq HeaderRows
          /\ table["game_results"] \subseteq GameRows
    /\ client \in [Clients -> Sessions]
    /\ \A c \in Clients : At(c, "inserting") <=> writer = c
    /\ writer \in Clients \cup {NoClient}
    /\ acked \subseteq [id : Ids, request : Requests]

-----------------------------------------------------------------------------
(***************************************************************************)
(* Safety properties.                                                      *)
(***************************************************************************)

\* The experiment of the request is in the file, with each of its games and
\* with no other.
IsStored(id, request) ==
    /\ HeadersOf(id) = {HeaderRow(id, request)}
    /\ GamesOf(id) = Stored(id, request).games

\* Whoever fails or dies when, the rows of an identifier are those of one
\* whole save or there are none.
AllOrNothing ==
    \A id \in Ids :
        \/ HeadersOf(id) = {} /\ GamesOf(id) = {}
        \/ \E request \in Requests : IsStored(id, request)

\* A save that returned its identifier stays stored, also when its client or
\* others die, and when another save draws the same identifier.
AckedDurable == \A save \in acked : IsStored(save.id, save.request)

\* The two SELECTs of a load are of different states of the file; together
\* they still answer with a whole experiment, or with None for an identifier
\* no save had returned before the load began.
LoadsWhole ==
    \A c \in Clients : At(c, "loaded") =>
        \/ client[c].answer = NotFound /\ ~client[c].known
        \/ \E request \in Requests : client[c].answer = Stored(client[c].id, request)

\* Whoever has a store object finds both tables, although two constructors may
\* interleave and either may die between its two statements.
SchemaReady ==
    \A c \in Clients : ~At(c, "down") /\ ~At(c, "creating") => tables = Tables

\* The wins of the summary can be counted from the rows of its games.
StandingsRecoverable ==
    \A save \in acked : \A d \in DOMAIN save.request.run.wins :
        Cardinality({row \in GamesOf(save.id) : row.winning_deck_id = d})
            = save.request.run.wins[d]

\* The header of an experiment saved with its own arguments explains every row
\* of its games: each can be played again from the header and its number.
HeaderExplainsGames ==
    \A save \in acked : \A header \in HeadersOf(save.id) : \A game \in GamesOf(save.id) :
        save.request.call = save.request.run.call =>
            LET offset == IF header.rotate_seats THEN game.game_number ELSE 0 IN
            /\ game.game_number \in 0 .. header.games - 1
            /\ game.seed = header.seed + game.game_number
            /\ game.deck_ids = Rotate(header.deck_ids, offset)
            /\ game.policy_ids = Rotate(header.policy_ids, offset)

-----------------------------------------------------------------------------
(***************************************************************************)
(* The store implements the ledger.  An experiment is filed at the commit    *)
(* and looked up by the first SELECT of a load.                              *)
(***************************************************************************)
Filed(id) ==
    IF HeadersOf(id) = {} THEN NotFound
    ELSE [experiment |-> CHOOSE row \in HeadersOf(id) : TRUE, games |-> GamesOf(id)]

SessionOf(s) ==
    CASE s.pc \in {"down", "creating"}    -> [state |-> "down"]
      [] s.pc = "idle"                    -> [state |-> "idle"]
      [] s.pc \in {"saving", "inserting"} ->
            [state |-> "saving", experiment |-> Stored(s.id, s.request)]
      [] s.pc = "saved"                   -> [state |-> "saved", id |-> s.id]
      [] s.pc = "loading"                 -> [state |-> "loading", id |-> s.id]
      [] s.pc = "header"                  ->
            [state |-> "loaded", id |-> s.id, answer |-> Filed(s.id)]
      [] s.pc = "loaded"                  ->
            [state |-> "loaded", id |-> s.id, answer |-> s.answer]

Ledger ==
    INSTANCE ExperimentLedger WITH
        Experiments <- {Stored(id, request) : id \in Ids, request \in Requests},
        NotStored   <- NotFound,
        ledger      <- [id \in Ids |-> Filed(id)],
        session     <- [c \in Clients |-> SessionOf(client[c])]

\* Every behaviour of the store is one of the ledger.
ImplementsLedger == Ledger!Spec

-----------------------------------------------------------------------------
\* A call that waits for the writer lock, however often others take it first,
\* ends: with a result, or with an exception.
CallsEnd ==
    \A c \in Clients :
        ~(At(c, "idle") \/ At(c, "down") \/ At(c, "creating"))
            ~> (At(c, "idle") \/ At(c, "down"))
=============================================================================
