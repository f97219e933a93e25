----------------------- MODULE ExperimentStore_proofs -----------------------
(***************************************************************************)
(* SQLiteExperimentStore, for any number of clients, identifiers and save    *)
(* requests: what the file holds is made of whole saves, acknowledged saves  *)
(* stay, loads answer with whole experiments, and the store implements the   *)
(* ledger.                                                                   *)
(***************************************************************************)
EXTENDS ExperimentStore, FiniteSetTheorems, TLAPS

-----------------------------------------------------------------------------
(***************************************************************************)
(* Rows and sessions.                                                      *)
(***************************************************************************)

\* A row carries the identifier it is inserted under, a game its number too.
LEMMA RowFields ==
    ASSUME NEW id, NEW request, NEW k
    PROVE  /\ HeaderRow(id, request).experiment_id = id
           /\ GameRow(id, request, k).experiment_id = id
           /\ GameRow(id, request, k).game_number = k - 1
  BY DEF HeaderRow, GameRow

LEMMA RowTypes ==
    ASSUME NEW id \in Ids, NEW request \in Requests
    PROVE  /\ HeaderRow(id, request) \in HeaderRows
           /\ \A k \in DOMAIN request.run.results : GameRow(id, request, k) \in GameRows
<1>1. HeaderRow(id, request) \in HeaderRows
  BY DEF HeaderRows
<1>2. Stored(id, request).games \subseteq GameRows
  BY DEF GameRows
<1>3. \A k \in DOMAIN request.run.results : GameRow(id, request, k) \in Stored(id, request).games
  BY DEF Stored
<1>4. QED
  BY <1>1, <1>2, <1>3

\* The locals of a call, by where the call is.
LEMMA SessionFields ==
    ASSUME NEW s \in Sessions
    PROVE  /\ s.pc \in {"saving", "inserting", "saved"} => s.request \in Requests /\ s.id \in Ids
           /\ s.pc \in {"loading", "header", "loaded"} => s.id \in Ids /\ s.known \in BOOLEAN
           /\ s.pc = "header" => s.header \in HeaderRows
           /\ s.pc = "loaded" => s.answer \in Answers
  BY DEF Sessions, Idle, Down

LEMMA SessionValues ==
    ASSUME NEW request \in Requests, NEW id \in Ids, NEW known \in BOOLEAN,
           NEW header \in HeaderRows, NEW answer \in Answers
    PROVE  /\ Idle \in Sessions /\ Down \in Sessions /\ [pc |-> "creating"] \in Sessions
           /\ \A pc \in {"saving", "inserting", "saved"} :
                 [pc |-> pc, request |-> request, id |-> id] \in Sessions
           /\ [pc |-> "loading", id |-> id, known |-> known] \in Sessions
           /\ [pc |-> "header", id |-> id, known |-> known, header |-> header] \in Sessions
           /\ [pc |-> "loaded", id |-> id, known |-> known, answer |-> answer] \in Sessions
  BY DEF Sessions

\* A save goes from one place to the next with the same locals.
LEMMA SaveAdvances ==
    ASSUME NEW s \in Sessions, s.pc \in {"saving", "inserting", "saved"},
           NEW pc \in {"saving", "inserting", "saved"}
    PROVE  /\ [s EXCEPT !.pc = pc] \in Sessions
           /\ [s EXCEPT !.pc = pc].pc = pc
           /\ [s EXCEPT !.pc = pc].id = s.id
           /\ [s EXCEPT !.pc = pc].request = s.request
<1>1. s \in [pc : {"saving", "inserting", "saved"}, request : Requests, id : Ids]
  BY DEF Sessions, Idle, Down
<1>2. QED
  BY <1>1 DEF Sessions

-----------------------------------------------------------------------------
(***************************************************************************)
(* Type correctness.                                                       *)
(***************************************************************************)
RowTableType ==
    {table \in [Tables -> SUBSET (HeaderRows \cup GameRows)] :
        table["experiments"] \subseteq HeaderRows /\ table["game_results"] \subseteq GameRows}

LEMMA EmptyTables == NoRows \in RowTableType
  BY DEF NoRows, RowTableType, Tables

\* TypeOK in parts a step can be checked against.
LEMMA TypeParts ==
    TypeOK <=> /\ tables \subseteq Tables
               /\ rows \in RowTableType /\ pending \in RowTableType
               /\ client \in [Clients -> Sessions]
               /\ \A c \in Clients : At(c, "inserting") <=> writer = c
               /\ writer \in Clients \cup {NoClient}
               /\ acked \subseteq [id : Ids, request : Requests]
  BY DEF TypeOK, RowTableType

\* One client moves: the others stay where they are.
LEMMA Moves ==
    ASSUME client \in [Clients -> Sessions], NEW c \in Clients, NEW s \in Sessions, Goto(c, s)
    PROVE  /\ client' \in [Clients -> Sessions]
           /\ client'[c] = s
           /\ \A d \in Clients \ {c} : client'[d] = client[d]
  BY DEF Goto

LEMMA TypeInit == Init => TypeOK
<1>1. Down \in Sessions
  BY DEF Sessions
<1>2. Init => /\ client \in [Clients -> Sessions]
              /\ \A c \in Clients : ~At(c, "inserting")
  BY <1>1 DEF Init, At, Down
<1>3. QED
  BY <1>2, EmptyTables, TypeParts, ClientsAssumption DEF Init

\* Every step but those that take or give back the writer lock.
LEMMA TypeOfQuietStep ==
    ASSUME TypeOK, NEW c \in Clients, NEW s \in Sessions, Goto(c, s),
           ~At(c, "inserting"), s.pc # "inserting",
           tables' \subseteq Tables, UNCHANGED <<rows, writer, pending>>,
           acked' \subseteq [id : Ids, request : Requests]
    PROVE  TypeOK'
<1>1. /\ client' \in [Clients -> Sessions] /\ client'[c] = s
      /\ \A d \in Clients \ {c} : client'[d] = client[d]
  BY Moves, TypeParts
<1>2. \A d \in Clients : At(d, "inserting")' <=> At(d, "inserting")
  BY <1>1 DEF At
<1>3. QED
  BY <1>1, <1>2, TypeParts DEF At, TypeOK, RowTableType

\* A step that gives up the call, and with it the transaction if there is one.
LEMMA TypeOfRollback ==
    ASSUME TypeOK, NEW c \in Clients, NEW s \in {Idle, Down}, Goto(c, s), Rollback(c)
    PROVE  TypeOK'
<1>1. s \in Sessions /\ s.pc # "inserting"
  BY DEF Sessions, Idle, Down
<1>2. /\ client' \in [Clients -> Sessions] /\ client'[c] = s
      /\ \A d \in Clients \ {c} : client'[d] = client[d]
  BY <1>1, Moves, TypeParts
<1>3. /\ tables' = tables /\ rows' = rows /\ acked' = acked
      /\ writer' \in Clients \cup {NoClient}
      /\ pending' \in RowTableType
  BY EmptyTables, TypeParts DEF Rollback
<1>4. \A d \in Clients : At(d, "inserting")' <=> writer' = d
  BY <1>1, <1>2, TypeParts, ClientsAssumption DEF Rollback, At
<1>5. TypeOK' <=> /\ tables' \subseteq Tables
                  /\ rows' \in RowTableType /\ pending' \in RowTableType
                  /\ client' \in [Clients -> Sessions]
                  /\ \A d \in Clients : At(d, "inserting")' <=> writer' = d
                  /\ writer' \in Clients \cup {NoClient}
                  /\ acked' \subseteq [id : Ids, request : Requests]
  BY DEF TypeOK, RowTableType
<1>6. QED
  BY <1>2, <1>3, <1>4, <1>5, TypeParts

LEMMA TypeInsertHeader ==
    ASSUME TypeOK, NEW c \in Clients, InsertHeader(c)
    PROVE  TypeOK'
<1> DEFINE s == [client[c] EXCEPT !.pc = "inserting"]
<1>1. client[c] \in Sessions /\ client[c].pc = "saving"
  BY TypeParts DEF InsertHeader, At
<1>2. s \in Sessions /\ s.pc = "inserting"
  BY <1>1, SaveAdvances
<1> HIDE DEF s
<1>3. /\ client' \in [Clients -> Sessions] /\ client'[c] = s
      /\ \A d \in Clients \ {c} : client'[d] = client[d]
  BY <1>2, Moves, TypeParts DEF InsertHeader, s
<1>4. pending' \in RowTableType
  <2>1. HeaderRow(client[c].id, client[c].request) \in HeaderRows
    BY <1>1, SessionFields, RowTypes
  <2>2. pending' = [pending EXCEPT !["experiments"] = {HeaderRow(client[c].id, client[c].request)}]
    BY DEF InsertHeader
  <2>3. QED
    BY <2>1, <2>2, TypeParts DEF RowTableType, Tables
<1>5. \A d \in Clients : At(d, "inserting")' <=> writer' = d
  BY <1>2, <1>3, TypeParts, ClientsAssumption DEF InsertHeader, At
<1>6. QED
  BY <1>3, <1>4, <1>5, TypeParts DEF InsertHeader, TypeOK, RowTableType

LEMMA TypeInsertGame ==
    ASSUME TypeOK, NEW c \in Clients, InsertGame(c)
    PROVE  TypeOK'
<1> DEFINE row == GameRow(client[c].id, client[c].request, NextGame)
<1>1. row \in GameRows
  <2>1. client[c] \in Sessions /\ client[c].pc = "inserting"
    BY TypeParts DEF InsertGame, At
  <2>2. client[c].request \in Requests /\ client[c].id \in Ids
    BY <2>1, SessionFields
  <2>3. NextGame \in DOMAIN client[c].request.run.results
    BY DEF InsertGame, Results
  <2>4. QED
    BY <2>2, <2>3, RowTypes
<1>2. pending' = [pending EXCEPT !["game_results"] = @ \cup {row}]
  BY DEF InsertGame
<1> HIDE DEF row
<1>3. pending' \in RowTableType
  BY <1>1, <1>2, TypeParts DEF RowTableType, Tables
<1>4. QED
  BY <1>3, TypeParts DEF InsertGame, TypeOK, RowTableType, At

LEMMA TypeCommit ==
    ASSUME TypeOK, NEW c \in Clients, Commit(c)
    PROVE  TypeOK'
<1> DEFINE s == [client[c] EXCEPT !.pc = "saved"]
<1>1. client[c] \in Sessions /\ client[c].pc = "inserting" /\ writer = c
  BY TypeParts DEF Commit, At
<1>2. s \in Sessions /\ s.pc = "saved"
  BY <1>1, SaveAdvances
<1> HIDE DEF s
<1>3. /\ client' \in [Clients -> Sessions] /\ client'[c] = s
      /\ \A d \in Clients \ {c} : client'[d] = client[d]
  BY <1>2, Moves, TypeParts DEF Commit, s
<1>4. rows' \in RowTableType /\ pending' \in RowTableType
  <2>1. rows' = [t \in Tables |-> rows[t] \cup pending[t]] /\ pending' = NoRows
    BY DEF Commit
  <2>2. QED
    BY <2>1, EmptyTables, TypeParts DEF RowTableType, Tables
<1>5. \A d \in Clients : At(d, "inserting")' <=> writer' = d
  BY <1>1, <1>2, <1>3, TypeParts, ClientsAssumption DEF Commit, At
<1>6. QED
  BY <1>3, <1>4, <1>5, TypeParts DEF Commit, TypeOK, RowTableType

LEMMA TypeNext == TypeOK /\ [Next]_vars => TypeOK'
<1> SUFFICES ASSUME TypeOK, [Next]_vars PROVE TypeOK'
  OBVIOUS
<1> USE TypeParts
<1>1. ASSUME NEW c \in Clients, CreateExperiments(c) PROVE TypeOK'
  <2>1. [pc |-> "creating"] \in Sessions
    BY DEF Sessions
  <2>2. QED
    BY <1>1, <2>1, TypeOfQuietStep DEF CreateExperiments, At, Tables
<1>2. ASSUME NEW c \in Clients, CreateGameResults(c) PROVE TypeOK'
  <2>1. Idle \in Sessions /\ Idle.pc = "idle"
    BY DEF Sessions, Idle
  <2>2. QED
    BY <1>2, <2>1, TypeOfQuietStep DEF CreateGameResults, At, Tables
<1>3. ASSUME NEW c \in Clients, BeginSave(c) PROVE TypeOK'
  <2>1. PICK request \in Requests, id \in Ids :
           Goto(c, [pc |-> "saving", request |-> request, id |-> id])
    BY <1>3 DEF BeginSave
  <2>2. [pc |-> "saving", request |-> request, id |-> id] \in Sessions
    BY DEF Sessions
  <2>3. QED
    BY <1>3, <2>1, <2>2, TypeOfQuietStep DEF BeginSave, At
<1>4. ASSUME NEW c \in Clients, BeginLoad(c) PROVE TypeOK'
  <2>1. PICK id \in Ids : Goto(c, [pc |-> "loading", id |-> id, known |-> WasAcked(id)])
    BY <1>4 DEF BeginLoad
  <2>2. WasAcked(id) \in BOOLEAN
    BY DEF WasAcked
  <2>3. [pc |-> "loading", id |-> id, known |-> WasAcked(id)] \in Sessions
    BY <2>2 DEF Sessions
  <2>4. QED
    BY <1>4, <2>1, <2>3, TypeOfQuietStep DEF BeginLoad, At
<1>5. ASSUME NEW c \in Clients, Commit(c) \/ InsertHeader(c) \/ InsertGame(c) PROVE TypeOK'
  BY <1>5, TypeCommit, TypeInsertHeader, TypeInsertGame
<1>6. ASSUME NEW c \in Clients, KeyTaken(c) \/ LockTimeout(c) \/ SaveFails(c) \/ Crash(c)
      PROVE  TypeOK'
  BY <1>6, TypeOfRollback DEF KeyTaken, LockTimeout, SaveFails, Crash
<1>7. ASSUME NEW c \in Clients, ReturnId(c) PROVE TypeOK'
  <2>1. client[c].request \in Requests /\ client[c].id \in Ids
    BY <1>7, SessionFields DEF ReturnId, At
  <2>2. Idle \in Sessions /\ Idle.pc = "idle"
    BY DEF Sessions, Idle
  <2>3. QED
    BY <1>7, <2>1, <2>2, TypeOfQuietStep DEF ReturnId, At
<1>8. ASSUME NEW c \in Clients, SelectHeader(c) PROVE TypeOK'
  <2>1. client[c].id \in Ids /\ client[c].known \in BOOLEAN
    BY <1>8, SessionFields DEF SelectHeader, At
  <2>2. PICK s : /\ Goto(c, s)
                 /\ \/ s = Loaded(client[c], NotFound)
                    \/ \E row \in HeadersOf(client[c].id) :
                          s = [pc |-> "header", id |-> client[c].id,
                               known |-> client[c].known, header |-> row]
    BY <1>8 DEF SelectHeader
  <2>3. HeadersOf(client[c].id) \subseteq HeaderRows
    BY DEF HeadersOf, RowTableType
  <2>4. s \in Sessions /\ s.pc \in {"header", "loaded"}
    BY <2>1, <2>2, <2>3 DEF Sessions, Loaded, Answers
  <2>5. QED
    BY <1>8, <2>2, <2>4, TypeOfQuietStep DEF SelectHeader, At
<1>9. ASSUME NEW c \in Clients, SelectGames(c) PROVE TypeOK'
  <2> DEFINE answer == [experiment |-> client[c].header, games |-> GamesOf(client[c].id)]
  <2>1. client[c].id \in Ids /\ client[c].known \in BOOLEAN /\ client[c].header \in HeaderRows
    BY <1>9, SessionFields DEF SelectGames, At
  <2>2. GamesOf(client[c].id) \subseteq GameRows
    BY DEF GamesOf, RowTableType
  <2>3. answer \in Answers
    BY <2>1, <2>2 DEF Answers
  <2> HIDE DEF answer
  <2>4. Loaded(client[c], answer) \in Sessions /\ Loaded(client[c], answer).pc = "loaded"
    BY <2>1, <2>3 DEF Sessions, Loaded
  <2>5. QED
    BY <1>9, <2>4, TypeOfQuietStep DEF SelectGames, At, answer
<1>10. ASSUME NEW c \in Clients, ReturnAnswer(c) \/ LoadFails(c) PROVE TypeOK'
  <2>1. Idle \in Sessions /\ Idle.pc = "idle"
    BY DEF Sessions, Idle
  <2>2. QED
    BY <1>10, <2>1, TypeOfQuietStep DEF ReturnAnswer, LoadFails, At
<1>11. CASE UNCHANGED vars
  BY <1>11 DEF vars, TypeOK, At
<1>12. QED
  BY <1>1, <1>2, <1>3, <1>4, <1>5, <1>6, <1>7, <1>8, <1>9, <1>10, <1>11 DEF Next, Step

\* The tables, the transaction and the clients' locals keep their types, and the
\* writer lock is held exactly while its client inserts.
THEOREM StoreTypeCorrect == Spec => []TypeOK
  BY TypeInit, TypeNext, PTL DEF Spec

-----------------------------------------------------------------------------
(***************************************************************************)
(* The inductive invariant.  It adds to the safety properties what makes    *)
(* them last: what an open transaction has inserted so far, that it is under *)
(* a free identifier, and what a call remembers of the file.                 *)
(***************************************************************************)
FirstGames(id, request, m) == {GameRow(id, request, k) : k \in 1 .. m}

OpenTransaction(c) ==
    LET m == Cardinality(pending["game_results"]) IN
    /\ pending["experiments"] = {HeaderRow(client[c].id, client[c].request)}
    /\ HeadersOf(client[c].id) = {}
    /\ IsFiniteSet(pending["game_results"])
    /\ m \in Nat /\ m <= client[c].request.run.call.games
    /\ pending["game_results"] = FirstGames(client[c].id, client[c].request, m)

CallInv(c) ==
    /\ At(c, "inserting") => OpenTransaction(c)
    /\ At(c, "saved") => IsStored(client[c].id, client[c].request)
    /\ At(c, "loading") /\ client[c].known => HeadersOf(client[c].id) # {}
    /\ At(c, "header") => client[c].header \in HeadersOf(client[c].id)
    /\ At(c, "loaded") =>
        \/ client[c].answer = NotFound /\ ~client[c].known
        \/ \E request \in Requests : client[c].answer = Stored(client[c].id, request)

\* The tables a constructor has created by where it is.
SchemaInv ==
    \A c \in Clients :
        /\ At(c, "creating") => "experiments" \in tables
        /\ ~At(c, "down") /\ ~At(c, "creating") => tables = Tables

StoreInv ==
    /\ TypeOK
    /\ SchemaInv
    /\ AllOrNothing
    /\ AckedDurable
    /\ writer = NoClient => pending = NoRows
    /\ \A c \in Clients : CallInv(c)

\* A request is of a whole experiment of at least one game.
LEMMA RequestGames ==
    ASSUME NEW request \in Requests
    PROVE  /\ request.run.call.games \in Nat \ {0}
           /\ DOMAIN request.run.results = 1 .. request.run.call.games
           /\ \A id : Stored(id, request).games =
                         FirstGames(id, request, request.run.call.games)
  BY RequestsAssumption DEF IsRun, Accepts, Stored, FirstGames

\* One header stands for one experiment, all of it.
LEMMA HeaderStandsForWhole ==
    ASSUME AllOrNothing, NEW id \in Ids, NEW header \in HeadersOf(id)
    PROVE  \E request \in Requests :
              [experiment |-> header, games |-> GamesOf(id)] = Stored(id, request)
<1>1. PICK request \in Requests : IsStored(id, request)
  BY DEF AllOrNothing
<1>2. header = HeaderRow(id, request) /\ GamesOf(id) = Stored(id, request).games
  BY <1>1 DEF IsStored
<1>3. QED
  BY <1>2 DEF Stored

LEMMA StoreInit == Init => StoreInv
<1> SUFFICES ASSUME Init PROVE StoreInv
  OBVIOUS
<1>1. TypeOK
  BY TypeInit
<1>2. \A c \in Clients : client[c].pc = "down"
  BY DEF Init, Down
<1>3. \A id : HeadersOf(id) = {} /\ GamesOf(id) = {}
  BY DEF Init, NoRows, Tables, HeadersOf, GamesOf
<1>4. QED
  BY <1>1, <1>2, <1>3
  DEF StoreInv, SchemaInv, AllOrNothing, AckedDurable, CallInv, At, Init

\* What a step that leaves the committed rows alone leaves true.
LEMMA RowsStay ==
    ASSUME rows' = rows
    PROVE  /\ \A id : HeadersOf(id)' = HeadersOf(id) /\ GamesOf(id)' = GamesOf(id)
           /\ \A id, request : IsStored(id, request)' <=> IsStored(id, request)
           /\ AllOrNothing => AllOrNothing'
           /\ AckedDurable /\ acked' = acked => AckedDurable'
  BY DEF HeadersOf, GamesOf, IsStored, AllOrNothing, AckedDurable

\* A client whose call does not move keeps its invariant when the rows stay and
\* the transaction, if it is its own, too.
LEMMA CallStays ==
    ASSUME NEW d \in Clients, CallInv(d), client'[d] = client[d], rows' = rows,
           At(d, "inserting") => pending' = pending
    PROVE  CallInv(d)'
<1>1. \A id : HeadersOf(id)' = HeadersOf(id)
  BY RowsStay
<1>2. \A id, request : IsStored(id, request)' <=> IsStored(id, request)
  BY RowsStay
<1>3. \A pc : At(d, pc)' <=> At(d, pc)
  BY DEF At
<1>4. At(d, "inserting") => OpenTransaction(d)'
  BY <1>1 DEF CallInv, OpenTransaction
<1>5. QED
  BY <1>1, <1>2, <1>3, <1>4 DEF CallInv

\* It is enough to look at the client that moves, unless it commits or returns
\* an identifier.
LEMMA InvOfStep ==
    ASSUME StoreInv, TypeOK', NEW c \in Clients, rows' = rows, acked' = acked,
           tables \subseteq tables',
           \A d \in Clients \ {c} :
              client'[d] = client[d] /\ (At(d, "inserting") => pending' = pending),
           writer' = NoClient => pending' = NoRows,
           At(c, "creating")' => "experiments" \in tables',
           ~(At(c, "down") \/ At(c, "creating"))' => tables' = Tables,
           CallInv(c)'
    PROVE  StoreInv'
<1>1. AllOrNothing' /\ AckedDurable'
  BY RowsStay DEF StoreInv
<1>2. ASSUME NEW d \in Clients PROVE CallInv(d)'
  BY CallStays DEF StoreInv
<1>3. SchemaInv'
  <2>1. ASSUME NEW d \in Clients, d # c
        PROVE  /\ At(d, "creating")' => "experiments" \in tables'
               /\ ~(At(d, "down") \/ At(d, "creating"))' => tables' = Tables
    <3>1. \A pc : At(d, pc)' <=> At(d, pc)
      BY <2>1 DEF At
    <3>2. tables' \subseteq Tables
      BY DEF TypeOK
    <3>3. QED
      BY <3>1, <3>2 DEF StoreInv, SchemaInv
  <2>2. QED
    BY <2>1 DEF SchemaInv
<1>4. QED
  BY <1>1, <1>2, <1>3 DEF StoreInv

\* A client outside a transaction of its own goes to state s of its call.
LEMMA InvOfQuietStep ==
    ASSUME StoreInv, TypeOK', NEW c \in Clients, NEW s, Goto(c, s),
           tables \subseteq tables', UNCHANGED <<rows, writer, pending, acked>>,
           s.pc \in {"down", "creating"} \/ tables' = Tables,
           s.pc = "creating" => "experiments" \in tables',
           CallInv(c)'
    PROVE  StoreInv'
<1>1. client' = [client EXCEPT ![c] = s] /\ client \in [Clients -> Sessions]
  BY DEF Goto, StoreInv, TypeOK
<1>2. client'[c] = s /\ \A d \in Clients \ {c} : client'[d] = client[d]
  BY <1>1
<1>3. /\ At(c, "creating")' => "experiments" \in tables'
      /\ ~(At(c, "down") \/ At(c, "creating"))' => tables' = Tables
  BY <1>2 DEF At
<1>4. writer' = NoClient => pending' = NoRows
  BY DEF StoreInv
<1>5. QED
  BY <1>2, <1>3, <1>4, InvOfStep

\* A client gives up its call.
LEMMA InvOfRollback ==
    ASSUME StoreInv, TypeOK', NEW c \in Clients, NEW s \in {Idle, Down}, Goto(c, s),
           Rollback(c), s = Down \/ tables = Tables
    PROVE  StoreInv'
<1>1. client' = [client EXCEPT ![c] = s] /\ client \in [Clients -> Sessions]
  BY DEF Goto, StoreInv, TypeOK
<1>2. client'[c] = s /\ \A d \in Clients \ {c} : client'[d] = client[d]
  BY <1>1
<1>3. s.pc \in {"idle", "down"} /\ (s = Down => s.pc = "down")
  BY DEF Idle, Down
<1>4. CallInv(c)'
  BY <1>2, <1>3 DEF CallInv, At
<1>5. rows' = rows /\ acked' = acked /\ tables' = tables
  BY DEF Rollback
<1>6. \A d \in Clients \ {c} : At(d, "inserting") => pending' = pending
  BY DEF Rollback, StoreInv, TypeOK
<1>7. writer' = NoClient => pending' = NoRows
  BY DEF Rollback, StoreInv
<1>8. /\ ~At(c, "creating")'
      /\ ~(At(c, "down") \/ At(c, "creating"))' => tables' = Tables
  BY <1>2, <1>3, <1>5 DEF At
<1>9. QED
  BY <1>2, <1>4, <1>5, <1>6, <1>7, <1>8, InvOfStep

\* The transaction is opened by a header under a free identifier.
LEMMA InvInsertHeader ==
    ASSUME StoreInv, TypeOK', NEW c \in Clients, InsertHeader(c)
    PROVE  StoreInv'
<1> DEFINE s == [client[c] EXCEPT !.pc = "inserting"]
<1>1. client[c] \in Sessions /\ client[c].pc = "saving" /\ client \in [Clients -> Sessions]
  BY DEF InsertHeader, At, StoreInv, TypeOK
<1>2. PICK id \in Ids, request \in Requests : client[c].id = id /\ client[c].request = request
  BY <1>1, SessionFields
<1>3. s.pc = "inserting" /\ s.id = id /\ s.request = request
  BY <1>1, <1>2, SaveAdvances
<1>4. /\ client' = [client EXCEPT ![c] = s] /\ writer = NoClient /\ HeadersOf(id) = {}
      /\ pending' = [pending EXCEPT !["experiments"] = {HeaderRow(id, request)}]
      /\ rows' = rows /\ acked' = acked /\ tables' = tables /\ writer' = c
  BY <1>2 DEF InsertHeader, Goto
<1> HIDE DEF s
<1>5. client'[c] = s /\ \A d \in Clients \ {c} : client'[d] = client[d]
  BY <1>1, <1>4
<1>6. /\ pending'["experiments"] = {HeaderRow(id, request)}
      /\ pending'["game_results"] = {}
  BY <1>4 DEF StoreInv, NoRows, Tables
<1>7. OpenTransaction(c)'
  <2>1. IsFiniteSet({}) /\ Cardinality({}) = 0 /\ FirstGames(id, request, 0) = {}
    BY FS_EmptySet DEF FirstGames
  <2>2. HeadersOf(id)' = {}
    BY <1>4, RowsStay
  <2>3. 0 <= request.run.call.games
    BY <1>2, RequestGames
  <2>4. client'[c].id = id /\ client'[c].request = request
    BY <1>3, <1>5
  <2>5. QED
    BY <1>6, <2>1, <2>2, <2>3, <2>4 DEF OpenTransaction
<1>8. CallInv(c)'
  BY <1>3, <1>5, <1>7 DEF CallInv, At
<1>9. tables' = Tables
  BY <1>1, <1>4 DEF StoreInv, SchemaInv, At
<1>10. /\ \A d \in Clients : ~At(d, "inserting")
       /\ writer' # NoClient
  BY <1>4, ClientsAssumption DEF StoreInv, TypeOK
<1>11. QED
  BY <1>4, <1>5, <1>8, <1>9, <1>10, InvOfStep DEF Tables

\* The next game is not among those before it.
LEMMA GameIsNew ==
    ASSUME NEW id, NEW request, NEW m \in Nat
    PROVE  GameRow(id, request, m + 1) \notin FirstGames(id, request, m)
<1>1. \A k \in 1 .. m : GameRow(id, request, k).game_number = k - 1
  BY RowFields
<1>2. GameRow(id, request, m + 1).game_number = m
  BY RowFields
<1>3. QED
  BY <1>1, <1>2 DEF FirstGames

\* One more game is pending.
LEMMA InvInsertGame ==
    ASSUME StoreInv, TypeOK', NEW c \in Clients, InsertGame(c)
    PROVE  StoreInv'
<1>1. client[c] \in Sessions /\ client[c].pc = "inserting" /\ writer = c
  BY DEF InsertGame, At, StoreInv, TypeOK
<1>2. PICK id \in Ids, request \in Requests, games \in {pending["game_results"]},
           m \in {Cardinality(pending["game_results"])} :
         /\ client[c].id = id /\ client[c].request = request
         /\ games = pending["game_results"] /\ m = Cardinality(games)
  BY <1>1, SessionFields
<1> DEFINE row == GameRow(id, request, m + 1)
<1>3. /\ pending["experiments"] = {HeaderRow(id, request)} /\ HeadersOf(id) = {}
      /\ IsFiniteSet(games) /\ m \in Nat /\ games = FirstGames(id, request, m)
  BY <1>1, <1>2 DEF StoreInv, CallInv, OpenTransaction, At
<1>4. /\ pending' = [pending EXCEPT !["game_results"] = @ \cup {row}]
      /\ m + 1 \in DOMAIN request.run.results
      /\ client' = client /\ rows' = rows /\ acked' = acked /\ tables' = tables /\ writer' = writer
  BY <1>2 DEF InsertGame, NextGame, Results
<1>5. pending'["game_results"] = games \cup {row}
      /\ pending'["experiments"] = pending["experiments"]
  BY <1>2, <1>4 DEF StoreInv, TypeOK, Tables
<1> HIDE DEF row
<1>6. row \notin games
  BY <1>3, GameIsNew DEF row
<1>7. IsFiniteSet(games \cup {row}) /\ Cardinality(games \cup {row}) = m + 1
  BY <1>2, <1>3, <1>6, FS_AddElement
<1>8. games \cup {row} = FirstGames(id, request, m + 1)
  <2>1. 1 .. m + 1 = (1 .. m) \cup {m + 1}
    BY <1>3
  <2>2. QED
    BY <1>3, <2>1 DEF FirstGames, row
<1>9. m + 1 <= request.run.call.games
  BY <1>2, <1>3, <1>4, RequestGames
<1>10. OpenTransaction(c)'
  <2>1. HeadersOf(id)' = {} /\ client'[c].id = id /\ client'[c].request = request
    BY <1>2, <1>3, <1>4, RowsStay
  <2>2. /\ IsFiniteSet(pending'["game_results"])
        /\ Cardinality(pending'["game_results"]) = m + 1
        /\ pending'["game_results"] = FirstGames(id, request, m + 1)
    BY <1>5, <1>7, <1>8
  <2>3. pending'["experiments"] = {HeaderRow(id, request)} /\ m + 1 \in Nat
    BY <1>3, <1>5
  <2>4. QED
    BY <1>9, <2>1, <2>2, <2>3 DEF OpenTransaction
<1>11. CallInv(c)'
  BY <1>1, <1>4, <1>10 DEF CallInv, At
<1>12. \A d \in Clients \ {c} : ~At(d, "inserting")
  BY <1>1 DEF StoreInv, TypeOK
<1>13. writer' # NoClient
  BY <1>1, <1>4, ClientsAssumption
<1>14. tables' = Tables
  BY <1>1, <1>4 DEF StoreInv, SchemaInv, At
<1>15. QED
  BY <1>4, <1>11, <1>12, <1>13, <1>14, InvOfStep DEF Tables

\* What a commit does to the rows of each identifier: those of the transaction
\* become a whole experiment, the others stay.
LEMMA CommitRows ==
    ASSUME StoreInv, NEW c \in Clients, Commit(c), NEW i \in Ids, NEW request \in Requests,
           client[c].id = i, client[c].request = request
    PROVE  /\ HeadersOf(i) = {}
           /\ IsStored(i, request)'
           /\ \A id : id # i => HeadersOf(id)' = HeadersOf(id) /\ GamesOf(id)' = GamesOf(id)
<1>1. client[c] \in Sessions /\ client[c].pc = "inserting"
  BY DEF Commit, At, StoreInv, TypeOK
<1>2. PICK n, m :
         /\ n = request.run.call.games /\ m = Cardinality(pending["game_results"])
  OBVIOUS
<1>3. /\ pending["experiments"] = {HeaderRow(i, request)} /\ HeadersOf(i) = {}
      /\ m \in Nat /\ m <= n /\ pending["game_results"] = FirstGames(i, request, m)
  BY <1>1, <1>2 DEF StoreInv, CallInv, OpenTransaction, At
<1>4. m = n
  <2>1. m + 1 \notin 1 .. n
    BY <1>2, RequestGames DEF Commit, NextGame, Results
  <2>2. n \in Nat \ {0}
    BY <1>2, RequestGames
  <2>3. QED
    BY <1>3, <2>1, <2>2
<1>5. /\ rows'["experiments"] = rows["experiments"] \cup {HeaderRow(i, request)}
      /\ rows'["game_results"] = rows["game_results"] \cup FirstGames(i, request, n)
  BY <1>3, <1>4 DEF Commit, Tables
<1>6. GamesOf(i) = {}
  BY <1>3 DEF StoreInv, AllOrNothing, IsStored
<1>7. \A row \in FirstGames(i, request, n) : row.experiment_id = i
  BY RowFields DEF FirstGames
<1>8. HeaderRow(i, request).experiment_id = i
  BY RowFields
<1>9. \A id : id # i => HeadersOf(id)' = HeadersOf(id) /\ GamesOf(id)' = GamesOf(id)
  BY <1>5, <1>7, <1>8 DEF HeadersOf, GamesOf
<1>10. HeadersOf(i)' = {HeaderRow(i, request)}
  BY <1>3, <1>5, <1>8 DEF HeadersOf
<1>11. GamesOf(i)' = FirstGames(i, request, n)
  BY <1>5, <1>6, <1>7 DEF GamesOf
<1>12. IsStored(i, request)'
  BY <1>2, <1>10, <1>11, RequestGames DEF IsStored
<1>13. QED
  BY <1>3, <1>9, <1>12

\* The commit makes the transaction's rows a whole experiment.
LEMMA InvCommit ==
    ASSUME StoreInv, TypeOK', NEW c \in Clients, Commit(c)
    PROVE  StoreInv'
<1> DEFINE s == [client[c] EXCEPT !.pc = "saved"]
<1>1. /\ client[c] \in Sessions /\ client[c].pc = "inserting" /\ writer = c
      /\ client \in [Clients -> Sessions]
  BY DEF Commit, At, StoreInv, TypeOK
<1>2. PICK i \in Ids, request \in Requests : client[c].id = i /\ client[c].request = request
  BY <1>1, SessionFields
<1>3. s.pc = "saved" /\ s.id = i /\ s.request = request
  BY <1>1, <1>2, SaveAdvances
<1>4. /\ client' = [client EXCEPT ![c] = s] /\ pending' = NoRows /\ writer' = NoClient
      /\ tables' = tables /\ acked' = acked
  BY DEF Commit, Goto
<1> HIDE DEF s
<1>5. client'[c] = s /\ \A d \in Clients \ {c} : client'[d] = client[d]
  BY <1>1, <1>4
<1>6. /\ HeadersOf(i) = {} /\ IsStored(i, request)'
      /\ \A id : id # i => HeadersOf(id)' = HeadersOf(id) /\ GamesOf(id)' = GamesOf(id)
  BY <1>2, CommitRows
<1>7. \A id, r : IsStored(id, r) => IsStored(id, r)'
  BY <1>6 DEF IsStored
<1>8. AllOrNothing'
  BY <1>2, <1>6, <1>7 DEF StoreInv, AllOrNothing
<1>9. AckedDurable'
  BY <1>4, <1>7 DEF StoreInv, AckedDurable
<1>10. CallInv(c)'
  BY <1>3, <1>5, <1>6 DEF CallInv, At
<1>11. ASSUME NEW d \in Clients \ {c} PROVE CallInv(d)'
  <2>1. ~At(d, "inserting") /\ client'[d] = client[d] /\ CallInv(d)
    BY <1>1, <1>5 DEF StoreInv, TypeOK
  <2>2. \A id : HeadersOf(id) # {} => HeadersOf(id)' = HeadersOf(id)
    BY <1>6
  <2>3. QED
    BY <1>7, <2>1, <2>2 DEF CallInv, At
<1>12. SchemaInv'
  <2>1. tables = Tables
    BY <1>1 DEF StoreInv, SchemaInv, At
  <2>2. QED
    BY <1>4, <2>1 DEF SchemaInv, Tables
<1>13. QED
  BY <1>4, <1>8, <1>9, <1>10, <1>11, <1>12 DEF StoreInv

\* An identifier is returned for what the commit stored.
LEMMA InvReturnId ==
    ASSUME StoreInv, TypeOK', NEW c \in Clients, ReturnId(c)
    PROVE  StoreInv'
<1>1. /\ client[c] \in Sessions /\ client[c].pc = "saved" /\ client \in [Clients -> Sessions]
      /\ client' = [client EXCEPT ![c] = Idle] /\ UNCHANGED <<tables, rows, writer, pending>>
      /\ acked' = acked \cup {[id |-> client[c].id, request |-> client[c].request]}
  BY DEF ReturnId, At, Goto, StoreInv, TypeOK
<1>2. client'[c] = Idle /\ \A d \in Clients \ {c} : client'[d] = client[d]
  BY <1>1
<1>3. AllOrNothing'
  BY <1>1, RowsStay DEF StoreInv
<1>4. AckedDurable'
  <2>1. IsStored(client[c].id, client[c].request)
    BY <1>1 DEF StoreInv, CallInv, At
  <2>2. \A save \in acked' : IsStored(save.id, save.request)
    BY <1>1, <2>1 DEF StoreInv, AckedDurable
  <2>3. \A id, request : IsStored(id, request)' <=> IsStored(id, request)
    BY <1>1, RowsStay
  <2>4. QED
    BY <2>2, <2>3 DEF AckedDurable
<1>5. CallInv(c)'
  BY <1>2 DEF CallInv, At, Idle
<1>6. ASSUME NEW d \in Clients \ {c} PROVE CallInv(d)'
  BY <1>1, <1>2, CallStays DEF StoreInv
<1>7. SchemaInv'
  <2>1. tables = Tables
    BY <1>1 DEF StoreInv, SchemaInv, At
  <2>2. QED
    BY <1>1, <2>1 DEF SchemaInv, Tables
<1>8. QED
  BY <1>1, <1>3, <1>4, <1>5, <1>6, <1>7 DEF StoreInv

\* A load that begins knows of an identifier only if it was returned, and then
\* there is a header under it.
LEMMA InvBeginLoad ==
    ASSUME StoreInv, TypeOK', NEW c \in Clients, BeginLoad(c)
    PROVE  StoreInv'
<1>1. PICK id \in Ids : Goto(c, [pc |-> "loading", id |-> id, known |-> WasAcked(id)])
  BY DEF BeginLoad
<1>2. PICK s : s = [pc |-> "loading", id |-> id, known |-> WasAcked(id)]
  OBVIOUS
<1>3. WasAcked(id) => HeadersOf(id) # {}
  BY DEF WasAcked, StoreInv, AckedDurable, IsStored
<1>4. Goto(c, s) /\ s.pc = "loading" /\ s.id = id /\ (s.known => HeadersOf(id) # {})
  BY <1>1, <1>2, <1>3
<1>5. UNCHANGED <<tables, rows, writer, pending, acked>> /\ tables = Tables
  BY DEF BeginLoad, At, StoreInv, SchemaInv
<1>6. client'[c] = s
  BY <1>4, Moves DEF StoreInv, TypeOK, Goto
<1>7. HeadersOf(id)' = HeadersOf(id)
  BY <1>5, RowsStay
<1>8. CallInv(c)'
  BY <1>4, <1>6, <1>7 DEF CallInv, At
<1>9. QED
  BY <1>4, <1>5, <1>8, InvOfQuietStep

LEMMA InvSelectHeader ==
    ASSUME StoreInv, TypeOK', NEW c \in Clients, SelectHeader(c)
    PROVE  StoreInv'
<1>1. PICK id \in Ids, known \in BOOLEAN : client[c].id = id /\ client[c].known = known
  BY SessionFields DEF SelectHeader, At, StoreInv, TypeOK
<1>2. client[c].pc = "loading" /\ client \in [Clients -> Sessions]
  BY DEF SelectHeader, At, StoreInv, TypeOK
<1>3. UNCHANGED <<tables, rows, writer, pending, acked>> /\ tables = Tables
  BY DEF SelectHeader, At, StoreInv, SchemaInv
<1>4. HeadersOf(id)' = HeadersOf(id)
  BY <1>3, RowsStay
<1>5. CASE HeadersOf(id) = {} /\ Goto(c, Loaded(client[c], NotFound))
  <2>1. PICK s : s = Loaded(client[c], NotFound)
    OBVIOUS
  <2>2. Goto(c, s) /\ s.pc = "loaded" /\ s.id = id /\ s.known = known /\ s.answer = NotFound
    BY <1>1, <1>5, <2>1 DEF Loaded
  <2>3. client'[c] = s
    BY <1>2, <2>2 DEF Goto
  <2>4. ~known
    BY <1>1, <1>2, <1>5 DEF StoreInv, CallInv, At
  <2>5. CallInv(c)'
    BY <2>2, <2>3, <2>4 DEF CallInv, At
  <2>6. QED
    BY <1>3, <2>2, <2>5, InvOfQuietStep
<1>6. ASSUME NEW row \in HeadersOf(id),
             Goto(c, [pc |-> "header", id |-> id, known |-> known, header |-> row])
      PROVE  StoreInv'
  <2>1. PICK s : s = [pc |-> "header", id |-> id, known |-> known, header |-> row]
    OBVIOUS
  <2>2. Goto(c, s) /\ s.pc = "header" /\ s.id = id /\ s.header = row
    BY <1>6, <2>1
  <2>3. client'[c] = s
    BY <1>2, <2>2 DEF Goto
  <2>4. CallInv(c)'
    BY <1>4, <1>6, <2>2, <2>3 DEF CallInv, At
  <2>5. QED
    BY <1>3, <2>2, <2>4, InvOfQuietStep
<1>7. QED
  BY <1>1, <1>5, <1>6 DEF SelectHeader

LEMMA InvSelectGames ==
    ASSUME StoreInv, TypeOK', NEW c \in Clients, SelectGames(c)
    PROVE  StoreInv'
<1>1. PICK id \in Ids, header \in {client[c].header} : client[c].id = id /\ client[c].header = header
  BY SessionFields DEF SelectGames, At, StoreInv, TypeOK
<1>2. client[c].pc = "header" /\ client \in [Clients -> Sessions]
  BY DEF SelectGames, At, StoreInv, TypeOK
<1>3. UNCHANGED <<tables, rows, writer, pending, acked>> /\ tables = Tables
  BY DEF SelectGames, At, StoreInv, SchemaInv
<1>4. header \in HeadersOf(id)
  BY <1>1, <1>2 DEF StoreInv, CallInv, At
<1>5. PICK answer, s : /\ answer = [experiment |-> header, games |-> GamesOf(id)]
                       /\ s = Loaded(client[c], answer)
  OBVIOUS
<1>6. Goto(c, s) /\ s.pc = "loaded" /\ s.id = id /\ s.answer = answer
  BY <1>1, <1>5 DEF SelectGames, Loaded
<1>7. client'[c] = s
  BY <1>2, <1>6 DEF Goto
<1>8. \E request \in Requests : answer = Stored(id, request)
  BY <1>4, <1>5, HeaderStandsForWhole DEF StoreInv
<1>9. CallInv(c)'
  BY <1>6, <1>7, <1>8 DEF CallInv, At
<1>10. QED
  BY <1>3, <1>6, <1>9, InvOfQuietStep

LEMMA StoreInvNext == StoreInv /\ [Next]_vars => StoreInv'
<1> SUFFICES ASSUME StoreInv, [Next]_vars PROVE StoreInv'
  OBVIOUS
<1>1. TypeOK' /\ client \in [Clients -> Sessions]
  BY TypeNext DEF StoreInv, TypeOK
<1>2. ASSUME NEW c \in Clients, CreateExperiments(c) \/ CreateGameResults(c) PROVE StoreInv'
  <2>1. PICK s : Goto(c, s) /\ s = IF CreateExperiments(c) THEN [pc |-> "creating"] ELSE Idle
    BY <1>2 DEF CreateExperiments, CreateGameResults, At
  <2>2. s.pc = IF CreateExperiments(c) THEN "creating" ELSE "idle"
    BY <2>1 DEF Idle
  <2>3. client'[c] = s
    BY <1>1, <2>1 DEF Goto
  <2>4. CallInv(c)'
    BY <2>2, <2>3 DEF CallInv, At
  <2>5. UNCHANGED <<rows, writer, pending, acked>> /\ tables \subseteq tables'
    BY <1>2 DEF CreateExperiments, CreateGameResults
  <2>6. s.pc = "creating" => "experiments" \in tables'
    BY <2>2 DEF CreateExperiments
  <2>7. s.pc \in {"down", "creating"} \/ tables' = Tables
    BY <1>2, <2>2 DEF CreateGameResults, At, Tables, StoreInv, SchemaInv, TypeOK
  <2>8. QED
    BY <1>1, <2>1, <2>4, <2>5, <2>6, <2>7, InvOfQuietStep
<1>3. ASSUME NEW c \in Clients, BeginSave(c) PROVE StoreInv'
  <2>1. PICK s : Goto(c, s) /\ s.pc = "saving"
    BY <1>3 DEF BeginSave
  <2>2. client'[c] = s
    BY <1>1, <2>1 DEF Goto
  <2>3. CallInv(c)'
    BY <2>1, <2>2 DEF CallInv, At
  <2>4. UNCHANGED <<tables, rows, writer, pending, acked>> /\ tables = Tables
    BY <1>3 DEF BeginSave, At, StoreInv, SchemaInv
  <2>5. QED
    BY <1>1, <2>1, <2>3, <2>4, InvOfQuietStep
<1>4. ASSUME NEW c \in Clients, ReturnAnswer(c) \/ LoadFails(c) PROVE StoreInv'
  <2>1. PICK s : Goto(c, s) /\ s.pc = "idle"
    BY <1>4 DEF ReturnAnswer, LoadFails, Idle
  <2>2. client'[c] = s
    BY <1>1, <2>1 DEF Goto
  <2>3. CallInv(c)'
    BY <2>1, <2>2 DEF CallInv, At
  <2>4. UNCHANGED <<tables, rows, writer, pending, acked>> /\ tables = Tables
    BY <1>4 DEF ReturnAnswer, LoadFails, At, StoreInv, SchemaInv
  <2>5. QED
    BY <1>1, <2>1, <2>3, <2>4, InvOfQuietStep
<1>5. ASSUME NEW c \in Clients, KeyTaken(c) \/ LockTimeout(c) \/ SaveFails(c) PROVE StoreInv'
  <2>1. Goto(c, Idle) /\ Rollback(c)
    BY <1>5 DEF KeyTaken, LockTimeout, SaveFails
  <2>2. tables = Tables
    BY <1>5 DEF KeyTaken, LockTimeout, SaveFails, At, StoreInv, SchemaInv
  <2>3. QED
    BY <1>1, <2>1, <2>2, InvOfRollback
<1>6. ASSUME NEW c \in Clients, Crash(c) PROVE StoreInv'
  BY <1>1, <1>6, InvOfRollback DEF Crash
<1>7. ASSUME NEW c \in Clients, InsertHeader(c) \/ InsertGame(c) \/ Commit(c) \/ ReturnId(c)
      PROVE  StoreInv'
  BY <1>1, <1>7, InvInsertHeader, InvInsertGame, InvCommit, InvReturnId
<1>8. ASSUME NEW c \in Clients, BeginLoad(c) \/ SelectHeader(c) \/ SelectGames(c)
      PROVE  StoreInv'
  BY <1>1, <1>8, InvBeginLoad, InvSelectHeader, InvSelectGames
<1>9. CASE UNCHANGED vars
  <2>1. \A c \in Clients : CallInv(c)'
    BY <1>9, CallStays DEF vars, StoreInv
  <2>2. AllOrNothing' /\ AckedDurable' /\ SchemaInv'
    BY <1>9, RowsStay DEF vars, StoreInv, SchemaInv, At
  <2>3. QED
    BY <1>1, <1>9, <2>1, <2>2 DEF vars, StoreInv
<1>10. QED
  BY <1>2, <1>3, <1>4, <1>5, <1>6, <1>7, <1>8, <1>9 DEF Next, Step

LEMMA StoreInvariant == Spec => []StoreInv
  BY StoreInit, StoreInvNext, PTL DEF Spec

-----------------------------------------------------------------------------
\* However saves interleave, fail and die, the rows of an identifier are those
\* of one whole save.
THEOREM StoredWholeOrNotAtAll == Spec => []AllOrNothing
<1>1. StoreInv => AllOrNothing
  BY DEF StoreInv
<1>2. QED
  BY <1>1, StoreInvariant, PTL

\* What a save returned an identifier for stays in the file.
THEOREM AckedSavesStay == Spec => []AckedDurable
<1>1. StoreInv => AckedDurable
  BY DEF StoreInv
<1>2. QED
  BY <1>1, StoreInvariant, PTL

\* The two SELECTs of a load need no transaction around them.
THEOREM LoadsAreWhole == Spec => []LoadsWhole
<1>1. StoreInv => LoadsWhole
  BY DEF StoreInv, CallInv, LoadsWhole
<1>2. QED
  BY <1>1, StoreInvariant, PTL

\* Every store object finds its tables.
THEOREM SchemaIsReady == Spec => []SchemaReady
<1>1. StoreInv => SchemaReady
  BY DEF StoreInv, SchemaInv, SchemaReady
<1>2. QED
  BY <1>1, StoreInvariant, PTL

-----------------------------------------------------------------------------
(***************************************************************************)
(* What can be read off the rows of an acknowledged save.                   *)
(***************************************************************************)

\* The rows of the games a deck id won, one for each.
LEMMA RowsWon ==
    ASSUME NEW id, NEW request \in Requests, GamesOf(id) = Stored(id, request).games, NEW d
    PROVE  Cardinality({row \in GamesOf(id) : row.winning_deck_id = d})
               = Cardinality(GamesWonBy(request.run.results, d))
<1> DEFINE results == request.run.results
           Won  == GamesWonBy(results, d)
           Rows == {row \in GamesOf(id) : row.winning_deck_id = d}
           f    == [k \in Won |-> GameRow(id, request, k)]
<1>1. request.run.call.games \in Nat /\ DOMAIN results = 1 .. request.run.call.games
  BY RequestGames
<1>2. GamesOf(id) = {GameRow(id, request, k) : k \in DOMAIN results}
  BY DEF Stored
<1>3. \A k : GameRow(id, request, k).winning_deck_id = WinningDeck(results[k])
             /\ GameRow(id, request, k).game_number = k - 1
  BY DEF GameRow
<1>4. Won = {k \in DOMAIN results : WinningDeck(results[k]) = d}
  BY DEF GamesWonBy
<1>5. Won \subseteq 1 .. request.run.call.games
  BY <1>1, <1>4
<1> HIDE DEF results, Won, Rows
<1>6. IsFiniteSet(Won)
  <2>1. IsFiniteSet(1 .. request.run.call.games)
    BY <1>1, FS_Interval
  <2>2. QED
    BY <1>5, <2>1, FS_Subset
<1>7. \A k \in Won : f[k] = GameRow(id, request, k) /\ f[k] \in Rows
  BY <1>2, <1>3, <1>4 DEF Rows
<1>8. \A row \in Rows : \E k \in Won : f[k] = row
  BY <1>2, <1>3, <1>4 DEF Rows
<1>9. \A j, k \in Won : f[j] = f[k] => j = k
  <2> SUFFICES ASSUME NEW j \in Won, NEW k \in Won, f[j] = f[k] PROVE j = k
    OBVIOUS
  <2>1. GameRow(id, request, j) = GameRow(id, request, k)
    BY <1>7
  <2>2. j - 1 = k - 1
    BY <1>3, <2>1
  <2>3. QED
    BY <1>5, <2>2
<1>10. f \in [Won -> Rows]
  BY <1>7
<1>11. f \in Bijection(Won, Rows)
  BY <1>8, <1>9, <1>10 DEF Bijection, Injection, Surjection, IsInjective
<1>12. ExistsBijection(Won, Rows)
  BY <1>11 DEF ExistsBijection
<1>13. Cardinality(Rows) = Cardinality(Won)
  BY <1>6, <1>12, FS_Bijection
<1>14. QED
  BY <1>13 DEF Rows, Won, results

\* The wins of a summary can be counted again from the rows of its games, for any
\* number of games and decks and also when decks share an identifier.
THEOREM StandingsCanBeRecounted == Spec => []StandingsRecoverable
<1>1. ASSUME StoreInv, NEW save \in acked, NEW d \in DOMAIN save.request.run.wins
      PROVE  Cardinality({row \in GamesOf(save.id) : row.winning_deck_id = d})
                 = save.request.run.wins[d]
  <2>1. save.request \in Requests /\ IsStored(save.id, save.request)
    BY <1>1 DEF StoreInv, TypeOK, AckedDurable
  <2>2. GamesOf(save.id) = Stored(save.id, save.request).games
    BY <2>1 DEF IsStored
  <2>3. save.request.run.wins = WinsByDeck(save.request.run.call, save.request.run.results)
    BY <2>1, RequestsAssumption DEF IsRun
  <2>4. save.request.run.wins[d] = Cardinality(GamesWonBy(save.request.run.results, d))
    BY <1>1, <2>3 DEF WinsByDeck
  <2>5. QED
    BY <2>1, <2>2, <2>4, RowsWon
<1>2. StoreInv => StandingsRecoverable
  BY <1>1 DEF StandingsRecoverable
<1>3. QED
  BY <1>2, StoreInvariant, PTL

\* Every game of an experiment saved with its own arguments can be played again
\* from the header and the number of the game.
THEOREM HeadersExplainGames == Spec => []HeaderExplainsGames
<1> DEFINE Explained(header, game) ==
      LET offset == IF header.rotate_seats THEN game.game_number ELSE 0 IN
      /\ game.game_number \in 0 .. header.games - 1
      /\ game.seed = header.seed + game.game_number
      /\ game.deck_ids = Rotate(header.deck_ids, offset)
      /\ game.policy_ids = Rotate(header.policy_ids, offset)
<1>1. ASSUME NEW id, NEW request \in Requests, request.call = request.run.call,
             NEW k \in DOMAIN request.run.results
      PROVE  Explained(HeaderRow(id, request), GameRow(id, request, k))
  <2> DEFINE call == request.call
             result == request.run.results[k]
  <2>1. result = GameResult(call, k - 1, result)
    BY <1>1, RequestsAssumption DEF IsRun
  <2>2. k - 1 \in 0 .. request.run.call.games - 1
    BY <1>1, RequestGames
  <2>3. /\ result.seed = call.seed + (k - 1)
        /\ result.deck_ids = Rotate(call.decks, IF call.rotate_seats THEN k - 1 ELSE 0)
        /\ result.policy_ids = Rotate(call.policies, IF call.rotate_seats THEN k - 1 ELSE 0)
    BY <2>1 DEF GameResult, GameSeed, SeatedDecks, SeatedPolicies, Offset
  <2>4. /\ HeaderRow(id, request).rotate_seats = call.rotate_seats
        /\ HeaderRow(id, request).games = request.run.call.games
        /\ HeaderRow(id, request).seed = call.seed
        /\ HeaderRow(id, request).deck_ids = call.decks
        /\ HeaderRow(id, request).policy_ids = call.policies
    BY DEF HeaderRow
  <2>5. /\ GameRow(id, request, k).game_number = k - 1
        /\ GameRow(id, request, k).seed = result.seed
        /\ GameRow(id, request, k).deck_ids = result.deck_ids
        /\ GameRow(id, request, k).policy_ids = result.policy_ids
    BY DEF GameRow
  <2> HIDE DEF call, result
  <2>6. QED
    BY <2>2, <2>3, <2>4, <2>5
<1> HIDE DEF Explained
<1>2. ASSUME StoreInv, NEW save \in acked, NEW header \in HeadersOf(save.id),
             NEW game \in GamesOf(save.id), save.request.call = save.request.run.call
      PROVE  Explained(header, game)
  <2>1. save.request \in Requests /\ IsStored(save.id, save.request)
    BY <1>2 DEF StoreInv, TypeOK, AckedDurable
  <2>2. header = HeaderRow(save.id, save.request)
    BY <1>2, <2>1 DEF IsStored
  <2>3. PICK k \in DOMAIN save.request.run.results : game = GameRow(save.id, save.request, k)
    BY <1>2, <2>1 DEF IsStored, Stored
  <2>4. QED
    BY <1>1, <1>2, <2>1, <2>2, <2>3
<1>3. StoreInv => HeaderExplainsGames
  BY <1>2 DEF HeaderExplainsGames, Explained
<1>4. QED
  BY <1>3, StoreInvariant, PTL

-----------------------------------------------------------------------------
(***************************************************************************)
(* The store implements the ledger: every step is a step of the ledger or    *)
(* leaves it as it is.                                                       *)
(***************************************************************************)
LedgerOf   == [id \in Ids |-> Filed(id)]
SessionsOf == [c \in Clients |-> SessionOf(client[c])]

\* What a session stands for, by where the call is.
LEMMA SessionOfCases ==
    ASSUME NEW s
    PROVE  /\ s.pc \in {"down", "creating"} => SessionOf(s) = [state |-> "down"]
           /\ s.pc = "idle" => SessionOf(s) = [state |-> "idle"]
           /\ s.pc \in {"saving", "inserting"} =>
                SessionOf(s) = [state |-> "saving", experiment |-> Stored(s.id, s.request)]
           /\ s.pc = "saved" => SessionOf(s) = [state |-> "saved", id |-> s.id]
           /\ s.pc = "loading" => SessionOf(s) = [state |-> "loading", id |-> s.id]
           /\ s.pc = "header" =>
                SessionOf(s) = [state |-> "loaded", id |-> s.id, answer |-> Filed(s.id)]
           /\ s.pc = "loaded" =>
                SessionOf(s) = [state |-> "loaded", id |-> s.id, answer |-> s.answer]
  BY DEF SessionOf

\* A step that leaves the rows alone changes the session of its client only.
LEMMA QuietMapping ==
    ASSUME client \in [Clients -> Sessions], NEW c \in Clients, NEW s, Goto(c, s), rows' = rows
    PROVE  /\ LedgerOf' = LedgerOf
           /\ SessionsOf' = [SessionsOf EXCEPT ![c] = SessionOf(s)]
           /\ SessionsOf[c] = SessionOf(client[c])
<1>1. \A id : HeadersOf(id)' = HeadersOf(id) /\ GamesOf(id)' = GamesOf(id)
  BY RowsStay
<1>2. ASSUME NEW id PROVE Filed(id)' = Filed(id)
  <2>1. PICK headers, games : headers = HeadersOf(id) /\ games = GamesOf(id)
    OBVIOUS
  <2>2. headers = HeadersOf(id)' /\ games = GamesOf(id)'
    BY <1>1, <2>1
  <2>3. Filed(id) = IF headers = {} THEN NotFound
                    ELSE [experiment |-> CHOOSE row \in headers : TRUE, games |-> games]
    BY <2>1 DEF Filed
  <2>4. Filed(id)' = IF headers = {} THEN NotFound
                     ELSE [experiment |-> CHOOSE row \in headers : TRUE, games |-> games]
    BY <2>2 DEF Filed
  <2>5. QED
    BY <2>3, <2>4
<1>3. \A x : SessionOf(x)' = SessionOf(x)
  BY <1>2 DEF SessionOf
<1>4. client'[c] = s /\ \A d \in Clients \ {c} : client'[d] = client[d]
  BY DEF Goto
<1>5. QED
  BY <1>2, <1>3, <1>4 DEF LedgerOf, SessionsOf

\* The header found, the games that go with it are what is filed.
LEMMA FiledIs ==
    ASSUME NEW id, NEW header, HeadersOf(id) = {header}
    PROVE  Filed(id) = [experiment |-> header, games |-> GamesOf(id)]
<1>1. (CHOOSE row \in HeadersOf(id) : TRUE) = header
  OBVIOUS
<1>2. QED
  BY <1>1 DEF Filed

\* What the ledger is to do when the store takes a step.
LedgerStep == [Ledger!Next]_(Ledger!ledgerVars)

\* Steps of the ledger that leave what is filed alone.
LEMMA LedgerMoves ==
    ASSUME NEW c \in Clients, NEW t, LedgerOf' = LedgerOf,
           SessionsOf' = [SessionsOf EXCEPT ![c] = t],
           \/ t = SessionsOf[c]
           \/ t = [state |-> "down"]
           \/ /\ \/ SessionsOf[c].state \in {"saving", "saved", "loading", "loaded"}
                 \/ SessionsOf[c] = [state |-> "down"]
              /\ t = [state |-> "idle"]
           \/ /\ SessionsOf[c] = [state |-> "idle"]
              /\ \/ \E id \in Ids, request \in Requests :
                       t = [state |-> "saving", experiment |-> Stored(id, request)]
                 \/ \E id \in Ids : t = [state |-> "loading", id |-> id]
           \/ /\ SessionsOf[c].state = "loading"
              /\ t = [state |-> "loaded", id |-> SessionsOf[c].id,
                      answer |-> LedgerOf[SessionsOf[c].id]]
    PROVE  LedgerStep
<1> DEFINE ledgerNow == LedgerOf
           sessions  == SessionsOf
<1>1. CASE t = sessions[c]
  <2>1. SessionsOf' = SessionsOf
    BY <1>1 DEF SessionsOf
  <2>2. QED
    BY <2>1 DEF LedgerStep, Ledger!ledgerVars, LedgerOf, SessionsOf
<1>2. CASE t # sessions[c] /\ t = [state |-> "down"]
  <2>1. Ledger!Crash(c)
    BY <1>2 DEF Ledger!Crash, Ledger!Become, Ledger!Down, LedgerOf, SessionsOf
  <2>2. QED
    BY <2>1 DEF LedgerStep, Ledger!Next
<1>3. CASE sessions[c] = [state |-> "down"] /\ t = [state |-> "idle"]
  <2>1. Ledger!Open(c)
    BY <1>3 DEF Ledger!Open, Ledger!Become, Ledger!Down, Ledger!Idle, LedgerOf, SessionsOf
  <2>2. QED
    BY <2>1 DEF LedgerStep, Ledger!Next
<1>4. CASE sessions[c].state \in {"saving", "loading", "loaded"} /\ t = [state |-> "idle"]
  <2>1. Ledger!Fail(c)
    BY <1>4 DEF Ledger!Fail, Ledger!Become, Ledger!Idle, LedgerOf, SessionsOf
  <2>2. QED
    BY <2>1 DEF LedgerStep, Ledger!Next
<1>5. CASE sessions[c].state = "saved" /\ t = [state |-> "idle"]
  <2>1. Ledger!Answer(c)
    BY <1>5 DEF Ledger!Answer, Ledger!Become, Ledger!Idle, LedgerOf, SessionsOf
  <2>2. QED
    BY <2>1 DEF LedgerStep, Ledger!Next
<1>6. ASSUME sessions[c] = [state |-> "idle"], NEW id \in Ids, NEW request \in Requests,
             t = [state |-> "saving", experiment |-> Stored(id, request)]
      PROVE  LedgerStep
  <2>1. PICK e : e = Stored(id, request)
    OBVIOUS
  <2>2. e \in {Stored(i, r) : i \in Ids, r \in Requests}
    BY <2>1
  <2>3. Ledger!Become(c, Ledger!Saving(e)) /\ SessionsOf[c] = Ledger!Idle
    BY <1>6, <2>1 DEF Ledger!Become, Ledger!Idle, Ledger!Saving, SessionsOf
  <2>4. Ledger!AskSave(c)
    BY <2>2, <2>3 DEF Ledger!AskSave, LedgerOf, SessionsOf
  <2>5. QED
    BY <2>4 DEF LedgerStep, Ledger!Next
<1>7. ASSUME sessions[c] = [state |-> "idle"], NEW id \in Ids,
             t = [state |-> "loading", id |-> id]
      PROVE  LedgerStep
  <2>1. Ledger!AskLoad(c)
    BY <1>7 DEF Ledger!AskLoad, Ledger!Become, Ledger!Idle, Ledger!Loading, LedgerOf, SessionsOf
  <2>2. QED
    BY <2>1 DEF LedgerStep, Ledger!Next
<1>8. CASE /\ sessions[c].state = "loading"
           /\ t = [state |-> "loaded", id |-> sessions[c].id,
                   answer |-> ledgerNow[sessions[c].id]]
  <2>1. Ledger!LookUp(c)
    BY <1>8 DEF Ledger!LookUp, Ledger!Become, Ledger!Loaded, LedgerOf, SessionsOf
  <2>2. QED
    BY <2>1 DEF LedgerStep, Ledger!Next
<1>9. QED
  BY <1>1, <1>2, <1>3, <1>4, <1>5, <1>6, <1>7, <1>8

LEMMA MapsInit == Init => Ledger!Init
<1> SUFFICES ASSUME Init PROVE Ledger!Init
  OBVIOUS
<1>1. \A id \in Ids : Filed(id) = NotFound
  BY DEF Init, NoRows, Tables, HeadersOf, Filed
<1>2. \A c \in Clients : SessionOf(client[c]) = [state |-> "down"]
  BY SessionOfCases DEF Init, Down
<1>3. QED
  BY <1>1, <1>2 DEF Ledger!Init, Ledger!Down


\* A quiet step of the store, by where the call of its client goes.
LEMMA QuietStepMaps ==
    ASSUME StoreInv, NEW c \in Clients, NEW s, Goto(c, s), rows' = rows,
           \/ s.pc \in {"down", "creating"}
           \/ /\ client[c].pc \in {"creating", "saving", "inserting", "saved", "loading",
                                   "header", "loaded"}
              /\ s.pc = "idle"
           \/ /\ client[c].pc = "idle" /\ s.pc \in {"saving", "loading"} /\ s \in Sessions
           \/ /\ client[c].pc = "saving" /\ s.pc = "inserting"
              /\ s.id = client[c].id /\ s.request = client[c].request
           \/ /\ client[c].pc = "loading" /\ s.id = client[c].id
              /\ \/ s.pc = "header"
                 \/ s.pc = "loaded" /\ s.answer = Filed(s.id)
           \/ /\ client[c].pc = "header" /\ s.pc = "loaded" /\ s.id = client[c].id
              /\ s.answer = Filed(s.id)
    PROVE  LedgerStep
<1>1. PICK t : t = SessionOf(s)
  OBVIOUS
<1>2. /\ LedgerOf' = LedgerOf /\ SessionsOf' = [SessionsOf EXCEPT ![c] = t]
      /\ SessionsOf[c] = SessionOf(client[c])
  BY <1>1, QuietMapping DEF StoreInv, TypeOK
<1>3. client[c] \in Sessions
  BY DEF StoreInv, TypeOK
<1>4. CASE s.pc \in {"down", "creating"}
  BY <1>1, <1>2, <1>4, SessionOfCases, LedgerMoves
<1>5. CASE /\ client[c].pc \in {"creating", "saving", "inserting", "saved", "loading",
                                "header", "loaded"}
           /\ s.pc = "idle"
  <2>1. t = [state |-> "idle"]
    BY <1>1, <1>5, SessionOfCases
  <2>2. \/ SessionsOf[c].state \in {"saving", "saved", "loading", "loaded"}
        \/ SessionsOf[c] = [state |-> "down"]
    BY <1>2, <1>5, SessionOfCases
  <2>3. QED
    BY <1>2, <2>1, <2>2, LedgerMoves
<1>6. CASE client[c].pc = "idle" /\ s.pc \in {"saving", "loading"} /\ s \in Sessions
  <2>1. SessionsOf[c] = [state |-> "idle"]
    BY <1>2, <1>6, SessionOfCases
  <2>2. CASE s.pc = "saving"
    <3>1. PICK i \in Ids, r \in Requests : s.id = i /\ s.request = r
      BY <1>6, <2>2, SessionFields
    <3>2. t = [state |-> "saving", experiment |-> Stored(i, r)]
      BY <1>1, <2>2, <3>1, SessionOfCases
    <3>3. QED
      BY <1>2, <2>1, <3>2, LedgerMoves
  <2>3. CASE s.pc = "loading"
    <3>1. PICK i \in Ids : s.id = i
      BY <1>6, <2>3, SessionFields
    <3>2. t = [state |-> "loading", id |-> i]
      BY <1>1, <2>3, <3>1, SessionOfCases
    <3>3. QED
      BY <1>2, <2>1, <3>2, LedgerMoves
  <2>4. QED
    BY <1>6, <2>2, <2>3
<1>7. CASE /\ client[c].pc = "saving" /\ s.pc = "inserting"
           /\ s.id = client[c].id /\ s.request = client[c].request
  <2>1. t = SessionsOf[c]
    BY <1>1, <1>2, <1>7, SessionOfCases
  <2>2. QED
    BY <1>2, <2>1, LedgerMoves
<1>8. CASE /\ client[c].pc = "loading" /\ s.id = client[c].id
           /\ \/ s.pc = "header"
              \/ s.pc = "loaded" /\ s.answer = Filed(s.id)
  <2>1. PICK i \in Ids : client[c].id = i
    BY <1>3, <1>8, SessionFields
  <2>2. SessionsOf[c] = [state |-> "loading", id |-> i]
    BY <1>2, <1>8, <2>1, SessionOfCases
  <2>3. t = [state |-> "loaded", id |-> i, answer |-> Filed(i)]
    BY <1>1, <1>8, <2>1, SessionOfCases
  <2>4. LedgerOf[i] = Filed(i)
    BY DEF LedgerOf
  <2>5. /\ SessionsOf[c].state = "loading"
        /\ t = [state |-> "loaded", id |-> SessionsOf[c].id,
                answer |-> LedgerOf[SessionsOf[c].id]]
    BY <2>2, <2>3, <2>4
  <2>6. QED
    BY <1>2, <2>5, LedgerMoves
<1>9. CASE /\ client[c].pc = "header" /\ s.pc = "loaded" /\ s.id = client[c].id
           /\ s.answer = Filed(s.id)
  <2>1. t = SessionsOf[c]
    BY <1>1, <1>2, <1>9, SessionOfCases
  <2>2. QED
    BY <1>2, <2>1, LedgerMoves
<1>10. QED
  BY <1>4, <1>5, <1>6, <1>7, <1>8, <1>9


\* What is filed under the other identifiers, and what the other clients'
\* sessions stand for, is not touched by a commit.
LEMMA CommitMapping ==
    ASSUME StoreInv, NEW c \in Clients, Commit(c), NEW i \in Ids, NEW request \in Requests,
           client[c].id = i, client[c].request = request
    PROVE  /\ LedgerOf[i] = NotFound
           /\ LedgerOf' = [LedgerOf EXCEPT ![i] = Stored(i, request)]
           /\ SessionsOf[c] = [state |-> "saving", experiment |-> Stored(i, request)]
           /\ SessionsOf' = [SessionsOf EXCEPT ![c] = [state |-> "saved", id |-> i]]
<1>1. /\ HeadersOf(i) = {} /\ HeadersOf(i)' = {HeaderRow(i, request)}
      /\ GamesOf(i)' = Stored(i, request).games
      /\ \A id : id # i => HeadersOf(id)' = HeadersOf(id) /\ GamesOf(id)' = GamesOf(id)
  BY CommitRows DEF IsStored
<1>2. /\ client[c] \in Sessions /\ client[c].pc = "inserting" /\ client \in [Clients -> Sessions]
      /\ client' = [client EXCEPT ![c] = [client[c] EXCEPT !.pc = "saved"]]
  BY DEF Commit, At, Goto, StoreInv, TypeOK
<1>3. PICK s : /\ s = [client[c] EXCEPT !.pc = "saved"] /\ s.pc = "saved" /\ s.id = i
  BY <1>2, SaveAdvances
<1>4. client'[c] = s /\ \A d \in Clients \ {c} : client'[d] = client[d]
  BY <1>2, <1>3
<1>5. Filed(i) = NotFound
  BY <1>1 DEF Filed
<1>6. Filed(i)' = Stored(i, request)
  <2>1. PICK headers, games : headers = HeadersOf(i)' /\ games = GamesOf(i)'
    OBVIOUS
  <2>2. Filed(i)' = IF headers = {} THEN NotFound
                    ELSE [experiment |-> CHOOSE row \in headers : TRUE, games |-> games]
    BY <2>1 DEF Filed
  <2>3. headers = {HeaderRow(i, request)} /\ games = Stored(i, request).games
    BY <1>1, <2>1
  <2>4. (CHOOSE row \in headers : TRUE) = HeaderRow(i, request)
    BY <2>3
  <2>5. QED
    BY <2>2, <2>3, <2>4 DEF Stored
<1>7. ASSUME NEW id, id # i PROVE Filed(id)' = Filed(id)
  <2>1. PICK headers, games : headers = HeadersOf(id) /\ games = GamesOf(id)
    OBVIOUS
  <2>2. headers = HeadersOf(id)' /\ games = GamesOf(id)'
    BY <1>1, <1>7, <2>1
  <2>3. Filed(id) = IF headers = {} THEN NotFound
                    ELSE [experiment |-> CHOOSE row \in headers : TRUE, games |-> games]
    BY <2>1 DEF Filed
  <2>4. Filed(id)' = IF headers = {} THEN NotFound
                     ELSE [experiment |-> CHOOSE row \in headers : TRUE, games |-> games]
    BY <2>2 DEF Filed
  <2>5. QED
    BY <2>3, <2>4
<1>8. LedgerOf' = [LedgerOf EXCEPT ![i] = Stored(i, request)]
  BY <1>6, <1>7 DEF LedgerOf
<1>9. SessionOf(s)' = [state |-> "saved", id |-> i]
  BY <1>3 DEF SessionOf
<1>10. ASSUME NEW d \in Clients \ {c} PROVE SessionOf(client[d])' = SessionOf(client[d])
  <2>1. PICK x : x = client[d] /\ x = client'[d]
    BY <1>4
  <2>2. x.pc = "header" => x.id # i
    <3>1. x.pc = "header" => x.header \in HeadersOf(x.id)
      BY <2>1 DEF StoreInv, CallInv, At
    <3>2. QED
      BY <1>1, <3>1
  <2>3. x.pc = "header" => Filed(x.id)' = Filed(x.id)
    BY <1>7, <2>2
  <2>4. SessionOf(x)' = SessionOf(x)
    BY <2>3 DEF SessionOf
  <2>5. QED
    BY <2>1, <2>4
<1>11. SessionsOf' = [SessionsOf EXCEPT ![c] = [state |-> "saved", id |-> i]]
  <2>1. SessionOf(client[c])' = [state |-> "saved", id |-> i]
    BY <1>4, <1>9
  <2>2. QED
    BY <1>10, <2>1 DEF SessionsOf
<1>12. SessionsOf[c] = [state |-> "saving", experiment |-> Stored(i, request)]
  BY <1>2, SessionOfCases DEF SessionsOf
<1>13. QED
  BY <1>5, <1>8, <1>11, <1>12 DEF LedgerOf

\* A commit files the experiment.
LEMMA CommitMaps ==
    ASSUME StoreInv, NEW c \in Clients, Commit(c)
    PROVE  LedgerStep
<1>1. PICK i \in Ids, request \in Requests : client[c].id = i /\ client[c].request = request
  BY SessionFields DEF Commit, At, StoreInv, TypeOK
<1>2. /\ LedgerOf[i] = NotFound
      /\ LedgerOf' = [LedgerOf EXCEPT ![i] = Stored(i, request)]
      /\ SessionsOf[c] = [state |-> "saving", experiment |-> Stored(i, request)]
      /\ SessionsOf' = [SessionsOf EXCEPT ![c] = [state |-> "saved", id |-> i]]
  BY <1>1, CommitMapping
<1>3. /\ SessionsOf[c].state = "saving"
      /\ LedgerOf' = [LedgerOf EXCEPT ![i] = SessionsOf[c].experiment]
  BY <1>2
<1>4. Ledger!File(c)
  BY <1>2, <1>3 DEF Ledger!File, Ledger!Become, Ledger!Saved, LedgerOf, SessionsOf
<1>5. QED
  BY <1>4 DEF LedgerStep, Ledger!Next


\* A load that found no header answers with what is filed under its identifier,
\* which is nothing; one that found a header finds the games that go with it.
LEMMA LoadAnswers ==
    ASSUME StoreInv, NEW c \in Clients, SelectHeader(c) \/ SelectGames(c)
    PROVE  LedgerStep
<1>1. /\ client[c] \in Sessions /\ client[c].pc \in {"loading", "header"}
      /\ rows' = rows
  BY DEF SelectHeader, SelectGames, At, StoreInv, TypeOK
<1>2. PICK id \in Ids : client[c].id = id
  BY <1>1, SessionFields
<1>3. CASE SelectHeader(c) /\ HeadersOf(id) = {} /\ Goto(c, Loaded(client[c], NotFound))
  <2>1. PICK s : s = Loaded(client[c], NotFound)
    OBVIOUS
  <2>2. Goto(c, s) /\ s.pc = "loaded" /\ s.id = client[c].id /\ s.answer = NotFound
    BY <1>3, <2>1 DEF Loaded
  <2>3. Filed(id) = NotFound
    BY <1>3 DEF Filed
  <2>4. client[c].pc = "loading"
    BY <1>3 DEF SelectHeader, At
  <2>5. s.answer = Filed(s.id)
    BY <1>2, <2>2, <2>3
  <2>6. QED
    BY <1>1, <2>2, <2>4, <2>5, QuietStepMaps
<1>4. ASSUME SelectHeader(c), NEW row,
             Goto(c, [pc |-> "header", id |-> client[c].id, known |-> client[c].known,
                      header |-> row])
      PROVE  LedgerStep
  <2>1. PICK s : s = [pc |-> "header", id |-> client[c].id, known |-> client[c].known,
                      header |-> row]
    OBVIOUS
  <2>2. Goto(c, s) /\ s.pc = "header" /\ s.id = client[c].id
    BY <1>4, <2>1
  <2>3. client[c].pc = "loading"
    BY <1>4 DEF SelectHeader, At
  <2>4. QED
    BY <1>1, <2>2, <2>3, QuietStepMaps
<1>5. CASE SelectGames(c)
  <2>1. PICK header \in {client[c].header} : client[c].header = header
    OBVIOUS
  <2>2. client[c].pc = "header" /\ header \in HeadersOf(id)
    BY <1>2, <1>5, <2>1 DEF SelectGames, At, StoreInv, CallInv
  <2>3. HeadersOf(id) = {header}
    BY <1>2, <2>2 DEF StoreInv, AllOrNothing, IsStored
  <2>4. PICK answer, s : /\ answer = [experiment |-> header, games |-> GamesOf(id)]
                         /\ s = Loaded(client[c], answer)
    OBVIOUS
  <2>5. Goto(c, s) /\ s.pc = "loaded" /\ s.id = client[c].id /\ s.answer = answer
    BY <1>2, <1>5, <2>1, <2>4 DEF SelectGames, Loaded
  <2>6. Filed(id) = answer
    BY <2>3, <2>4, FiledIs
  <2>7. s.answer = Filed(s.id)
    BY <1>2, <2>5, <2>6
  <2>8. QED
    BY <1>1, <2>2, <2>5, <2>7, QuietStepMaps
<1>6. QED
  BY <1>2, <1>3, <1>4, <1>5 DEF SelectHeader

\* Every step of the store is one of the ledger, or leaves it as it is.
LEMMA MapsNext == StoreInv /\ [Next]_vars => LedgerStep
<1> SUFFICES ASSUME StoreInv, [Next]_vars PROVE LedgerStep
  OBVIOUS
<1>1. client \in [Clients -> Sessions]
  BY DEF StoreInv, TypeOK
<1>2. ASSUME NEW c \in Clients, CreateExperiments(c) \/ CreateGameResults(c) PROVE LedgerStep
  <2>1. CASE CreateExperiments(c)
    <3>1. PICK s : s = [pc |-> "creating"]
      OBVIOUS
    <3>2. Goto(c, s) /\ s.pc = "creating" /\ rows' = rows
      BY <2>1, <3>1 DEF CreateExperiments
    <3>3. QED
      BY <3>2, QuietStepMaps
  <2>2. CASE CreateGameResults(c)
    <3>1. Goto(c, Idle) /\ Idle.pc = "idle" /\ rows' = rows /\ client[c].pc = "creating"
      BY <2>2 DEF CreateGameResults, At, Idle
    <3>2. QED
      BY <3>1, QuietStepMaps
  <2>3. QED
    BY <1>2, <2>1, <2>2
<1>3. ASSUME NEW c \in Clients, BeginSave(c) PROVE LedgerStep
  <2>1. PICK request \in Requests, id \in Ids :
           Goto(c, [pc |-> "saving", request |-> request, id |-> id])
    BY <1>3 DEF BeginSave
  <2>2. PICK s : s = [pc |-> "saving", request |-> request, id |-> id]
    OBVIOUS
  <2>3. Goto(c, s) /\ s.pc = "saving" /\ s \in Sessions
    BY <2>1, <2>2 DEF Sessions
  <2>4. client[c].pc = "idle" /\ rows' = rows
    BY <1>3 DEF BeginSave, At
  <2>5. QED
    BY <2>3, <2>4, QuietStepMaps
<1>4. ASSUME NEW c \in Clients, BeginLoad(c) PROVE LedgerStep
  <2>1. PICK id \in Ids, known \in BOOLEAN :
           Goto(c, [pc |-> "loading", id |-> id, known |-> known])
    BY <1>4 DEF BeginLoad, WasAcked
  <2>2. PICK s : s = [pc |-> "loading", id |-> id, known |-> known]
    OBVIOUS
  <2>3. Goto(c, s) /\ s.pc = "loading" /\ s \in Sessions
    BY <2>1, <2>2 DEF Sessions
  <2>4. client[c].pc = "idle" /\ rows' = rows
    BY <1>4 DEF BeginLoad, At
  <2>5. QED
    BY <2>3, <2>4, QuietStepMaps
<1>5. ASSUME NEW c \in Clients,
             \/ KeyTaken(c) \/ LockTimeout(c) \/ SaveFails(c)
             \/ ReturnId(c) \/ ReturnAnswer(c) \/ LoadFails(c)
      PROVE  LedgerStep
  <2>1. Goto(c, Idle) /\ Idle.pc = "idle" /\ rows' = rows
    BY <1>5 DEF KeyTaken, LockTimeout, SaveFails, ReturnId, ReturnAnswer, LoadFails,
                Rollback, Idle
  <2>2. client[c].pc \in {"saving", "inserting", "saved", "loading", "header", "loaded"}
    BY <1>5 DEF KeyTaken, LockTimeout, SaveFails, ReturnId, ReturnAnswer, LoadFails, At
  <2>3. QED
    BY <2>1, <2>2, QuietStepMaps
<1>6. ASSUME NEW c \in Clients, Crash(c) PROVE LedgerStep
  <2>1. Goto(c, Down) /\ Down.pc = "down" /\ rows' = rows
    BY <1>6 DEF Crash, Rollback, Down
  <2>2. QED
    BY <2>1, QuietStepMaps
<1>7. ASSUME NEW c \in Clients, InsertHeader(c) PROVE LedgerStep
  <2>1. PICK s : s = [client[c] EXCEPT !.pc = "inserting"]
    OBVIOUS
  <2>2. client[c].pc = "saving" /\ client[c] \in Sessions /\ rows' = rows /\ Goto(c, s)
    BY <1>1, <1>7, <2>1 DEF InsertHeader, At
  <2>3. s.pc = "inserting" /\ s.id = client[c].id /\ s.request = client[c].request
    BY <2>1, <2>2, SaveAdvances
  <2>4. QED
    BY <2>2, <2>3, QuietStepMaps
<1>8. ASSUME NEW c \in Clients, InsertGame(c) PROVE LedgerStep
  <2>1. Goto(c, client[c]) /\ rows' = rows
    BY <1>1, <1>8 DEF InsertGame, Goto
  <2>2. PICK s : s = client[c]
    OBVIOUS
  <2>3. LedgerOf' = LedgerOf /\ SessionsOf' = [SessionsOf EXCEPT ![c] = SessionOf(s)]
        /\ SessionsOf[c] = SessionOf(s)
    BY <1>1, <2>1, <2>2, QuietMapping
  <2>4. QED
    BY <2>3, LedgerMoves
<1>9. ASSUME NEW c \in Clients, Commit(c) PROVE LedgerStep
  BY <1>9, CommitMaps
<1>10. ASSUME NEW c \in Clients, SelectHeader(c) \/ SelectGames(c) PROVE LedgerStep
  BY <1>10, LoadAnswers
<1>11. CASE UNCHANGED vars
  <2>1. LedgerOf' = LedgerOf /\ SessionsOf' = SessionsOf
    BY <1>11 DEF vars, LedgerOf, SessionsOf, SessionOf, Filed, HeadersOf, GamesOf
  <2>2. QED
    BY <2>1 DEF LedgerStep, Ledger!ledgerVars, LedgerOf, SessionsOf
<1>12. QED
  BY <1>2, <1>3, <1>4, <1>5, <1>6, <1>7, <1>8, <1>9, <1>10, <1>11 DEF Next, Step

\* Every behaviour of the store is one of the ledger: whatever programs on one
\* file do and whenever they fail or die, a save files its experiment at one
\* instant or not at all, and a load answers with what was filed at one instant
\* of the call.
THEOREM StoreImplementsLedger == Spec => ImplementsLedger
<1>1. Spec => Init /\ []StoreInv /\ [][Next]_vars
  BY StoreInvariant DEF Spec
<1>2. Init => Ledger!Init
  BY MapsInit
<1>3. StoreInv /\ [Next]_vars => [Ledger!Next]_(Ledger!ledgerVars)
  BY MapsNext DEF LedgerStep
<1>4. QED
  BY <1>1, <1>2, <1>3, PTL DEF ImplementsLedger, Ledger!Spec

-----------------------------------------------------------------------------
(***************************************************************************)
(* What lasts.                                                             *)
(***************************************************************************)

\* No step of any program changes or removes an experiment that is in the file, whether
\* its save was acknowledged or not: rows are only ever added, and under the identifier
\* of a transaction that found none (save_experiment has no UPDATE, DELETE or REPLACE).
ExperimentsStay ==
    [][\A id \in Ids :
          HeadersOf(id) # {} => HeadersOf(id)' = HeadersOf(id) /\ GamesOf(id)' = GamesOf(id)]_vars

LEMMA StepKeepsExperiments ==
    ASSUME StoreInv, [Next]_vars, NEW id \in Ids, HeadersOf(id) # {}
    PROVE  HeadersOf(id)' = HeadersOf(id) /\ GamesOf(id)' = GamesOf(id)
<1>1. ASSUME NEW c \in Clients, Commit(c)
      PROVE  HeadersOf(id)' = HeadersOf(id) /\ GamesOf(id)' = GamesOf(id)
  <2>1. client[c] \in Sessions /\ client[c].pc = "inserting"
    BY <1>1 DEF Commit, At, StoreInv, TypeOK
  <2>2. PICK i \in Ids, request \in Requests : client[c].id = i /\ client[c].request = request
    BY <2>1, SessionFields
  <2>3. QED
    BY <1>1, <2>2, CommitRows
<1>2. ASSUME NEW c \in Clients,
             \/ CreateExperiments(c) \/ CreateGameResults(c) \/ BeginSave(c) \/ BeginLoad(c)
             \/ InsertHeader(c) \/ KeyTaken(c) \/ LockTimeout(c) \/ InsertGame(c) \/ ReturnId(c)
             \/ SelectHeader(c) \/ SelectGames(c) \/ ReturnAnswer(c)
             \/ SaveFails(c) \/ LoadFails(c) \/ Crash(c)
      PROVE  rows' = rows
  BY <1>2
  DEF CreateExperiments, CreateGameResults, BeginSave, BeginLoad, InsertHeader, KeyTaken,
      LockTimeout, InsertGame, ReturnId, SelectHeader, SelectGames, ReturnAnswer, SaveFails,
      LoadFails, Crash, Rollback
<1>3. (\E c \in Clients : Commit(c)) \/ rows' = rows
  BY <1>2 DEF Next, Step, vars
<1>4. QED
  BY <1>1, <1>3, RowsStay

\* Whatever programs do on the file, an experiment in it stays as it is.
THEOREM ExperimentsStayForGood == Spec => ExperimentsStay
<1>1. StoreInv /\ [Next]_vars
         => [\A id \in Ids : HeadersOf(id) # {}
                => HeadersOf(id)' = HeadersOf(id) /\ GamesOf(id)' = GamesOf(id)]_vars
  BY StepKeepsExperiments
<1>2. QED
  BY <1>1, StoreInvariant, PTL DEF Spec, ExperimentsStay

\* The answer of a load is what the file still holds.
AnswerHolds(c) ==
    At(c, "loaded") =>
        \/ client[c].answer = NotFound /\ ~client[c].known
        \/ \E header \in HeadersOf(client[c].id) :
              client[c].answer = [experiment |-> header, games |-> GamesOf(client[c].id)]

AnswersHold == \A c \in Clients : AnswerHolds(c)

LEMMA AnswerHoldsNext ==
    ASSUME StoreInv, [Next]_vars, NEW c \in Clients, AnswerHolds(c)
    PROVE  AnswerHolds(c)'
<1> SUFFICES ASSUME At(c, "loaded")' PROVE AnswerHolds(c)'
  BY DEF AnswerHolds
<1>1. client \in [Clients -> Sessions] /\ client[c] \in Sessions
  BY DEF StoreInv, TypeOK
<1>2. CASE client'[c] = client[c]
  <2>1. At(c, "loaded")
    BY <1>2 DEF At
  <2>2. client[c].id \in Ids
    BY <1>1, <2>1, SessionFields DEF At
  <2>3. CASE client[c].answer = NotFound /\ ~client[c].known
    BY <1>2, <2>3 DEF AnswerHolds
  <2>4. CASE \E header \in HeadersOf(client[c].id) :
                client[c].answer = [experiment |-> header, games |-> GamesOf(client[c].id)]
    <3>1. PICK id \in Ids : id = client[c].id
      BY <2>2
    <3>2. HeadersOf(id)' = HeadersOf(id) /\ GamesOf(id)' = GamesOf(id)
      BY <2>4, <3>1, StepKeepsExperiments
    <3>3. \E header \in HeadersOf(id)' : client'[c].answer = [experiment |-> header, games |-> GamesOf(id)']
      BY <1>2, <2>4, <3>1, <3>2
    <3>4. client'[c].id = id
      BY <1>2, <3>1
    <3>5. QED
      BY <3>3, <3>4 DEF AnswerHolds
  <2>5. QED
    BY <2>1, <2>3, <2>4 DEF AnswerHolds
<1>3. CASE client'[c] # client[c]
  <2>1. SelectHeader(c) \/ SelectGames(c)
    <3>1. PICK d \in Clients :
             \/ CreateExperiments(d) \/ CreateGameResults(d) \/ BeginSave(d) \/ BeginLoad(d)
             \/ Step(d) \/ SaveFails(d) \/ LoadFails(d) \/ Crash(d)
      BY <1>3 DEF Next, vars
    <3>2. ASSUME NEW s, Goto(d, s), s.pc # "loaded" PROVE FALSE
      <4>1. client'[d] = s /\ (c # d => client'[c] = client[c])
        BY <1>1, <3>2 DEF Goto
      <4>2. QED
        BY <1>3, <3>2, <4>1 DEF At
    <3>3. Idle.pc = "idle" /\ Down.pc = "down"
      BY DEF Idle, Down
    <3>4. ASSUME \/ CreateGameResults(d) \/ KeyTaken(d) \/ LockTimeout(d) \/ ReturnId(d)
                 \/ ReturnAnswer(d) \/ SaveFails(d) \/ LoadFails(d) \/ Crash(d)
          PROVE  FALSE
      <4>1. Goto(d, Idle) \/ Goto(d, Down)
        BY <3>4 DEF CreateGameResults, KeyTaken, LockTimeout, ReturnId, ReturnAnswer,
                    SaveFails, LoadFails, Crash
      <4>2. QED
        BY <3>2, <3>3, <4>1
    <3>5. ~CreateExperiments(d) /\ ~BeginSave(d) /\ ~BeginLoad(d)
      <4>1. ASSUME CreateExperiments(d) PROVE FALSE
        <5>1. PICK s : s = [pc |-> "creating"]
          OBVIOUS
        <5>2. QED
          BY <3>2, <4>1, <5>1 DEF CreateExperiments
      <4>2. ASSUME BeginSave(d) PROVE FALSE
        <5>1. PICK request, id : Goto(d, [pc |-> "saving", request |-> request, id |-> id])
          BY <4>2 DEF BeginSave
        <5>2. PICK s : s = [pc |-> "saving", request |-> request, id |-> id]
          OBVIOUS
        <5>3. QED
          BY <3>2, <5>1, <5>2
      <4>3. ASSUME BeginLoad(d) PROVE FALSE
        <5>1. PICK id, known : Goto(d, [pc |-> "loading", id |-> id, known |-> known])
          BY <4>3 DEF BeginLoad
        <5>2. PICK s : s = [pc |-> "loading", id |-> id, known |-> known]
          OBVIOUS
        <5>3. QED
          BY <3>2, <5>1, <5>2
      <4>4. QED
        BY <4>1, <4>2, <4>3
    <3>6. ASSUME InsertHeader(d) \/ Commit(d) PROVE FALSE
      <4>1. client[d] \in Sessions /\ client[d].pc \in {"saving", "inserting"}
        BY <1>1, <3>6 DEF InsertHeader, Commit, At
      <4>2. \E s : Goto(d, s) /\ s.pc \in {"inserting", "saved"}
        BY <3>6, <4>1, SaveAdvances DEF InsertHeader, Commit
      <4>3. QED
        BY <3>2, <4>2
    <3>7. ~InsertGame(d)
      BY <1>3 DEF InsertGame
    <3>8. SelectHeader(d) \/ SelectGames(d)
      BY <3>1, <3>4, <3>5, <3>6, <3>7 DEF Step
    <3>9. d = c
      BY <1>1, <1>3, <3>8 DEF SelectHeader, SelectGames, Goto
    <3>10. QED
      BY <3>8, <3>9
  <2>2. PICK id \in Ids : id = client[c].id
    BY <1>1, <2>1, SessionFields DEF SelectHeader, SelectGames, At
  <2>3. HeadersOf(id)' = HeadersOf(id) /\ GamesOf(id)' = GamesOf(id)
    BY <2>1, RowsStay DEF SelectHeader, SelectGames
  <2>4. CASE SelectHeader(c)
    <3>1. client'[c].pc = "loaded"
      BY DEF At
    <3>2. HeadersOf(id) = {} /\ client'[c] = Loaded(client[c], NotFound)
      <4>1. \/ HeadersOf(id) = {} /\ Goto(c, Loaded(client[c], NotFound))
            \/ \E row \in HeadersOf(id) :
                  Goto(c, [pc |-> "header", id |-> id, known |-> client[c].known, header |-> row])
        BY <2>2, <2>4 DEF SelectHeader
      <4>2. ASSUME NEW s, Goto(c, s) PROVE client'[c] = s
        BY <1>1, <4>2 DEF Goto
      <4>3. ASSUME NEW row, Goto(c, [pc |-> "header", id |-> id, known |-> client[c].known,
                                     header |-> row])
            PROVE  FALSE
        <5>1. PICK s : s = [pc |-> "header", id |-> id, known |-> client[c].known, header |-> row]
          OBVIOUS
        <5>2. client'[c] = s /\ s.pc = "header"
          BY <4>2, <4>3, <5>1
        <5>3. QED
          BY <3>1, <5>2
      <4>4. HeadersOf(id) = {} /\ Goto(c, Loaded(client[c], NotFound))
        BY <4>1, <4>3
      <4>5. QED
        BY <4>2, <4>4
    <3>3. client[c].pc = "loading" /\ ~client[c].known
      BY <2>2, <2>4, <3>2 DEF SelectHeader, StoreInv, CallInv, At
    <3>4. client'[c].answer = NotFound /\ ~client'[c].known
      BY <3>2, <3>3 DEF Loaded
    <3>5. QED
      BY <3>4 DEF AnswerHolds
  <2>5. CASE SelectGames(c)
    <3>1. PICK header : header = client[c].header
      OBVIOUS
    <3>2. header \in HeadersOf(id)
      BY <2>2, <2>5, <3>1 DEF SelectGames, StoreInv, CallInv, At
    <3>3. PICK answer : answer = [experiment |-> header, games |-> GamesOf(id)]
      OBVIOUS
    <3>4. client'[c] = Loaded(client[c], answer)
      BY <1>1, <2>2, <2>5, <3>1, <3>3 DEF SelectGames, Goto
    <3>5. client'[c].id = id /\ client'[c].answer = answer
      BY <2>2, <3>4 DEF Loaded
    <3>6. QED
      BY <2>3, <3>2, <3>3, <3>5 DEF AnswerHolds
  <2>6. QED
    BY <2>1, <2>4, <2>5
<1>4. QED
  BY <1>2, <1>3

LEMMA AnswersAlwaysHold == Spec => []AnswersHold
<1>1. Init => AnswersHold
  BY DEF Init, AnswersHold, AnswerHolds, At, Down
<1>2. StoreInv /\ AnswersHold /\ [Next]_vars => AnswersHold'
  BY AnswerHoldsNext DEF AnswersHold
<1>3. QED
  BY <1>1, <1>2, StoreInvariant, PTL DEF Spec

\* Whoever loads an identifier that a save has returned, to whatever program, gets what
\* that save stored; None only if the load began before the save returned
\* (load_experiment's two SELECTs, with saves in between).
LoadsAnswerTheSave ==
    \A c \in Clients : \A save \in acked :
        At(c, "loaded") /\ client[c].id = save.id =>
            \/ client[c].answer = NotFound /\ ~client[c].known
            \/ client[c].answer = Stored(save.id, save.request)

\* Read your writes, and those of all others.
THEOREM SavesAreReadBack == Spec => []LoadsAnswerTheSave
<1>1. ASSUME StoreInv, AnswersHold, NEW c \in Clients, NEW save \in acked,
             At(c, "loaded"), client[c].id = save.id
      PROVE  \/ client[c].answer = NotFound /\ ~client[c].known
             \/ client[c].answer = Stored(save.id, save.request)
  <2>1. IsStored(save.id, save.request)
    BY <1>1 DEF StoreInv, AckedDurable
  <2>2. \/ client[c].answer = NotFound /\ ~client[c].known
        \/ \E header \in HeadersOf(save.id) :
              client[c].answer = [experiment |-> header, games |-> GamesOf(save.id)]
    BY <1>1 DEF AnswersHold, AnswerHolds
  <2>3. QED
    BY <2>1, <2>2 DEF IsStored, Stored
<1>2. StoreInv /\ AnswersHold => LoadsAnswerTheSave
  BY <1>1 DEF LoadsAnswerTheSave
<1>3. QED
  BY <1>2, StoreInvariant, AnswersAlwaysHold, PTL

-----------------------------------------------------------------------------
(***************************************************************************)
(* How long a call lasts.                                                  *)
(***************************************************************************)

\* The steps a call has left when it is in state s and m games are pending.
StepsFrom(s, m) ==
    CASE s.pc = "saving"    -> s.request.run.call.games + 3
      [] s.pc = "inserting" -> s.request.run.call.games - m + 2
      [] s.pc = "saved"     -> 1
      [] s.pc = "loading"   -> 3
      [] s.pc = "header"    -> 2
      [] s.pc = "loaded"    -> 1
      [] OTHER              -> 0

PendingGames == Cardinality(pending["game_results"])
StepsLeft(c) == StepsFrom(client[c], PendingGames)

\* A save has at most three statements more than its experiment has games, and a load at
\* most three; every step of a call that is not the failure of something outside it uses
\* one of them up, and nothing another program does gives one back.  So no call waits
\* for ever, or starts its transaction again, whoever else wants the lock.
CallsGoOn ==
    [][\A c \in Clients :
          /\ Step(c) => StepsLeft(c)' < StepsLeft(c)
          /\ ~BeginSave(c) /\ ~BeginLoad(c) => StepsLeft(c)' <= StepsLeft(c)]_vars

LEMMA StepsFromIs ==
    ASSUME NEW s \in Sessions, NEW m
    PROVE  /\ s.pc = "saving"    => StepsFrom(s, m) = s.request.run.call.games + 3
           /\ s.pc = "inserting" => StepsFrom(s, m) = s.request.run.call.games - m + 2
           /\ s.pc = "saved"     => StepsFrom(s, m) = 1
           /\ s.pc = "loading"   => StepsFrom(s, m) = 3
           /\ s.pc = "header"    => StepsFrom(s, m) = 2
           /\ s.pc = "loaded"    => StepsFrom(s, m) = 1
           /\ s.pc \in {"idle", "down", "creating"} => StepsFrom(s, m) = 0
           /\ s.pc # "inserting" => StepsFrom(s, m) \in Nat
           /\ s.pc \in {"saving", "inserting"} =>
                 s.request \in Requests /\ s.request.run.call.games \in Nat \ {0}
<1>1. s.pc \in {"saving", "inserting", "saved"} => s.request \in Requests
  BY SessionFields
<1>2. s.pc \in {"saving", "inserting"} => s.request.run.call.games \in Nat \ {0}
  BY <1>1, RequestGames
<1>3. s.pc \in {"idle", "down", "creating", "saving", "inserting", "saved", "loading", "header", "loaded"}
  BY DEF Sessions, Idle, Down
<1>4. QED
  BY <1>1, <1>2, <1>3 DEF StepsFrom

\* While a transaction is open, no more games are pending than the experiment has.
LEMMA PendingIsBounded ==
    ASSUME StoreInv, NEW c \in Clients, At(c, "inserting")
    PROVE  /\ client[c] \in Sessions /\ client[c].pc = "inserting" /\ PendingGames \in Nat
           /\ PendingGames <= client[c].request.run.call.games
           /\ StepsLeft(c) \in Nat /\ StepsLeft(c) >= 2
<1>1. client[c] \in Sessions /\ client[c].pc = "inserting"
  BY DEF StoreInv, TypeOK, At
<1>2. PendingGames \in Nat /\ PendingGames <= client[c].request.run.call.games
  BY DEF StoreInv, CallInv, OpenTransaction, PendingGames
<1>3. QED
  BY <1>1, <1>2, StepsFromIs DEF StepsLeft

LEMMA StepsAreNumbers ==
    ASSUME StoreInv, NEW c \in Clients
    PROVE  StepsLeft(c) \in Nat /\ client[c] \in Sessions
<1>1. client[c] \in Sessions
  BY DEF StoreInv, TypeOK
<1>2. QED
  BY <1>1, PendingIsBounded, StepsFromIs DEF StepsLeft, At

LEMMA NextStepsAreNumbers == StoreInv' => \A c \in Clients : StepsLeft(c)' \in Nat
<1> DEFINE Numbers == \A c \in Clients : StepsLeft(c) \in Nat
<1>1. StoreInv => Numbers
  BY StepsAreNumbers
<1>2. StoreInv' => Numbers'
  <2> HIDE DEF Numbers
  <2>1. QED
    BY <1>1, PTL
<1>3. QED
  BY <1>2

\* One more game is pending after its INSERT.
LEMMA OneMorePending ==
    ASSUME StoreInv, NEW c \in Clients, InsertGame(c)
    PROVE  PendingGames' = PendingGames + 1
<1>1. client[c] \in Sessions /\ client[c].pc = "inserting"
  BY DEF InsertGame, At, StoreInv, TypeOK
<1>2. PICK id \in Ids, request \in Requests : client[c].id = id /\ client[c].request = request
  BY <1>1, SessionFields
<1>3. PICK games, m : games = pending["game_results"] /\ m = Cardinality(games)
  OBVIOUS
<1>4. IsFiniteSet(games) /\ m \in Nat /\ games = FirstGames(id, request, m)
  BY <1>1, <1>2, <1>3 DEF StoreInv, CallInv, OpenTransaction, At
<1>5. pending'["game_results"] = games \cup {GameRow(id, request, m + 1)}
  BY <1>2, <1>3 DEF InsertGame, NextGame, StoreInv, TypeOK, Tables
<1>6. GameRow(id, request, m + 1) \notin games
  BY <1>4, GameIsNew
<1>7. Cardinality(games \cup {GameRow(id, request, m + 1)}) = m + 1
  <2>1. PICK row : row = GameRow(id, request, m + 1)
    OBVIOUS
  <2>2. IsFiniteSet(games) /\ Cardinality(games) = m /\ row \notin games
    BY <1>3, <1>4, <1>6, <2>1
  <2>3. Cardinality(games \cup {row}) = m + 1
    BY <2>2, FS_AddElement
  <2>4. QED
    BY <2>1, <2>3
<1>8. QED
  BY <1>3, <1>5, <1>7 DEF PendingGames

\* What is left when client c goes to state s.
LEMMA StepsAfter ==
    ASSUME StoreInv, NEW c \in Clients, NEW s, Goto(c, s)
    PROVE  StepsLeft(c)' = StepsFrom(s, PendingGames')
<1>1. client'[c] = s
  BY DEF Goto, StoreInv, TypeOK
<1>2. QED
  BY <1>1 DEF StepsLeft

LEMMA EndsLeaveNothing ==
    ASSUME StoreInv, NEW c \in Clients, Goto(c, Idle) \/ Goto(c, Down) \/ Goto(c, [pc |-> "creating"])
    PROVE  StepsLeft(c)' = 0
<1>1. PICK s \in {Idle, Down, [pc |-> "creating"]} : Goto(c, s)
  OBVIOUS
<1>2. s \in Sessions /\ s.pc \in {"idle", "down", "creating"}
  BY DEF Sessions, Idle, Down
<1>3. StepsFrom(s, PendingGames') = 0
  BY <1>2, StepsFromIs
<1>4. QED
  BY <1>1, <1>3, StepsAfter

LEMMA StepsAreUsedUp ==
    ASSUME StoreInv, StoreInv', NEW c \in Clients, Step(c)
    PROVE  StepsLeft(c)' < StepsLeft(c)
<1>1. StepsLeft(c) \in Nat /\ client[c] \in Sessions
  BY StepsAreNumbers
<1>2. CASE KeyTaken(c) \/ LockTimeout(c) \/ ReturnId(c) \/ ReturnAnswer(c)
  <2>1. StepsLeft(c)' = 0
    BY <1>2, EndsLeaveNothing DEF KeyTaken, LockTimeout, ReturnId, ReturnAnswer
  <2>2. client[c].pc \in {"saving", "saved", "loaded"}
    BY <1>2 DEF KeyTaken, LockTimeout, ReturnId, ReturnAnswer, At
  <2>3. StepsLeft(c) > 0
    BY <1>1, <2>2, StepsFromIs DEF StepsLeft
  <2>4. QED
    BY <2>1, <2>3
<1>3. CASE InsertHeader(c)
  <2>1. PICK s, games : s = [client[c] EXCEPT !.pc = "inserting"] /\ games = client[c].request.run.call.games
    OBVIOUS
  <2>2. client[c].pc = "saving" /\ Goto(c, s) /\ writer = NoClient
    BY <1>3, <2>1 DEF InsertHeader, At
  <2>3. s \in Sessions /\ s.pc = "inserting" /\ s.request = client[c].request
    BY <1>1, <2>1, <2>2, SaveAdvances
  <2>4. PendingGames' = 0
    <3>1. pending'["game_results"] = {}
      BY <1>3, <2>2 DEF InsertHeader, StoreInv, NoRows, Tables
    <3>2. QED
      BY <3>1, FS_EmptySet DEF PendingGames
  <2>5. StepsLeft(c) = games + 3 /\ games \in Nat
    BY <1>1, <2>1, <2>2, StepsFromIs DEF StepsLeft
  <2>6. StepsLeft(c)' = games - 0 + 2
    BY <2>1, <2>2, <2>3, <2>4, StepsAfter, StepsFromIs
  <2>7. QED
    BY <2>5, <2>6
<1>4. CASE InsertGame(c)
  <2>1. PICK games : games = client[c].request.run.call.games
    OBVIOUS
  <2>2. At(c, "inserting") /\ client' = client
    BY <1>4 DEF InsertGame
  <2>3. PendingGames \in Nat /\ PendingGames' = PendingGames + 1 /\ client[c].pc = "inserting"
    BY <1>4, <2>2, PendingIsBounded, OneMorePending
  <2>4. /\ StepsLeft(c) = games - PendingGames + 2 /\ games \in Nat
        /\ StepsLeft(c)' = games - PendingGames' + 2
    BY <1>1, <2>1, <2>2, <2>3, StepsFromIs DEF StepsLeft
  <2>5. QED
    BY <2>3, <2>4
<1>5. CASE Commit(c)
  <2>1. PICK s : s = [client[c] EXCEPT !.pc = "saved"]
    OBVIOUS
  <2>2. At(c, "inserting") /\ Goto(c, s)
    BY <1>5, <2>1 DEF Commit
  <2>3. s \in Sessions /\ s.pc = "saved"
    BY <1>1, <2>1, <2>2, SaveAdvances DEF At
  <2>4. StepsLeft(c)' = 1 /\ StepsLeft(c) >= 2
    BY <2>2, <2>3, StepsAfter, StepsFromIs, PendingIsBounded
  <2>5. QED
    BY <1>1, <2>4
<1>6. CASE SelectHeader(c)
  <2>1. client[c].pc = "loading" /\ StepsLeft(c) = 3
    BY <1>1, <1>6, StepsFromIs DEF SelectHeader, At, StepsLeft
  <2>2. PICK s : Goto(c, s) /\ s.pc \in {"loaded", "header"}
    <3>1. CASE Goto(c, Loaded(client[c], NotFound))
      BY <3>1 DEF Loaded
    <3>2. ASSUME NEW row, Goto(c, [pc |-> "header", id |-> client[c].id, known |-> client[c].known,
                                   header |-> row])
          PROVE  \E s : Goto(c, s) /\ s.pc \in {"loaded", "header"}
      <4>1. PICK s : s = [pc |-> "header", id |-> client[c].id, known |-> client[c].known,
                          header |-> row]
        OBVIOUS
      <4>2. QED
        BY <3>2, <4>1
    <3>3. QED
      BY <1>6, <3>1, <3>2 DEF SelectHeader
  <2>3. s \in Sessions
    BY <2>2 DEF Goto, StoreInv, TypeOK
  <2>4. StepsLeft(c)' \in {1, 2}
    BY <2>2, <2>3, StepsAfter, StepsFromIs
  <2>5. QED
    BY <2>1, <2>4
<1>7. CASE SelectGames(c)
  <2>1. client[c].pc = "header" /\ StepsLeft(c) = 2
    BY <1>1, <1>7, StepsFromIs DEF SelectGames, At, StepsLeft
  <2>2. PICK s : Goto(c, s) /\ s.pc = "loaded"
    BY <1>7 DEF SelectGames, Loaded
  <2>3. s \in Sessions
    BY <2>2 DEF Goto, StoreInv, TypeOK
  <2>4. StepsLeft(c)' = 1
    BY <2>2, <2>3, StepsAfter, StepsFromIs
  <2>5. QED
    BY <2>1, <2>4
<1>8. QED
  BY <1>2, <1>3, <1>4, <1>5, <1>6, <1>7 DEF Step

\* The steps of other clients leave a call where it is, and its transaction as it is.
LEMMA OthersLeaveCalls ==
    ASSUME StoreInv, NEW c \in Clients, NEW d \in Clients, d # c,
           \/ CreateExperiments(d) \/ CreateGameResults(d) \/ BeginSave(d) \/ BeginLoad(d)
           \/ Step(d) \/ SaveFails(d) \/ LoadFails(d) \/ Crash(d)
    PROVE  /\ client'[c] = client[c]
           /\ At(c, "inserting") => pending' = pending
<1>1. client \in [Clients -> Sessions]
  BY DEF StoreInv, TypeOK
<1>2. ASSUME NEW s, Goto(d, s) PROVE client'[c] = client[c]
  BY <1>1, <1>2 DEF Goto
<1>3. At(c, "inserting") => writer = c /\ writer # NoClient /\ ~At(d, "inserting")
  BY ClientsAssumption DEF StoreInv, TypeOK
<1>4. CASE CreateExperiments(d) \/ CreateGameResults(d)
  BY <1>2, <1>4 DEF CreateExperiments, CreateGameResults
<1>5. CASE BeginSave(d) \/ BeginLoad(d)
  BY <1>2, <1>5 DEF BeginSave, BeginLoad
<1>6. CASE KeyTaken(d) \/ LockTimeout(d) \/ SaveFails(d) \/ Crash(d)
  BY <1>2, <1>3, <1>6 DEF KeyTaken, LockTimeout, SaveFails, Crash, Rollback
<1>7. CASE ReturnId(d) \/ ReturnAnswer(d) \/ LoadFails(d) \/ SelectGames(d)
  BY <1>2, <1>7 DEF ReturnId, ReturnAnswer, LoadFails, SelectGames
<1>8. CASE SelectHeader(d)
  BY <1>2, <1>8 DEF SelectHeader
<1>9. CASE InsertHeader(d) \/ InsertGame(d) \/ Commit(d)
  BY <1>2, <1>3, <1>9 DEF InsertHeader, InsertGame, Commit
<1>10. QED
  BY <1>4, <1>5, <1>6, <1>7, <1>8, <1>9 DEF Step

LEMMA StepsAreNotGivenBack ==
    ASSUME StoreInv, StoreInv', [Next]_vars, NEW c \in Clients, ~BeginSave(c), ~BeginLoad(c)
    PROVE  StepsLeft(c)' <= StepsLeft(c)
<1>1. StepsLeft(c) \in Nat /\ client[c] \in Sessions
  BY StepsAreNumbers
<1>2. ASSUME client'[c] = client[c], At(c, "inserting") => pending' = pending
      PROVE  StepsLeft(c)' = StepsLeft(c)
  <2>1. CASE At(c, "inserting")
    BY <1>2, <2>1 DEF StepsLeft, PendingGames
  <2>2. CASE ~At(c, "inserting")
    <3>1. \A m : StepsFrom(client[c], m) = StepsFrom(client[c], PendingGames)
      BY <2>2 DEF StepsFrom, At
    <3>2. QED
      BY <1>2, <3>1 DEF StepsLeft
  <2>3. QED
    BY <2>1, <2>2
<1>3. CASE UNCHANGED vars
  BY <1>1, <1>2, <1>3 DEF vars
<1>4. ASSUME NEW d \in Clients,
             \/ CreateExperiments(d) \/ CreateGameResults(d) \/ BeginSave(d) \/ BeginLoad(d)
             \/ Step(d) \/ SaveFails(d) \/ LoadFails(d) \/ Crash(d)
      PROVE  StepsLeft(c)' <= StepsLeft(c)
  <2>1. CASE d # c
    BY <1>1, <1>2, <1>4, <2>1, OthersLeaveCalls
  <2>2. CASE d = c /\ Step(c)
    <3>1. StepsLeft(c)' < StepsLeft(c)
      BY <2>2, StepsAreUsedUp
    <3>2. StepsLeft(c)' \in Nat
      BY NextStepsAreNumbers
    <3>3. QED
      BY <1>1, <3>1, <3>2
  <2>3. CASE d = c /\ ~Step(c)
    <3>1. Goto(c, Idle) \/ Goto(c, Down) \/ Goto(c, [pc |-> "creating"])
      BY <1>4, <2>3 DEF CreateExperiments, CreateGameResults, SaveFails, LoadFails, Crash
    <3>2. StepsLeft(c)' = 0
      BY <3>1, EndsLeaveNothing
    <3>3. QED
      BY <1>1, <3>2
  <2>4. QED
    BY <2>1, <2>2, <2>3
<1>5. QED
  BY <1>3, <1>4 DEF Next

\* However many programs share the file, a call ends after its own number of steps; what
\* is left to assume for its end is that its program goes on.
THEOREM CallsAreBounded == Spec => CallsGoOn
<1>1. StoreInv /\ StoreInv' /\ [Next]_vars
         => [\A c \in Clients :
                /\ Step(c) => StepsLeft(c)' < StepsLeft(c)
                /\ ~BeginSave(c) /\ ~BeginLoad(c) => StepsLeft(c)' <= StepsLeft(c)]_vars
  BY StepsAreUsedUp, StepsAreNotGivenBack
<1>2. QED
  BY <1>1, StoreInvariant, PTL DEF Spec, CallsGoOn
=============================================================================
