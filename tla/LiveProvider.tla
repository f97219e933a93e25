---------------------------- MODULE LiveProvider ----------------------------
(***************************************************************************)
(* llmtg.cards.scryfall: one ScryfallProvider, asked for cards one after    *)
(* the other (validate_deck.py --live), with its cache and its throttle.    *)
(*                                                                         *)
(* A key is a name stripped and casefolded; an empty one raises ValueError   *)
(* before anything happens, and is left out.  Outside src/ and modelled by    *)
(* what the code relies on: Scryfall, which knows some keys, each as the     *)
(* name or another spelling of one card, revises its cards now and then, and *)
(* answers, answers with an error or not at all; and time.sleep, which takes *)
(* at least as long as it is told.                                          *)
(***************************************************************************)
EXTENDS Integers

CONSTANTS
    Keys,         \* what names are asked for
    NoCard,       \* Scryfall has no card; the cache has no entry; no card is asked for
    NameOf,       \* of each key: the key of the name of the card Scryfall finds
    Interval,     \* minimum_interval_seconds
    MaxRevision,  \* bound: revisions of the card data
    MaxTime       \* bound: the clock

ASSUME KeysAssumption ==
    /\ NoCard \notin Keys
    /\ NameOf \in [Keys -> Keys \cup {NoCard}]
    /\ \A k \in Keys : NameOf[k] # NoCard => NameOf[NameOf[k]] = NameOf[k]
ASSUME TimesAssumption == Interval \in 0 .. MaxTime /\ MaxTime \in Nat /\ MaxRevision \in Nat

Cards == [name : Keys, revision : 0 .. MaxRevision]

ASSUME NoCardAssumption == NoCard \notin Cards

VARIABLES
    now,             \* time.monotonic()
    revision,        \* of Scryfall's data
    last_request_at, \* _last_request_at
    cache,           \* _cache: of each key a card, or NoCard
    asked,           \* the key get_card is working on, or NoCard
    pc,              \* where it is
    wake,            \* when its sleep may end
    sent,            \* history: when the last request that was answered was sent
    found            \* history: the keys get_card returned a card for

provider == <<last_request_at, cache>>
history  == <<sent, found>>
vars == <<now, revision, provider, asked, pc, wake, history>>

\* The clock does not start at 0, but _last_request_at does.
Init ==
    /\ now \in 0 .. Interval
    /\ revision = 0
    /\ last_request_at = 0
    /\ cache = [k \in Keys |-> NoCard]
    /\ asked = NoCard
    /\ pc = "idle"
    /\ wake = 0
    /\ sent = -Interval
    /\ found = {}

Tick ==
    /\ now < MaxTime
    /\ now' = now + 1
    /\ UNCHANGED <<revision, provider, asked, pc, wake, history>>

Revise ==
    /\ revision < MaxRevision
    /\ revision' = revision + 1
    /\ UNCHANGED <<now, provider, asked, pc, wake, history>>

\* get_card answers from the cache.
Hit(k) ==
    /\ pc = "idle"
    /\ cache[k] # NoCard
    /\ found' = found \cup {k}
    /\ UNCHANGED <<now, revision, provider, asked, pc, wake, sent>>

\* Mutation: the sign of the elapsed time is wrong.
RemainingAdded == Interval + (now - last_request_at)

\* remaining, of _throttle.
Remaining == Interval - (now - last_request_at)

\* Mutation: the throttle waits out what has elapsed.
MissSleepingElapsed(k) ==
    /\ pc = "idle"
    /\ cache[k] = NoCard
    /\ asked' = k
    /\ pc' = "throttled"
    /\ wake' = IF Remaining > 0 THEN now + (now - last_request_at) ELSE now
    /\ UNCHANGED <<now, revision, provider, history>>

\* get_card does not find the key, and _throttle sleeps for what remains.
Miss(k) ==
    /\ pc = "idle"
    /\ cache[k] = NoCard
    /\ asked' = k
    /\ pc' = "throttled"
    /\ wake' = IF Remaining > 0 THEN now + Remaining ELSE now
    /\ UNCHANGED <<now, revision, provider, history>>

\* _throttle returns and the request is sent.
Send ==
    /\ pc = "throttled"
    /\ now >= wake
    /\ pc' = "waiting"
    /\ wake' = now
    /\ UNCHANGED <<now, revision, provider, asked, sent, found>>

\* get_card ends.
Done == pc' = "idle" /\ asked' = NoCard /\ wake' = 0

Card(k) == [name |-> NameOf[k], revision |-> revision]

\* Mutation: an entry there is already is kept.
StoreIfAbsent(card) ==
    [k \in Keys |-> IF k \in {asked, card.name} /\ cache[k] = NoCard THEN card ELSE cache[k]]

\* The card is kept under the name asked for and under its own.
Store(card) == [cache EXCEPT ![asked] = card, ![card.name] = card]

\* Scryfall answers with the card.
Answer ==
    /\ pc = "waiting"
    /\ NameOf[asked] # NoCard
    /\ last_request_at' = now
    /\ sent' = wake
    /\ cache' = Store(Card(asked))
    /\ found' = found \cup {asked}
    /\ Done
    /\ UNCHANGED <<now, revision>>

\* Scryfall answers with an object that is an error or has no name.
AnswerWithoutCard ==
    /\ pc = "waiting"
    /\ last_request_at' = now
    /\ sent' = wake
    /\ Done
    /\ UNCHANGED <<now, revision, cache, found>>

\* The fetch raises: 404 when there is no such card, and any other failure.
Fail ==
    /\ pc = "waiting"
    /\ Done
    /\ UNCHANGED <<now, revision, provider, history>>

Next ==
    \/ Tick
    \/ Revise
    \/ \E k \in Keys : Hit(k) \/ Miss(k)
    \/ Send
    \/ Answer
    \/ AnswerWithoutCard
    \/ Fail

Spec == Init /\ [][Next]_vars

-----------------------------------------------------------------------------
\* The variables have their types, and get_card is at a place that fits what it
\* is working on.
TypeOK ==
    /\ now \in 0 .. MaxTime
    /\ revision \in 0 .. MaxRevision
    /\ last_request_at \in 0 .. now
    /\ cache \in [Keys -> Cards \cup {NoCard}]
    /\ pc \in {"idle", "throttled", "waiting"}
    /\ asked \in Keys \cup {NoCard}
    /\ (asked = NoCard) <=> (pc = "idle")
    /\ wake \in 0 .. now + Interval
    /\ sent <= last_request_at
    /\ found \subseteq Keys

\* No request is sent less than the interval after one that Scryfall answered,
\* with a card or with an error, was sent.  (Those that raise are not counted:
\* the code records the time only after the fetch has returned.)
RequestsSpaced == pc = "waiting" => wake - sent >= Interval

\* Whatever a caller once got is answered from the cache from then on: under the
\* name asked for, and under the card's own name, to which no other name is ahead,
\* however the card was found and whatever was asked, failed or was revised since.
FoundIsKept ==
    /\ \A k \in found : cache[k] # NoCard
    /\ \A k \in Keys : cache[k] # NoCard =>
          LET own == cache[cache[k].name] IN
          own # NoCard /\ own.name = cache[k].name /\ own.revision >= cache[k].revision
=============================================================================
