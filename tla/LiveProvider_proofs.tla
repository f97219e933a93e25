------------------------- MODULE LiveProvider_proofs -------------------------
(***************************************************************************)
(* Theorems about module LiveProvider, for any names, any interval of the    *)
(* throttle and any number of revisions of the card data.                   *)
(***************************************************************************)
EXTENDS LiveProvider, TLAPS

-----------------------------------------------------------------------------
(***************************************************************************)
(* The inductive invariant.                                                *)
(***************************************************************************)

\* From the moment the throttle has decided, the request goes out an interval or
\* more after the time the provider has recorded, and that is not before the
\* last answered request was sent.
ThrottleHolds ==
    /\ sent \in Int
    /\ pc \in {"throttled", "waiting"} => wake >= last_request_at + Interval
    /\ pc = "waiting" => wake <= now

\* A cached card is the one Scryfall finds for its key, no newer than the data,
\* and its own name has an entry at least as new.
CacheCoherent ==
    \A k \in Keys : cache[k] # NoCard =>
        /\ cache[k].name = NameOf[k]
        /\ cache[k].revision <= revision
        /\ cache[NameOf[k]] # NoCard
        /\ cache[NameOf[k]].revision >= cache[k].revision

FoundCached == \A k \in found : cache[k] # NoCard

IInv == TypeOK /\ ThrottleHolds /\ CacheCoherent /\ FoundCached

LEMMA Assumptions ==
    /\ Interval \in Nat /\ MaxTime \in Nat /\ MaxRevision \in Nat /\ Interval <= MaxTime
    /\ NoCard \notin Keys /\ NoCard \notin Cards
    /\ NameOf \in [Keys -> Keys \cup {NoCard}]
    /\ \A k \in Keys : NameOf[k] # NoCard => NameOf[NameOf[k]] = NameOf[k]
BY KeysAssumption, TimesAssumption, NoCardAssumption

-----------------------------------------------------------------------------
LEMMA InitIInv == Init => IInv
<1> SUFFICES ASSUME Init PROVE IInv
  OBVIOUS
<1>1. TypeOK
  BY Assumptions DEF Init, TypeOK
<1>2. ThrottleHolds
  BY Assumptions DEF Init, ThrottleHolds
<1>3. CacheCoherent /\ FoundCached
  BY DEF Init, CacheCoherent, FoundCached
<1>4. QED
  BY <1>1, <1>2, <1>3 DEF IInv

\* The card Scryfall answers with.
LEMMA AnsweredCard ==
    ASSUME TypeOK, asked # NoCard, NameOf[asked] # NoCard
    PROVE  /\ asked \in Keys /\ NameOf[asked] \in Keys
           /\ NameOf[NameOf[asked]] = NameOf[asked]
           /\ Card(asked) \in Cards
           /\ Card(asked) # NoCard
           /\ Card(asked).name = NameOf[asked]
           /\ Card(asked).revision = revision
BY Assumptions DEF TypeOK, Card, Cards

\* What _cache holds afterwards.
LEMMA StoreIs ==
    ASSUME TypeOK, asked # NoCard, NameOf[asked] # NoCard
    PROVE  /\ Store(Card(asked)) \in [Keys -> Cards \cup {NoCard}]
           /\ \A k \in Keys : Store(Card(asked))[k] =
                 IF k \in {asked, NameOf[asked]} THEN Card(asked) ELSE cache[k]
<1>1. cache \in [Keys -> Cards \cup {NoCard}]
  BY DEF TypeOK
<1> DEFINE card == Card(asked)
<1>2. asked \in Keys /\ card.name \in Keys /\ card \in Cards /\ card.name = NameOf[asked]
  BY AnsweredCard
<1> HIDE DEF card
<1>3. Store(card) = [cache EXCEPT ![asked] = card, ![card.name] = card]
  BY DEF Store
<1>4. QED
  BY <1>1, <1>2, <1>3 DEF card

-----------------------------------------------------------------------------
(***************************************************************************)
(* Each part is kept by every step.                                        *)
(***************************************************************************)
LEMMA StepTypeOK ==
    ASSUME IInv, [Next]_vars PROVE TypeOK'
<1> USE Assumptions
<1>0. TypeOK /\ ThrottleHolds
  BY DEF IInv
<1>1. CASE Tick
  BY <1>0, <1>1 DEF Tick, TypeOK, provider, history
<1>2. CASE Revise
  BY <1>0, <1>2 DEF Revise, TypeOK, provider, history
<1>3. ASSUME NEW k \in Keys, Hit(k) PROVE TypeOK'
  BY <1>0, <1>3 DEF Hit, TypeOK, provider
<1>4. ASSUME NEW k \in Keys, Miss(k) PROVE TypeOK'
  <2>1. wake' \in 0 .. now + Interval
    BY <1>0, <1>4 DEF Miss, Remaining, TypeOK
  <2>2. QED
    BY <1>0, <1>4, <2>1 DEF Miss, TypeOK, provider, history
<1>5. CASE Send
  BY <1>0, <1>5 DEF Send, TypeOK, provider
<1>6. CASE Answer
  <2>1. asked # NoCard /\ NameOf[asked] # NoCard
    BY <1>0, <1>6 DEF Answer, TypeOK
  <2>2. cache' \in [Keys -> Cards \cup {NoCard}] /\ asked \in Keys
    BY <1>0, <1>6, <2>1, StoreIs, AnsweredCard DEF Answer
  <2>3. sent' <= last_request_at' /\ last_request_at' \in 0 .. now'
    BY <1>0, <1>6 DEF Answer, TypeOK, ThrottleHolds
  <2>4. QED
    BY <1>0, <1>6, <2>2, <2>3 DEF Answer, Done, TypeOK
<1>7. CASE AnswerWithoutCard
  BY <1>0, <1>7 DEF AnswerWithoutCard, Done, TypeOK, ThrottleHolds
<1>8. CASE Fail
  BY <1>0, <1>8 DEF Fail, Done, TypeOK, provider, history
<1>9. CASE UNCHANGED vars
  BY <1>0, <1>9 DEF vars, provider, history, TypeOK
<1>10. QED
  BY <1>1, <1>2, <1>3, <1>4, <1>5, <1>6, <1>7, <1>8, <1>9 DEF Next

LEMMA StepThrottle ==
    ASSUME IInv, [Next]_vars PROVE ThrottleHolds'
<1> USE Assumptions
<1>0. TypeOK /\ ThrottleHolds
  BY DEF IInv
<1>1. CASE Tick \/ Revise \/ (\E k \in Keys : Hit(k)) \/ UNCHANGED vars
  BY <1>0, <1>1 DEF Tick, Revise, Hit, vars, TypeOK, ThrottleHolds, provider, history
<1>2. ASSUME NEW k \in Keys, Miss(k) PROVE ThrottleHolds'
  BY <1>0, <1>2 DEF Miss, Remaining, TypeOK, ThrottleHolds, provider, history
<1>3. CASE Send
  BY <1>0, <1>3 DEF Send, TypeOK, ThrottleHolds, provider
<1>4. CASE Answer \/ AnswerWithoutCard \/ Fail
  BY <1>0, <1>4 DEF Answer, AnswerWithoutCard, Fail, Done, TypeOK, ThrottleHolds,
                    provider, history
<1>5. QED
  BY <1>1, <1>2, <1>3, <1>4 DEF Next

LEMMA StepCache ==
    ASSUME IInv, [Next]_vars PROVE CacheCoherent' /\ FoundCached'
<1> USE Assumptions
<1>0. TypeOK /\ CacheCoherent /\ FoundCached
  BY DEF IInv
<1>1. CASE UNCHANGED <<cache, found>> /\ revision' \in Int /\ revision' >= revision
  <2>1. \A k \in Keys : cache[k] # NoCard => cache[k] \in Cards
    BY <1>0 DEF TypeOK
  <2>2. \A k \in Keys : cache[k] # NoCard => cache[k].revision \in Int
    BY <2>1 DEF Cards
  <2>3. \A k \in Keys : cache[k] # NoCard => cache[k].revision <= revision'
    BY <1>0, <1>1, <2>2 DEF CacheCoherent, TypeOK
  <2>4. QED
    BY <1>0, <1>1, <2>3 DEF CacheCoherent, FoundCached
<1>2. CASE Tick \/ Revise \/ (\E k \in Keys : Miss(k)) \/ Send \/ AnswerWithoutCard \/ Fail
           \/ UNCHANGED vars
  BY <1>0, <1>1, <1>2 DEF Tick, Revise, Miss, Send, AnswerWithoutCard, Fail, vars,
                          TypeOK, provider, history
<1>3. ASSUME NEW k \in Keys, Hit(k) PROVE CacheCoherent' /\ FoundCached'
  BY <1>0, <1>3 DEF Hit, CacheCoherent, FoundCached, provider
<1>4. CASE Answer
  <2> DEFINE card == Card(asked)
             own  == NameOf[asked]
  <2>1. asked # NoCard /\ own # NoCard
    BY <1>0, <1>4 DEF Answer, TypeOK
  <2>2. /\ asked \in Keys /\ own \in Keys /\ NameOf[own] = own
        /\ card # NoCard /\ card.name = own /\ card.revision = revision
    BY <1>0, <2>1, AnsweredCard
  <2>3. /\ \A k \in Keys : cache'[k] = IF k \in {asked, own} THEN card ELSE cache[k]
        /\ revision' = revision /\ found' = found \cup {asked} /\ revision \in Int
    BY <1>0, <1>4, <2>1, StoreIs DEF Answer, TypeOK
  <2> HIDE DEF card, own
  <2>4. FoundCached'
    BY <1>0, <2>2, <2>3 DEF FoundCached, TypeOK
  <2>5. ASSUME NEW k \in Keys, cache'[k] # NoCard
        PROVE  /\ cache'[k].name = NameOf[k]
               /\ cache'[k].revision <= revision'
               /\ cache'[NameOf[k]] # NoCard
               /\ cache'[NameOf[k]].revision >= cache'[k].revision
    <3>1. CASE k \in {asked, own}
      BY <2>2, <2>3, <3>1 DEF own
    <3>2. CASE k \notin {asked, own}
      <4>1. cache'[k] = cache[k] /\ cache[k] # NoCard
        BY <2>3, <2>5, <3>2
      <4>2. /\ cache[k].name = NameOf[k] /\ cache[k].revision <= revision
            /\ cache[NameOf[k]] # NoCard
            /\ cache[NameOf[k]].revision >= cache[k].revision
        BY <1>0, <4>1 DEF CacheCoherent
      <4>3. NameOf[k] \in Keys
        <5>1. cache[k].name \in Keys
          BY <1>0, <4>1 DEF TypeOK, Cards
        <5>2. QED
          BY <4>2, <5>1
      <4>4. CASE NameOf[k] \in {asked, own}
        BY <2>2, <2>3, <4>1, <4>2, <4>3, <4>4
      <4>5. CASE NameOf[k] \notin {asked, own}
        BY <2>3, <4>1, <4>2, <4>3, <4>5
      <4>6. QED
        BY <4>4, <4>5
    <3>3. QED
      BY <3>1, <3>2
  <2>6. CacheCoherent'
    BY <2>5 DEF CacheCoherent
  <2>7. QED
    BY <2>4, <2>6
<1>5. QED
  BY <1>2, <1>3, <1>4 DEF Next

\* The inductive invariant holds.
THEOREM Invariance == Spec => []IInv
<1>1. IInv /\ [Next]_vars => IInv'
  BY StepTypeOK, StepThrottle, StepCache DEF IInv
<1>2. QED
  BY InitIInv, <1>1, PTL DEF Spec

-----------------------------------------------------------------------------
\* The variables of the provider (scryfall.ScryfallProvider) have their types.
THEOREM TypeCorrect == Spec => []TypeOK
<1>1. IInv => TypeOK
  BY DEF IInv
<1>2. QED
  BY Invariance, <1>1, PTL

\* The throttle (scryfall._throttle) keeps its interval between a request that
\* was answered and the next one, for every interval.
THEOREM RequestsAreSpaced == Spec => []RequestsSpaced
<1>1. IInv => RequestsSpaced
  <2> SUFFICES ASSUME IInv, pc = "waiting" PROVE wake - sent >= Interval
    BY DEF RequestsSpaced
  <2>1. /\ wake \in Int /\ sent \in Int /\ last_request_at \in Int
        /\ sent <= last_request_at /\ wake >= last_request_at + Interval
    BY Assumptions DEF IInv, TypeOK, ThrottleHolds
  <2>2. QED
    BY <2>1, Assumptions
<1>2. QED
  BY Invariance, <1>1, PTL

\* What get_card once returned a card for is answered from the cache from then
\* on, and no other name of a card is ahead of its own (scryfall.get_card).
THEOREM FoundStaysFound == Spec => []FoundIsKept
<1>1. IInv => FoundIsKept
  <2> SUFFICES ASSUME IInv PROVE FoundIsKept
    OBVIOUS
  <2>1. ASSUME NEW k \in Keys, cache[k] # NoCard
        PROVE  LET own == cache[cache[k].name] IN
               own # NoCard /\ own.name = cache[k].name /\ own.revision >= cache[k].revision
    <3>1. cache[k].name \in Keys
      BY <2>1 DEF IInv, TypeOK, Cards
    <3>2. /\ cache[k].name = NameOf[k]
          /\ cache[NameOf[k]] # NoCard
          /\ cache[NameOf[k]].revision >= cache[k].revision
      BY <2>1 DEF IInv, CacheCoherent
    <3>3. NameOf[k] \in Keys /\ NameOf[NameOf[k]] = NameOf[k]
      BY <3>1, <3>2, Assumptions
    <3>4. cache[NameOf[k]].name = NameOf[NameOf[k]]
      BY <3>2, <3>3 DEF IInv, CacheCoherent
    <3>5. QED
      BY <3>2, <3>3, <3>4
  <2>2. QED
    BY <2>1 DEF IInv, FoundCached, FoundIsKept
<1>2. QED
  BY Invariance, <1>1, PTL
=============================================================================
