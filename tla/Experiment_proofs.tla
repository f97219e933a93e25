-------------------------- MODULE Experiment_proofs --------------------------
(***************************************************************************)
(* run_experiment, for every set of decks, policies and calls: first what    *)
(* the operators of module Runner return for lists of any length (a rotated  *)
(* list lists the same members, each shifted by the offset; the wins of the  *)
(* deck ids partition the games), then what module Experiment states of the  *)
(* summaries it returns.                                                    *)
(***************************************************************************)
EXTENDS Experiment, FiniteSetTheorems, TLAPS

-----------------------------------------------------------------------------
(***************************************************************************)
(* Python's % for a positive divisor.                                       *)
(***************************************************************************)

\* A remainder is less than its divisor.
LEMMA ModRange ==
    ASSUME NEW a \in Int, NEW n \in Nat \ {0}
    PROVE  a % n \in 0 .. n - 1
  OBVIOUS

\* Quotient and remainder give back the dividend.
LEMMA ModDivision ==
    ASSUME NEW a \in Int, NEW n \in Nat \ {0}
    PROVE  /\ a \div n \in Int
           /\ a = n * (a \div n) + (a % n)
  OBVIOUS

\* There is only one way to write a number as a multiple and a remainder.
LEMMA ModUnique ==
    ASSUME NEW n \in Nat \ {0}, NEW a \in Int, NEW q \in Int, NEW r \in 0 .. n - 1,
           a = n * q + r
    PROVE  a % n = r
  OBVIOUS

LEMMA ZeroMod == ASSUME NEW n \in Nat \ {0} PROVE 0 % n = 0
<1>1. 0 \in 0 .. n - 1 /\ 0 = n * 0 + 0
  OBVIOUS
<1>2. QED
  BY <1>1, ModUnique

-----------------------------------------------------------------------------
\* Where Rotate takes the item of position i (from 1) from.
Source(n, offset, i) == (((i - 1) + offset) % n) + 1

LEMMA SourceRange ==
    ASSUME NEW n \in Nat \ {0}, NEW offset \in Int, NEW i \in Int
    PROVE  Source(n, offset, i) \in 1 .. n
<1>1. ((i - 1) + offset) % n \in 0 .. n - 1
  BY ModRange
<1>2. QED
  BY <1>1 DEF Source

\* The item of position i comes from place j when the two differ by the
\* offset, up to a multiple of n.
LEMMA SourceIs ==
    ASSUME NEW n \in Nat \ {0}, NEW offset \in Int, NEW i \in Int, NEW j \in 1 .. n,
           NEW q \in Int, i + offset = n * q + j
    PROVE  Source(n, offset, i) = j
<1>1. /\ (i - 1) + offset \in Int
      /\ j - 1 \in 0 .. n - 1
      /\ (i - 1) + offset = n * q + (j - 1)
  OBVIOUS
<1>2. ((i - 1) + offset) % n = j - 1
  BY <1>1, ModUnique
<1>3. QED
  BY <1>2 DEF Source

\* Source as the two slices of the code compute it.
LEMMA SourceSlices ==
    ASSUME NEW n \in Nat \ {0}, NEW offset \in Int, NEW i \in 1 .. n
    PROVE  Source(n, offset, i) = IF i + (offset % n) <= n THEN i + (offset % n)
                                  ELSE i + (offset % n) - n
<1> DEFINE q == offset \div n
           r == offset % n
<1>1. r \in 0 .. n - 1 /\ q \in Int /\ offset = n * q + r
  BY ModRange, ModDivision
<1> HIDE DEF q, r
<1>2. CASE i + r <= n
  <2>1. i + r \in 1 .. n /\ i + offset = n * q + (i + r)
    BY <1>1, <1>2
  <2>2. Source(n, offset, i) = i + r
    BY <1>1, <2>1, SourceIs
  <2>3. QED
    BY <1>2, <2>2 DEF r
<1>3. CASE ~(i + r <= n)
  <2> DEFINE p == q + 1
             j == i + r - n
  <2>1. j \in 1 .. n /\ p \in Int /\ i + offset = n * p + j
    BY <1>1, <1>3
  <2> HIDE DEF p, j
  <2>2. Source(n, offset, i) = j
    BY <2>1, SourceIs
  <2>3. QED
    BY <1>3, <2>2 DEF r, j
<1>4. QED
  BY <1>2, <1>3

\* Rotating a list shifts every item by the offset and loses none
\* (runner._rotate).
THEOREM RotateShifts ==
    ASSUME NEW T, NEW items \in Seq(T), items # << >>, NEW offset \in Int
    PROVE  /\ Rotate(items, offset) \in Seq(T)
           /\ Len(Rotate(items, offset)) = Len(items)
           /\ \A i \in 1 .. Len(items) :
                 Rotate(items, offset)[i] = items[Source(Len(items), offset, i)]
<1> DEFINE n == Len(items)
           s == offset % n
<1>1. n \in Nat \ {0}
  OBVIOUS
<1>2. s \in 0 .. n - 1
  BY <1>1, ModRange
<1>3. /\ SubSeq(items, s + 1, n) \in Seq(T)
      /\ Len(SubSeq(items, s + 1, n)) = n - s
      /\ \A i \in 1 .. n - s : SubSeq(items, s + 1, n)[i] = items[i + s]
  BY <1>1, <1>2
<1>4. /\ SubSeq(items, 1, s) \in Seq(T)
      /\ Len(SubSeq(items, 1, s)) = s
      /\ \A i \in 1 .. s : SubSeq(items, 1, s)[i] = items[i]
  BY <1>1, <1>2
<1>5. Rotate(items, offset) = SubSeq(items, s + 1, n) \o SubSeq(items, 1, s)
  BY DEF Rotate
<1>6. \A i \in 1 .. n : Source(n, offset, i) = IF i + s <= n THEN i + s ELSE i + s - n
  BY <1>1, SourceSlices
<1> DEFINE back  == SubSeq(items, s + 1, n)
           front == SubSeq(items, 1, s)
<1> HIDE DEF s, n, back, front
<1>7. back \o front \in Seq(T) /\ Len(back \o front) = n
  BY <1>1, <1>2, <1>3, <1>4 DEF back, front
<1>8. ASSUME NEW i \in 1 .. n
      PROVE  (back \o front)[i] = items[Source(n, offset, i)]
  <2>1. CASE i <= n - s
    <3>1. (back \o front)[i] = back[i]
      BY <1>1, <1>2, <1>3, <1>4, <2>1 DEF back, front
    <3>2. QED
      BY <1>1, <1>2, <1>3, <1>6, <2>1, <3>1 DEF back
  <2>2. CASE ~(i <= n - s)
    <3> DEFINE m == i - (n - s)
    <3>1. m \in 1 .. s /\ i = Len(back) + m /\ m = i + s - n
      BY <1>1, <1>2, <1>3, <2>2 DEF back
    <3>2. back \in Seq(T) /\ front \in Seq(T) /\ Len(front) = s /\ front[m] = items[m]
      BY <1>3, <1>4, <3>1 DEF back, front
    <3> HIDE DEF m
    <3>3. (back \o front)[i] = front[m]
      BY <1>1, <1>2, <3>1, <3>2
    <3>4. Source(n, offset, i) = m
      BY <1>1, <1>2, <1>6, <2>2, <3>1
    <3>5. QED
      BY <3>2, <3>3, <3>4
  <2>3. QED
    BY <2>1, <2>2
<1>9. QED
  BY <1>5, <1>7, <1>8 DEF n, s, back, front

\* Over any n consecutive offsets a position is given every item: the witness
\* is the first offset at which item j arrives at position i.
THEOREM RotationVisitsAll ==
    ASSUME NEW n \in Nat \ {0}, NEW first \in Int, NEW i \in 1 .. n, NEW j \in 1 .. n
    PROVE  \E offset \in first .. first + n - 1 : Source(n, offset, i) = j
<1> DEFINE wait == (j - i - first) % n
           q    == (j - i - first) \div n
<1>1. wait \in 0 .. n - 1 /\ q \in Int /\ j - i - first = n * q + wait
  BY ModRange, ModDivision, j - i - first \in Int
<1> HIDE DEF wait, q
<1> DEFINE p == -q
           offset == first + wait
<1>2. p \in Int /\ offset \in Int /\ i + offset = n * p + j
  BY <1>1
<1> HIDE DEF p, offset
<1>3. Source(n, offset, i) = j
  BY <1>2, SourceIs
<1>4. offset \in first .. first + n - 1
  BY <1>1 DEF offset
<1>5. QED
  BY <1>3, <1>4

\* Products with a common factor are ordered like the other factors.
LEMMA ProductOrder ==
    ASSUME NEW n \in Nat \ {0}, NEW a \in Int, NEW b \in Int
    PROVE  /\ a <= b => n * a <= n * b
           /\ a < b => n * a + n <= n * b
           /\ n * a = n * b => a = b
<1>1. a < b => n * a + n <= n * b
  <2> SUFFICES ASSUME a < b PROVE n * a + n <= n * b
    OBVIOUS
  <2> DEFINE more == b - a - 1
  <2>1. more \in Nat /\ b = a + 1 + more
    OBVIOUS
  <2> HIDE DEF more
  <2>2. n * more \in Nat
    BY <2>1
  <2>3. n * b = n * a + n + n * more
    BY <2>1
  <2>4. n * a \in Int /\ n * b \in Int
    OBVIOUS
  <2>5. QED
    BY <2>2, <2>3, <2>4
<1>2. b < a => n * b + n <= n * a
  <2> SUFFICES ASSUME b < a PROVE n * b + n <= n * a
    OBVIOUS
  <2> DEFINE more == a - b - 1
  <2>1. more \in Nat /\ a = b + 1 + more
    OBVIOUS
  <2> HIDE DEF more
  <2>2. n * more \in Nat
    BY <2>1
  <2>3. n * a = n * b + n + n * more
    BY <2>1
  <2>4. n * a \in Int /\ n * b \in Int
    OBVIOUS
  <2>5. QED
    BY <2>2, <2>3, <2>4
<1>3. n * a \in Int /\ n * b \in Int
  OBVIOUS
<1>4. QED
  BY <1>1, <1>2, <1>3

\* The games, numbered from 1, in which a position is given item j of n.
GamesGiven(n, games, i, j) == {k \in 1 .. games : Source(n, k - 1, i) = j}

\* Over q rounds of n games a position is given each of the n items q times: once
\* a round, always after the same wait.
THEOREM RotationSharesEvenly ==
    ASSUME NEW n \in Nat \ {0}, NEW q \in Nat, NEW i \in 1 .. n, NEW j \in 1 .. n
    PROVE  Cardinality(GamesGiven(n, n * q, i, j)) = q
<1> DEFINE wait == (j - i) % n
           p    == (j - i) \div n
           f    == [m \in 1 .. q |-> n * (m - 1) + wait + 1]
           G    == GamesGiven(n, n * q, i, j)
<1>1. wait \in 0 .. n - 1 /\ p \in Int /\ j - i = n * p + wait
  BY ModRange, ModDivision, j - i \in Int
<1> HIDE DEF wait, p
<1>2. n * q \in Nat /\ n * p \in Int
  BY <1>1
<1>3. ASSUME NEW m \in 1 .. q PROVE f[m] \in G
  <2> DEFINE a == n * (m - 1)
             b == (m - 1) - p
  <2>1. a \in Int /\ 0 <= a /\ a + n <= n * q
    <3>1. m - 1 \in Int /\ 0 <= m - 1 /\ m - 1 < q
      OBVIOUS
    <3>2. n * 0 <= a /\ a + n <= n * q
      BY <3>1, ProductOrder
    <3>3. QED
      BY <3>1, <3>2
  <2>2. b \in Int /\ n * b = a - n * p
    BY <1>1
  <2>3. f[m] = a + wait + 1
    OBVIOUS
  <2> HIDE DEF a, b, f
  <2>4. f[m] \in 1 .. n * q
    BY <1>1, <1>2, <2>1, <2>3
  <2> DEFINE offset == f[m] - 1
  <2>5. offset \in Int /\ i \in Int /\ i + offset = n * b + j
    BY <1>1, <1>2, <2>1, <2>2, <2>3
  <2> HIDE DEF offset
  <2>6. Source(n, offset, i) = j
    BY <2>2, <2>5, SourceIs
  <2>7. QED
    BY <2>4, <2>6 DEF GamesGiven, offset
<1>4. ASSUME NEW m \in 1 .. q, NEW l \in 1 .. q, f[m] = f[l] PROVE m = l
  <2>1. n * (m - 1) \in Int /\ n * (l - 1) \in Int /\ m - 1 \in Int /\ l - 1 \in Int
    OBVIOUS
  <2>2. n * (m - 1) + wait + 1 = n * (l - 1) + wait + 1
    BY <1>4
  <2>3. n * (m - 1) = n * (l - 1)
    BY <1>1, <2>1, <2>2
  <2>4. m - 1 = l - 1
    BY <2>1, <2>3, ProductOrder
  <2>5. QED
    BY <2>4
<1>5. ASSUME NEW k \in G PROVE \E m \in 1 .. q : f[m] = k
  <2> DEFINE x == (i - 1) + (k - 1)
             d == x \div n
             m == d + p + 1
  <2>1. k \in 1 .. n * q /\ x % n = j - 1 /\ x \in Int
    BY <1>2 DEF GamesGiven, Source
  <2>2. d \in Int /\ x = n * d + (x % n)
    BY <2>1, ModDivision
  <2>3. m \in Int /\ n * (m - 1) = n * d + n * p /\ n * d \in Int
    BY <1>1, <2>2
  <2> HIDE DEF d, m
  <2>4. k - 1 = n * (m - 1) + wait
    BY <1>1, <1>2, <2>1, <2>2, <2>3
  <2> HIDE DEF x
  <2>5. m - 1 >= 0
    <3>1. ~(m - 1 < 0)
      <4> SUFFICES ASSUME m - 1 < 0 PROVE FALSE
        OBVIOUS
      <4>1. n * (m - 1) + n <= n * 0
        BY <2>3, ProductOrder
      <4>2. QED
        BY <1>1, <2>1, <2>3, <2>4, <4>1
    <3>2. QED
      BY <2>3, <3>1
  <2>6. m - 1 < q
    <3>1. ~(q <= m - 1)
      <4> SUFFICES ASSUME q <= m - 1 PROVE FALSE
        OBVIOUS
      <4>1. n * q <= n * (m - 1)
        BY <2>3, ProductOrder
      <4>2. QED
        BY <1>1, <1>2, <2>1, <2>3, <2>4, <4>1
    <3>2. QED
      BY <2>3, <3>1
  <2>7. m \in 1 .. q
    BY <2>3, <2>5, <2>6
  <2>8. f[m] = k
    BY <1>1, <2>1, <2>3, <2>4, <2>7
  <2>9. QED
    BY <2>7, <2>8
<1>6. f \in [1 .. q -> G]
  BY <1>3
<1> HIDE DEF f, G
<1>7. f \in Bijection(1 .. q, G)
  BY <1>4, <1>5, <1>6 DEF Bijection, Injection, Surjection, IsInjective
<1>8. ExistsBijection(1 .. q, G)
  BY <1>7 DEF ExistsBijection
<1>9. Cardinality(G) = q
  BY <1>8, FS_CountingElements
<1>10. QED
  BY <1>9 DEF G

\* Offsets that differ by a multiple of the length give the same rotation.
THEOREM RotatePeriodic ==
    ASSUME NEW T, NEW items \in Seq(T), items # << >>,
           NEW a \in Int, NEW b \in Int, (a - b) % Len(items) = 0
    PROVE  Rotate(items, a) = Rotate(items, b)
<1> DEFINE n == Len(items)
           q == (a - b) \div n
           p == b \div n
           r == b % n
           m == p + q
<1>1. n \in Nat \ {0}
  OBVIOUS
<1>2. q \in Int /\ a - b = n * q
  <2>1. a - b \in Int
    OBVIOUS
  <2>2. QED
    BY <1>1, <2>1, ModDivision
<1>3. p \in Int /\ r \in 0 .. n - 1 /\ b = n * p + r
  BY <1>1, ModDivision, ModRange
<1> HIDE DEF n, q, p, r
<1>4. m \in Int /\ a = n * m + r
  BY <1>1, <1>2, <1>3
<1> HIDE DEF m
<1>5. a % n = r
  BY <1>1, <1>3, <1>4, ModUnique
<1>6. QED
  BY <1>5 DEF Rotate, n, r

-----------------------------------------------------------------------------
(***************************************************************************)
(* Lemmas about one call and one game.                                     *)
(***************************************************************************)
NumDecks(c) == Len(c.decks)

\* What the guards of run_experiment leave of the arguments.
LEMMA CallFacts ==
    ASSUME NEW c \in Calls, Accepts(c)
    PROVE  /\ c.decks \in Seq(DeckIds) /\ c.policies \in Seq(PolicyIds)
           /\ c.decks # << >> /\ c.policies # << >>
           /\ NumDecks(c) \in Nat \ {0} /\ Len(c.policies) = NumDecks(c)
           /\ c.games \in Nat \ {0} /\ c.seed \in Int /\ c.rotate_seats \in BOOLEAN
<1>1. c \in CallType
  BY CallsAssumption
<1>2. QED
  BY <1>1 DEF CallType, Accepts, NumDecks

LEMMA OffsetType ==
    ASSUME NEW c \in Calls, Accepts(c), NEW g \in Int
    PROVE  Offset(c, g) \in Int
  BY CallFacts DEF Offset

\* The place in the caller's lists of who sits in seat i of game g.
Seated(c, g, i) == Source(NumDecks(c), Offset(c, g), i)

\* Seat i of game g is taken by the deck and by the policy the caller listed
\* at the same place.
LEMMA Seating ==
    ASSUME NEW c \in Calls, Accepts(c), NEW g \in Int
    PROVE  /\ SeatedDecks(c, g) \in Seq(DeckIds) /\ Len(SeatedDecks(c, g)) = NumDecks(c)
           /\ SeatedPolicies(c, g) \in Seq(PolicyIds) /\ Len(SeatedPolicies(c, g)) = NumDecks(c)
           /\ \A i \in 1 .. NumDecks(c) :
                 /\ Seated(c, g, i) \in 1 .. NumDecks(c)
                 /\ SeatedDecks(c, g)[i] = c.decks[Seated(c, g, i)]
                 /\ SeatedPolicies(c, g)[i] = c.policies[Seated(c, g, i)]
<1> DEFINE n == NumDecks(c)
           o == Offset(c, g)
<1>1. /\ c.decks \in Seq(DeckIds) /\ c.decks # << >> /\ Len(c.decks) = n
      /\ c.policies \in Seq(PolicyIds) /\ c.policies # << >> /\ Len(c.policies) = n
      /\ n \in Nat \ {0} /\ o \in Int
  BY CallFacts, OffsetType DEF NumDecks
<1> HIDE DEF n, o
<1>2. /\ Rotate(c.decks, o) \in Seq(DeckIds) /\ Len(Rotate(c.decks, o)) = n
      /\ \A i \in 1 .. n : Rotate(c.decks, o)[i] = c.decks[Source(n, o, i)]
  BY <1>1, RotateShifts
<1>3. /\ Rotate(c.policies, o) \in Seq(PolicyIds) /\ Len(Rotate(c.policies, o)) = n
      /\ \A i \in 1 .. n : Rotate(c.policies, o)[i] = c.policies[Source(n, o, i)]
  BY <1>1, RotateShifts
<1>4. ASSUME NEW i \in 1 .. n PROVE Source(n, o, i) \in 1 .. n
  <2>1. i \in Int
    BY <1>1
  <2>2. QED
    BY <1>1, <2>1, SourceRange
<1>5. QED
  BY <1>2, <1>3, <1>4 DEF SeatedDecks, SeatedPolicies, Seated, n, o

\* Whatever an engine decides within its contract, GameResult accepts it.
LEMMA PlayedResult ==
    ASSUME NEW c \in Calls, Accepts(c), NEW g \in Nat,
           NEW outcome \in Outcomes(Len(c.decks), TurnCounts)
    PROVE  /\ GameResult(c, g, outcome) \in ResultType
           /\ WellFormed(GameResult(c, g, outcome))
<1>1. /\ outcome.winner_index \in 0 .. NumDecks(c) - 1
      /\ outcome.turns \in Nat \ {0}
  BY TurnCountsAssumption DEF Outcomes, NumDecks
<1>2. NumDecks(c) \in Nat /\ GameSeed(c, g) \in Int
  BY CallFacts DEF GameSeed
<1>3. /\ SeatedDecks(c, g) \in Seq(DeckIds) /\ Len(SeatedDecks(c, g)) = NumDecks(c)
      /\ SeatedPolicies(c, g) \in Seq(PolicyIds) /\ Len(SeatedPolicies(c, g)) = NumDecks(c)
  BY Seating
<1>4. QED
  BY <1>1, <1>2, <1>3 DEF GameResult, ResultType, WellFormed

\* The games a deck id won are finitely many, so wins_by_deck counts them.
LEMMA WinsType ==
    ASSUME NEW c, NEW rs \in Seq(ResultType)
    PROVE  WinsByDeck(c, rs) \in [Members(c.decks) -> Nat]
<1>1. \A d : Cardinality(GamesWonBy(rs, d)) \in Nat
  <2>1. IsFiniteSet(1 .. Len(rs))
    BY FS_Interval, Len(rs) \in Int
  <2>2. \A d : GamesWonBy(rs, d) \subseteq 1 .. Len(rs)
    BY DEF GamesWonBy
  <2>3. \A d : IsFiniteSet(GamesWonBy(rs, d))
    BY <2>1, <2>2, FS_Subset
  <2>4. QED
    BY <2>3, FS_CardinalityType
<1>2. QED
  BY <1>1 DEF WinsByDeck

-----------------------------------------------------------------------------
(***************************************************************************)
(* Type correctness.                                                       *)
(***************************************************************************)
LEMMA TypeInit == Init => TypeOK
<1>1. NoCall \in Calls \cup {NoCall} /\ 0 \in 0 .. MaxCalls
  BY MaxCallsAssumption
<1>2. QED
  BY <1>1 DEF Init, TypeOK

\* One game is appended to the results of the call in progress.
LEMMA TypeRecord ==
    ASSUME TypeOK, NEW outcome \in Outcomes(Len(call.decks), TurnCounts),
           call # NoCall, GameNumber < call.games, Record(outcome), drawn' \subseteq DrawType
    PROVE  TypeOK'
<1>1. call \in Calls /\ Accepts(call) /\ results \in Seq(ResultType) /\ Len(results) \in Nat
  BY DEF TypeOK
<1>2. GameResult(call, GameNumber, outcome) \in ResultType
  BY <1>1, PlayedResult DEF GameNumber
<1>3. results' \in Seq(ResultType) /\ Len(results') = Len(results) + 1
  BY <1>1, <1>2 DEF Record
<1>4. call.games \in Nat
  BY <1>1, CallFacts
<1>5. Len(results') <= call'.games /\ Accepts(call') /\ call' # NoCall
  BY <1>1, <1>3, <1>4 DEF Record, GameNumber
<1>6. QED
  BY <1>3, <1>5 DEF TypeOK, Record

LEMMA DrawIsTyped ==
    ASSUME TypeOK, call # NoCall, NEW outcome \in Outcomes(Len(call.decks), TurnCounts)
    PROVE  Draw(outcome) \in DrawType
<1>1. call \in Calls /\ Accepts(call) /\ Len(results) \in Nat
  BY DEF TypeOK
<1>2. Len(call.decks) \in Nat /\ GameSeed(call, GameNumber) \in Int
  BY <1>1, CallFacts DEF GameSeed, GameNumber, NumDecks
<1>3. outcome \in [winner_index : Nat, turns : Nat]
  <2>1. 0 .. Len(call.decks) - 1 \subseteq Nat /\ TurnCounts \subseteq Nat
    BY <1>2, TurnCountsAssumption
  <2>2. QED
    BY <2>1 DEF Outcomes
<1>4. QED
  BY <1>2, <1>3 DEF Draw, DrawType

LEMMA TypeNext == TypeOK /\ [Next]_vars => TypeOK'
<1> SUFFICES ASSUME TypeOK, [Next]_vars PROVE TypeOK'
  OBVIOUS
<1>1. ASSUME NEW c \in Calls, Start(c) PROVE TypeOK'
  <2>1. c # NoCall /\ calls + 1 \in 0 .. MaxCalls
    BY <1>1, CallsAssumption, MaxCallsAssumption DEF Start, TypeOK
  <2>2. results = << >> /\ 0 <= c.games
    <3>1. c.games \in Nat
      BY <1>1, CallFacts DEF Start
    <3>2. QED
      BY <1>1, <3>1 DEF Start, TypeOK
  <2>3. QED
    BY <1>1, <2>1, <2>2 DEF Start, TypeOK
<1>2. ASSUME NEW c \in Calls, Refuse(c) PROVE TypeOK'
  <2>1. calls + 1 \in 0 .. MaxCalls
    BY <1>2, MaxCallsAssumption DEF Refuse, TypeOK
  <2>2. QED
    BY <1>2, <2>1 DEF Refuse, TypeOK
<1>3. CASE MockPlays
  <2>1. PICK outcome \in Outcomes(Len(call.decks), TurnCounts) :
           drawn' = drawn \cup {Draw(outcome)} /\ Record(outcome)
    BY <1>3 DEF MockPlays
  <2>2. drawn' \subseteq DrawType
    BY <1>3, <2>1, DrawIsTyped DEF MockPlays, NextGame, TypeOK
  <2>3. QED
    BY <1>3, <2>1, <2>2, TypeRecord DEF MockPlays, NextGame
<1>4. CASE BridgePlays
  <2>1. PICK outcome \in Outcomes(Len(call.decks), TurnCounts) : Record(outcome)
    BY <1>4 DEF BridgePlays
  <2>2. drawn' \subseteq DrawType
    BY <1>4 DEF BridgePlays, TypeOK
  <2>3. QED
    BY <1>4, <2>1, <2>2, TypeRecord DEF BridgePlays, NextGame
<1>5. CASE EngineRefuses
  BY <1>5 DEF EngineRefuses, Raise, TypeOK
<1>6. CASE BridgeFails
  BY <1>6 DEF BridgeFails, Raise, TypeOK
<1>7. CASE Return
  <2>1. call \in Calls /\ results \in Seq(ResultType)
    BY <1>7 DEF Return, TypeOK
  <2>2. WinsByDeck(call, results) \in [Members(call.decks) -> Nat]
    BY <2>1, WinsType
  <2>3. \A run \in returned' : \/ run \in returned
                               \/ /\ run.call = call /\ run.results = results
                                  /\ run.wins = WinsByDeck(call, results)
    BY <1>7 DEF Return, FinishedRun
  <2>4. \A run \in returned' :
          /\ run.call \in Calls
          /\ run.results \in Seq(ResultType)
          /\ run.wins \in [Members(run.call.decks) -> Nat]
    BY <2>1, <2>2, <2>3 DEF TypeOK
  <2>5. QED
    BY <1>7, <2>4 DEF Return, TypeOK
<1>8. CASE UNCHANGED vars
  BY <1>8 DEF vars, TypeOK, Accepts
<1>9. QED
  BY <1>1, <1>2, <1>3, <1>4, <1>5, <1>6, <1>7, <1>8 DEF Next

\* The loop of run_experiment never leaves its bounds and every summary holds
\* values of the types the source declares.
THEOREM TypeCorrect == Spec => []TypeOK
<1>1. Init => TypeOK
  BY TypeInit
<1>2. TypeOK /\ [Next]_vars => TypeOK'
  BY TypeNext
<1>3. QED
  BY <1>1, <1>2, PTL DEF Spec

-----------------------------------------------------------------------------
(***************************************************************************)
(* Complete summaries.  A summary is IsRun because the unfinished list is   *)
(* so far: that is the strengthening.                                       *)
(***************************************************************************)

\* Result k of list rs is that of game k - 1 of call c.
Played(c, rs, k) == WellFormed(rs[k]) /\ rs[k] = GameResult(c, k - 1, rs[k])

PlayedSoFar == \A k \in DOMAIN results : Played(call, results, k)

RunInv == TypeOK /\ PlayedSoFar /\ SummariesAreComplete

LEMMA PlayedRecord ==
    ASSUME TypeOK, PlayedSoFar, NEW outcome \in Outcomes(Len(call.decks), TurnCounts),
           call # NoCall, Record(outcome)
    PROVE  PlayedSoFar'
<1> DEFINE r == GameResult(call, Len(results), outcome)
<1>1. call \in Calls /\ Accepts(call) /\ results \in Seq(ResultType) /\ Len(results) \in Nat
  BY DEF TypeOK
<1>2. r \in ResultType /\ WellFormed(r)
  BY <1>1, PlayedResult
<1>3. r = GameResult(call, Len(results), r)
  BY DEF GameResult
<1> HIDE DEF r
<1>4. results' = Append(results, r) /\ call' = call
  BY DEF Record, GameNumber, r
<1>5. /\ DOMAIN results' = 1 .. Len(results) + 1
      /\ results'[Len(results) + 1] = r
      /\ \A k \in DOMAIN results : results'[k] = results[k]
  BY <1>1, <1>2, <1>4
<1>6. ASSUME NEW k \in DOMAIN results' PROVE Played(call, results', k)
  <2>1. CASE k \in DOMAIN results
    BY <1>5, <2>1 DEF PlayedSoFar, Played
  <2>2. CASE k = Len(results) + 1
    BY <1>1, <1>2, <1>3, <1>5, <2>2 DEF Played
  <2>3. QED
    BY <1>1, <1>5, <1>6, <2>1, <2>2
<1>7. QED
  BY <1>4, <1>6 DEF PlayedSoFar, Played

LEMMA FinishedRunIsRun ==
    ASSUME TypeOK, PlayedSoFar, call # NoCall, GameNumber = call.games
    PROVE  IsRun(FinishedRun)
<1>1. Accepts(call) /\ DOMAIN results = 1 .. Len(results)
  BY DEF TypeOK
<1>2. QED
  BY <1>1 DEF IsRun, FinishedRun, PlayedSoFar, Played, GameNumber

LEMMA RunInvNext == RunInv /\ [Next]_vars => RunInv'
<1> SUFFICES ASSUME RunInv, [Next]_vars PROVE PlayedSoFar' /\ SummariesAreComplete'
  BY TypeNext DEF RunInv
<1> USE DEF RunInv
<1>1. ASSUME NEW c \in Calls, Start(c) \/ Refuse(c)
      PROVE  PlayedSoFar' /\ SummariesAreComplete'
  <2>1. results' = results /\ returned' = returned
    BY <1>1 DEF Start, Refuse
  <2>2. results = << >> \/ call' = call
    BY <1>1 DEF Start, Refuse, TypeOK
  <2>3. QED
    BY <2>1, <2>2 DEF PlayedSoFar, SummariesAreComplete
<1>2. CASE MockPlays \/ BridgePlays
  <2>1. PICK outcome \in Outcomes(Len(call.decks), TurnCounts) : Record(outcome)
    BY <1>2 DEF MockPlays, BridgePlays
  <2>2. call # NoCall
    BY <1>2 DEF MockPlays, BridgePlays, NextGame
  <2>3. PlayedSoFar'
    BY <2>1, <2>2, PlayedRecord
  <2>4. returned' = returned
    BY <2>1 DEF Record
  <2>5. QED
    BY <2>3, <2>4 DEF SummariesAreComplete
<1>3. CASE EngineRefuses \/ BridgeFails
  <2>1. results' = << >> /\ returned' = returned
    BY <1>3 DEF EngineRefuses, BridgeFails, Raise
  <2>2. QED
    BY <2>1 DEF PlayedSoFar, SummariesAreComplete
<1>4. CASE Return
  <2>1. IsRun(FinishedRun)
    BY <1>4, FinishedRunIsRun DEF Return
  <2>2. results' = << >> /\ returned' = returned \cup {FinishedRun}
    BY <1>4 DEF Return
  <2>3. QED
    BY <2>1, <2>2 DEF PlayedSoFar, SummariesAreComplete
<1>5. CASE UNCHANGED vars
  BY <1>5 DEF vars, PlayedSoFar, Played, SummariesAreComplete
<1>6. QED
  BY <1>1, <1>2, <1>3, <1>4, <1>5 DEF Next

LEMMA RunInvariant == Spec => []RunInv
<1>1. Init => RunInv
  BY TypeInit DEF Init, RunInv, PlayedSoFar, SummariesAreComplete
<1>2. QED
  BY <1>1, RunInvNext, PTL DEF Spec

\* No engine failure, at whatever game, leaves a summary of fewer games, and
\* every game of a summary has the seed and the seating its number implies.
THEOREM CompleteSummaries == Spec => []SummariesAreComplete
<1>1. RunInv => SummariesAreComplete
  BY DEF RunInv
<1>2. QED
  BY <1>1, RunInvariant, PTL

-----------------------------------------------------------------------------
(***************************************************************************)
(* What follows from a summary being complete.                             *)
(***************************************************************************)

\* A summary of the program: typed and complete.
Summary(run) ==
    /\ run.call \in Calls
    /\ run.results \in Seq(ResultType)
    /\ IsRun(run)

LEMMA Summaries == RunInv => \A run \in returned : Summary(run)
  BY DEF RunInv, TypeOK, SummariesAreComplete, Summary

\* Who sat where in game k of a summary.
LEMMA SummarySeats ==
    ASSUME NEW run, Summary(run), NEW k \in DOMAIN run.results
    PROVE  /\ Len(run.results[k].deck_ids) = NumDecks(run.call)
           /\ run.results[k].deck_ids \in Seq(DeckIds)
           /\ \A i \in 1 .. NumDecks(run.call) :
                 /\ Seated(run.call, k - 1, i) \in 1 .. NumDecks(run.call)
                 /\ run.results[k].deck_ids[i] = run.call.decks[Seated(run.call, k - 1, i)]
                 /\ run.results[k].policy_ids[i] = run.call.policies[Seated(run.call, k - 1, i)]
<1> DEFINE c == run.call
           g == k - 1
           result == run.results[k]
<1>1. c \in Calls /\ Accepts(c) /\ g \in Int
  BY DEF Summary, IsRun
<1>2. result = GameResult(c, g, result)
  BY DEF Summary, IsRun
<1>3. result.deck_ids = SeatedDecks(c, g) /\ result.policy_ids = SeatedPolicies(c, g)
  BY <1>2 DEF GameResult
<1> HIDE DEF c, g, result
<1>4. /\ SeatedDecks(c, g) \in Seq(DeckIds) /\ Len(SeatedDecks(c, g)) = NumDecks(c)
      /\ \A i \in 1 .. NumDecks(c) :
            /\ Seated(c, g, i) \in 1 .. NumDecks(c)
            /\ SeatedDecks(c, g)[i] = c.decks[Seated(c, g, i)]
            /\ SeatedPolicies(c, g)[i] = c.policies[Seated(c, g, i)]
  BY ONLY <1>1, Seating
<1>5. /\ Len(result.deck_ids) = NumDecks(c) /\ result.deck_ids \in Seq(DeckIds)
      /\ \A i \in 1 .. NumDecks(c) :
            /\ Seated(c, g, i) \in 1 .. NumDecks(c)
            /\ result.deck_ids[i] = c.decks[Seated(c, g, i)]
            /\ result.policy_ids[i] = c.policies[Seated(c, g, i)]
  BY ONLY <1>3, <1>4
<1>6. QED
  BY <1>5 DEF c, g, result

LEMMA SummaryShape ==
    ASSUME NEW run, Summary(run)
    PROVE  /\ NumDecks(run.call) \in Nat \ {0}
           /\ DOMAIN run.call.decks = 1 .. NumDecks(run.call)
           /\ run.call.games \in Nat \ {0}
           /\ DOMAIN run.results = 1 .. run.call.games
           /\ run.wins = WinsByDeck(run.call, run.results)
<1>1. run.call \in Calls /\ Accepts(run.call)
  BY DEF Summary, IsRun
<1>2. QED
  BY <1>1, CallFacts DEF Summary, IsRun, NumDecks

\* Decks and policies are rotated by the same offset, so a deck keeps its pilot.
THEOREM PilotsStay == Spec => []PilotsFollowDecks
<1>1. ASSUME NEW run, Summary(run), NEW k \in DOMAIN run.results,
             NEW s \in DOMAIN run.results[k].deck_ids
      PROVE  \E i \in DOMAIN run.call.decks :
                /\ run.results[k].deck_ids[s] = run.call.decks[i]
                /\ run.results[k].policy_ids[s] = run.call.policies[i]
  <2> DEFINE n == NumDecks(run.call)
             j == Seated(run.call, k - 1, s)
  <2>1. s \in 1 .. n
    BY <1>1, SummarySeats
  <2>2. /\ j \in 1 .. n
        /\ run.results[k].deck_ids[s] = run.call.decks[j]
        /\ run.results[k].policy_ids[s] = run.call.policies[j]
    BY <1>1, <2>1, SummarySeats
  <2>3. j \in DOMAIN run.call.decks
    BY <1>1, <2>2, SummaryShape
  <2>4. QED
    BY <2>2, <2>3
<1>2. RunInv => PilotsFollowDecks
  BY <1>1, Summaries DEF PilotsFollowDecks
<1>3. QED
  BY <1>2, RunInvariant, PTL

\* In any window of n consecutive games of a rotated experiment of n decks,
\* every seat is held by every deck, whatever n is.
THEOREM SeatsAreShared == Spec => []SeatsCycle
<1>1. ASSUME NEW run, Summary(run), run.call.rotate_seats,
             NEW k \in 1 .. run.call.games - NumDecks(run.call) + 1,
             NEW s \in 1 .. NumDecks(run.call)
      PROVE  SeatHolders(run.results, s, k, NumDecks(run.call)) = Members(run.call.decks)
  <2> DEFINE n == NumDecks(run.call)
             decks == run.call.decks
  <2>1. /\ n \in Nat \ {0} /\ DOMAIN decks = 1 .. n
        /\ run.call.games \in Nat /\ DOMAIN run.results = 1 .. run.call.games
    BY <1>1, SummaryShape
  <2> HIDE DEF n, decks
  <2>2. /\ k \in Nat \ {0} /\ k + n - 1 <= run.call.games /\ s \in 1 .. n
    BY <1>1, <2>1 DEF n
  <2>3. \A g \in k .. k + n - 1 :
           /\ g - 1 \in k - 1 .. (k - 1) + n - 1
           /\ Source(n, g - 1, s) \in 1 .. n
           /\ run.results[g].deck_ids[s] = decks[Source(n, g - 1, s)]
    <3> TAKE g \in k .. k + n - 1
    <3>1. g \in DOMAIN run.results /\ g - 1 \in k - 1 .. (k - 1) + n - 1
      BY <2>1, <2>2
    <3>2. Offset(run.call, g - 1) = g - 1
      BY <1>1 DEF Offset
    <3>3. Seated(run.call, g - 1, s) = Source(n, g - 1, s)
      BY <3>2 DEF Seated, n
    <3>4. /\ Seated(run.call, g - 1, s) \in 1 .. n
          /\ run.results[g].deck_ids[s] = decks[Seated(run.call, g - 1, s)]
      BY <1>1, <2>2, <3>1, SummarySeats DEF n, decks
    <3>5. QED
      BY <3>1, <3>3, <3>4
  <2>4. SeatHolders(run.results, s, k, n) \subseteq Members(decks)
    <3>1. ASSUME NEW g \in k .. k + n - 1
          PROVE  run.results[g].deck_ids[s] \in Members(decks)
      <4>1. PICK i \in 1 .. n : run.results[g].deck_ids[s] = decks[i]
        BY <2>3
      <4>2. QED
        BY <2>1, <4>1 DEF Members
    <3>2. QED
      BY <3>1 DEF SeatHolders
  <2>5. ASSUME NEW j \in 1 .. n
        PROVE  decks[j] \in SeatHolders(run.results, s, k, n)
    <3> DEFINE first == k - 1
    <3>1. first \in Int /\ n \in Nat \ {0} /\ s \in 1 .. n /\ j \in 1 .. n
      BY <2>1, <2>2
    <3> HIDE DEF first
    <3>2. PICK offset \in first .. first + n - 1 : Source(n, offset, s) = j
      BY ONLY <3>1, RotationVisitsAll, ZenonT(60)
    <3>3. offset + 1 \in k .. k + n - 1 /\ (offset + 1) - 1 = offset
      BY <2>1, <2>2, <3>2 DEF first
    <3>4. run.results[offset + 1].deck_ids[s] = decks[j]
      BY <2>3, <3>2, <3>3
    <3>5. QED
      BY <3>3, <3>4 DEF SeatHolders
  <2>6. Members(decks) \subseteq SeatHolders(run.results, s, k, n)
    BY <2>1, <2>5 DEF Members
  <2>7. QED
    BY <2>4, <2>6 DEF n, decks
<1>2. ASSUME RunInv
      PROVE  SeatsCycle
  <2>1. \A run \in returned : Summary(run)
    BY <1>2, Summaries
  <2>2. ASSUME NEW run \in returned, run.call.rotate_seats,
               NEW k \in 1 .. run.call.games - Len(run.call.decks) + 1,
               NEW s \in 1 .. Len(run.call.decks)
        PROVE  SeatHolders(run.results, s, k, Len(run.call.decks)) = Members(run.call.decks)
    <3>1. Summary(run)
      BY <2>1
    <3>2. NumDecks(run.call) = Len(run.call.decks)
      BY DEF NumDecks
    <3>3. k \in 1 .. run.call.games - NumDecks(run.call) + 1 /\ s \in 1 .. NumDecks(run.call)
      BY ONLY <2>2, <3>2
    <3>4. SeatHolders(run.results, s, k, NumDecks(run.call)) = Members(run.call.decks)
      BY <1>1, <2>2, <3>1, <3>3
    <3>5. QED
      BY <3>2, <3>4
  <2>3. QED
    BY <2>2 DEF SeatsCycle
<1>3. RunInv => SeatsCycle
  BY <1>2
<1>4. QED
  BY <1>3, RunInvariant, PTL

\* Where no two decks share an identifier, an identifier has one place in the list.
LEMMA DecksDistinct ==
    ASSUME NEW c \in Calls, Accepts(c), Cardinality(Members(c.decks)) = NumDecks(c)
    PROVE  \A i, j \in 1 .. NumDecks(c) : c.decks[i] = c.decks[j] => i = j
<1> DEFINE n == NumDecks(c)
           decks == c.decks
<1>1. n \in Nat \ {0} /\ decks \in Seq(DeckIds) /\ Len(decks) = n
  BY CallFacts DEF NumDecks
<1>2. DOMAIN decks = 1 .. n /\ decks \in [1 .. n -> DeckIds]
  BY <1>1
<1>3. Members(decks) = {decks[i] : i \in 1 .. n} /\ Cardinality(Members(decks)) = n
  BY <1>2 DEF Members
<1> HIDE DEF n, decks
<1>4. decks \in Surjection(1 .. n, Members(decks))
  <2>1. decks \in [1 .. n -> Members(decks)]
    BY <1>2, <1>3
  <2>2. QED
    BY <2>1, <1>3 DEF Surjection
<1>5. IsFiniteSet(1 .. n) /\ Cardinality(1 .. n) = n
  BY <1>1, FS_Interval
<1>6. IsFiniteSet(Members(decks))
  BY <1>4, <1>5, FS_Surjection
<1>7. decks \in Injection(1 .. n, Members(decks))
  BY <1>3, <1>4, <1>5, <1>6, FS_SurjSameCardinalityImpliesInj
<1>8. \A i, j \in 1 .. n : decks[i] = decks[j] => i = j
  BY <1>2, <1>7 DEF Injection, IsInjective
<1>9. QED
  BY <1>8 DEF n, decks

\* In an experiment of whole rounds in which one seat wins every game, the games a
\* deck won are those in which it sat there: one a round.
LEMMA WinsOfSeat ==
    ASSUME NEW run, Summary(run), run.call.rotate_seats,
           NEW w \in 1 .. NumDecks(run.call),
           \A k \in DOMAIN run.results : run.results[k].winner_index + 1 = w,
           Cardinality(Members(run.call.decks)) = NumDecks(run.call),
           NEW j \in 1 .. NumDecks(run.call)
    PROVE  GamesWonBy(run.results, run.call.decks[j])
               = GamesGiven(NumDecks(run.call), run.call.games, w, j)
<1> DEFINE n == NumDecks(run.call)
           decks == run.call.decks
           games == run.call.games
<1>1. /\ n \in Nat \ {0} /\ DOMAIN run.results = 1 .. games /\ games \in Nat
      /\ run.call \in Calls /\ Accepts(run.call)
  BY SummaryShape DEF Summary, IsRun
<1>2. ASSUME NEW k \in 1 .. games
      PROVE  WinningDeck(run.results[k]) = decks[j] <=> Source(n, k - 1, w) = j
  <2>1. k \in DOMAIN run.results
    BY <1>1
  <2>2. Offset(run.call, k - 1) = k - 1
    BY DEF Offset
  <2>3. Seated(run.call, k - 1, w) = Source(n, k - 1, w)
    BY <2>2 DEF Seated
  <2>4. /\ Source(n, k - 1, w) \in 1 .. n
        /\ run.results[k].deck_ids[w] = decks[Source(n, k - 1, w)]
    BY <2>1, <2>3, SummarySeats
  <2>5. WinningDeck(run.results[k]) = decks[Source(n, k - 1, w)]
    BY <2>1, <2>4 DEF WinningDeck
  <2>6. decks[Source(n, k - 1, w)] = decks[j] => Source(n, k - 1, w) = j
    BY <1>1, <2>4, DecksDistinct
  <2>7. QED
    BY <2>5, <2>6
<1>3. QED
  BY <1>1, <1>2 DEF GamesWonBy, GamesGiven

\* What seat rotation is for: in an experiment of whole rounds whose outcome depends
\* on the seat alone, all decks have the same number of wins, for any number of
\* decks and rounds.
THEOREM SeatBiasesCancel == Spec => []SeatBiasCancels
<1>1. ASSUME NEW run, Summary(run), run.call.rotate_seats,
             Cardinality(Members(run.call.decks)) = NumDecks(run.call),
             run.call.games % NumDecks(run.call) = 0,
             \A j, k \in DOMAIN run.results :
                run.results[j].winner_index = run.results[k].winner_index,
             NEW d \in Members(run.call.decks)
      PROVE  run.wins[d] = run.call.games \div NumDecks(run.call)
  <2> DEFINE n == NumDecks(run.call)
             games == run.call.games
             q == games \div n
             w == run.results[1].winner_index + 1
  <2>1. /\ n \in Nat \ {0} /\ games \in Nat \ {0} /\ DOMAIN run.results = 1 .. games
        /\ DOMAIN run.call.decks = 1 .. n
        /\ run.wins[d] = Cardinality(GamesWonBy(run.results, d))
    BY <1>1, SummaryShape DEF WinsByDeck
  <2>2. 1 \in DOMAIN run.results
    BY <2>1
  <2>3. w \in 1 .. n
    <3>1. run.results[1].winner_index \in 0 .. n - 1
      BY <1>1, <2>2, SummarySeats DEF Summary, IsRun, WellFormed
    <3>2. QED
      BY <2>1, <3>1
  <2>4. \A k \in DOMAIN run.results : run.results[k].winner_index + 1 = w
    BY <1>1, <2>2
  <2>5. PICK j \in 1 .. n : d = run.call.decks[j]
    BY <1>1, <2>1 DEF Members
  <2>6. GamesWonBy(run.results, d) = GamesGiven(n, games, w, j)
    <3> HIDE DEF w
    <3>1. QED
      BY <1>1, <2>3, <2>4, <2>5, WinsOfSeat
  <2>7. q \in Nat /\ games = n * q
    <3> HIDE DEF n, games
    <3>1. q \in Int /\ games = n * q + (games % n)
      BY <2>1, ModDivision
    <3>2. games % n = 0
      BY <1>1 DEF n, games
    <3> HIDE DEF q
    <3>3. games = n * q
      BY <2>1, <3>1, <3>2
    <3>4. ~(q < 0)
      <4> SUFFICES ASSUME q < 0 PROVE FALSE
        OBVIOUS
      <4>1. n * q + n <= n * 0
        BY <2>1, <3>1, ProductOrder
      <4>2. QED
        BY <2>1, <3>3, <4>1
    <3>5. QED
      BY <3>1, <3>3, <3>4
  <2> HIDE DEF n, games, q, w
  <2>8. Cardinality(GamesGiven(n, n * q, w, j)) = q
    BY <2>1, <2>3, <2>7, RotationSharesEvenly
  <2>9. run.wins[d] = q
    BY <2>1, <2>6, <2>7, <2>8
  <2>10. QED
    BY <2>9 DEF n, games, q
<1>2. RunInv => SeatBiasCancels
  BY <1>1, Summaries DEF SeatBiasCancels, NumDecks
<1>3. QED
  BY <1>2, RunInvariant, PTL

\* The wins of a summary partition its games.
THEOREM GamesArePartitioned == Spec => []EveryGameWonOnce
<1>1. ASSUME NEW run, Summary(run), NEW k \in DOMAIN run.results
      PROVE  WinningDeck(run.results[k]) \in Members(run.call.decks)
  <2> DEFINE n == NumDecks(run.call)
             w == run.results[k].winner_index + 1
  <2>1. /\ Len(run.results[k].deck_ids) = n
        /\ \A i \in 1 .. n : \E j \in 1 .. n : run.results[k].deck_ids[i] = run.call.decks[j]
    BY <1>1, SummarySeats
  <2>2. n \in Nat \ {0} /\ DOMAIN run.call.decks = 1 .. n
    BY <1>1, SummaryShape
  <2>3. w \in 1 .. n
    <3>1. run.results[k].winner_index \in 0 .. Len(run.results[k].deck_ids) - 1
      BY <1>1 DEF Summary, IsRun, WellFormed
    <3>2. QED
      BY ONLY <2>1, <2>2, <3>1
  <2>4. QED
    BY <2>1, <2>2, <2>3 DEF WinningDeck, Members
<1>2. ASSUME NEW run, Summary(run)
      PROVE  /\ UNION {GamesWonBy(run.results, d) : d \in DOMAIN run.wins} = 1 .. run.call.games
             /\ \A d \in DOMAIN run.wins : run.wins[d] = Cardinality(GamesWonBy(run.results, d))
             /\ \A d, e \in DOMAIN run.wins :
                   d # e => GamesWonBy(run.results, d) \cap GamesWonBy(run.results, e) = {}
  <2>1. /\ DOMAIN run.results = 1 .. run.call.games
        /\ run.wins = WinsByDeck(run.call, run.results)
    BY <1>2, SummaryShape
  <2>2. /\ DOMAIN run.wins = Members(run.call.decks)
        /\ \A d \in DOMAIN run.wins : run.wins[d] = Cardinality(GamesWonBy(run.results, d))
    BY <2>1 DEF WinsByDeck
  <2>3. UNION {GamesWonBy(run.results, d) : d \in DOMAIN run.wins} = 1 .. run.call.games
    <3>1. \A d : GamesWonBy(run.results, d) \subseteq 1 .. run.call.games
      BY <2>1 DEF GamesWonBy
    <3>2. \A k \in 1 .. run.call.games :
             /\ WinningDeck(run.results[k]) \in DOMAIN run.wins
             /\ k \in GamesWonBy(run.results, WinningDeck(run.results[k]))
      BY <1>1, <1>2, <2>1, <2>2 DEF GamesWonBy
    <3>3. QED
      BY <3>1, <3>2
  <2>4. QED
    BY <2>2, <2>3 DEF GamesWonBy
<1>3. RunInv => EveryGameWonOnce
  BY <1>2, Summaries DEF EveryGameWonOnce
<1>4. QED
  BY <1>3, RunInvariant, PTL

-----------------------------------------------------------------------------
(***************************************************************************)
(* Reproducibility.  MockEngine's games are a function of seed and number   *)
(* of players because every game in the results of a mock experiment is a   *)
(* draw, and no two draws of one seed and player count differ.              *)
(***************************************************************************)
DrawOf(c, r) ==
    [seed    |-> r.seed, players |-> Len(c.decks),
     outcome |-> [winner_index |-> r.winner_index, turns |-> r.turns]]

AllDrawn(c, rs) == c.engine = "mock-v1" => \A k \in DOMAIN rs : DrawOf(c, rs[k]) \in drawn

SeededInv ==
    /\ \A d, e \in drawn : SameDraw(d, e) => d = e
    /\ call # NoCall => AllDrawn(call, results)
    /\ \A run \in returned : AllDrawn(run.call, run.results)

LEMMA SeededMock ==
    ASSUME TypeOK, SeededInv, MockPlays
    PROVE  SeededInv'
<1>1. PICK outcome \in Outcomes(Len(call.decks), TurnCounts) :
         /\ \A d \in drawn : SameDraw(d, Draw(outcome)) => d.outcome = outcome
         /\ drawn' = drawn \cup {Draw(outcome)}
         /\ Record(outcome)
  BY DEF MockPlays
<1> DEFINE r == GameResult(call, Len(results), outcome)
<1>2. call # NoCall
  BY DEF MockPlays, NextGame
<1>3. call \in Calls /\ Accepts(call) /\ results \in Seq(ResultType) /\ Len(results) \in Nat
  BY <1>2 DEF TypeOK
<1>4. r \in ResultType
  BY <1>3, PlayedResult
<1>5. DrawOf(call, r) = Draw(outcome)
  <2>1. outcome = [winner_index |-> outcome.winner_index, turns |-> outcome.turns]
    BY DEF Outcomes
  <2>2. QED
    BY <2>1 DEF DrawOf, Draw, GameResult, GameNumber
<1>6. results' = Append(results, r) /\ call' = call /\ returned' = returned
  BY <1>1 DEF Record, GameNumber
<1> HIDE DEF r
<1>7. \A d, e \in drawn' : SameDraw(d, e) => d = e
  <2>1. Draw(outcome) \in DrawType /\ drawn \subseteq DrawType
    BY <1>2, DrawIsTyped DEF TypeOK
  <2>2. Draw(outcome).outcome = outcome
    BY DEF Draw
  <2>3. \A d, e \in DrawType : SameDraw(d, e) /\ d.outcome = e.outcome => d = e
    BY DEF DrawType, SameDraw
  <2>4. \A d, e \in DrawType : SameDraw(d, e) => SameDraw(e, d)
    BY DEF SameDraw
  <2>5. QED
    BY <1>1, <2>1, <2>2, <2>3, <2>4 DEF SeededInv
<1>8. AllDrawn(call, results)'
  <2>1. \A k \in DOMAIN results' : results'[k] = r \/ (k \in DOMAIN results /\ results'[k] = results[k])
    BY <1>3, <1>4, <1>6
  <2>2. QED
    BY <1>1, <1>2, <1>5, <1>6, <2>1 DEF SeededInv, AllDrawn
<1>9. QED
  BY <1>1, <1>6, <1>7, <1>8 DEF SeededInv, AllDrawn

LEMMA SeededNext == TypeOK /\ SeededInv /\ [Next]_vars => SeededInv'
<1> SUFFICES ASSUME TypeOK, SeededInv, [Next]_vars PROVE SeededInv'
  OBVIOUS
<1>1. ASSUME NEW c \in Calls, Start(c) \/ Refuse(c) PROVE SeededInv'
  <2>1. drawn' = drawn /\ returned' = returned /\ results' = results
    BY <1>1 DEF Start, Refuse
  <2>2. results = << >> \/ call' = call
    BY <1>1 DEF Start, Refuse, TypeOK
  <2>3. QED
    BY <2>1, <2>2 DEF SeededInv, AllDrawn
<1>2. CASE MockPlays
  BY <1>2, SeededMock
<1>3. CASE BridgePlays
  <2>1. call.engine # "mock-v1" /\ call' = call /\ drawn' = drawn /\ returned' = returned
    BY <1>3 DEF BridgePlays, NextGame, Record
  <2>2. QED
    BY <2>1 DEF SeededInv, AllDrawn
<1>4. CASE EngineRefuses \/ BridgeFails
  <2>1. call' = NoCall /\ drawn' = drawn /\ returned' = returned
    BY <1>4 DEF EngineRefuses, BridgeFails, Raise
  <2>2. QED
    BY <2>1 DEF SeededInv, AllDrawn
<1>5. CASE Return
  <2>1. /\ call # NoCall /\ call' = NoCall /\ drawn' = drawn
        /\ returned' = returned \cup {FinishedRun}
    BY <1>5 DEF Return
  <2>2. FinishedRun.call = call /\ FinishedRun.results = results
    BY DEF FinishedRun
  <2>3. QED
    BY <2>1, <2>2 DEF SeededInv, AllDrawn
<1>6. CASE UNCHANGED vars
  BY <1>6 DEF vars, SeededInv, AllDrawn
<1>7. QED
  BY <1>1, <1>2, <1>3, <1>4, <1>5, <1>6 DEF Next

\* The seating depends on the game number only up to a full rotation.
LEMMA SeatingPeriodic ==
    ASSUME NEW c \in Calls, Accepts(c), NEW e \in Calls, NEW a \in Int, NEW b \in Int,
           e.decks = c.decks, e.policies = c.policies, e.rotate_seats = c.rotate_seats,
           c.rotate_seats => (a - b) % Len(c.decks) = 0
    PROVE  SeatedDecks(c, a) = SeatedDecks(e, b) /\ SeatedPolicies(c, a) = SeatedPolicies(e, b)
<1>1. /\ c.decks \in Seq(DeckIds) /\ c.decks # << >>
      /\ c.policies \in Seq(PolicyIds) /\ c.policies # << >>
      /\ Len(c.policies) = Len(c.decks) /\ c.rotate_seats \in BOOLEAN
  BY CallFacts DEF NumDecks
<1>2. CASE ~c.rotate_seats
  BY <1>2 DEF SeatedDecks, SeatedPolicies, Offset
<1>3. CASE c.rotate_seats
  <2>1. Rotate(c.decks, a) = Rotate(c.decks, b)
    BY <1>1, <1>3, RotatePeriodic
  <2>2. Rotate(c.policies, a) = Rotate(c.policies, b)
    BY <1>1, <1>3, RotatePeriodic
  <2>3. QED
    BY <1>3, <2>1, <2>2 DEF SeatedDecks, SeatedPolicies, Offset
<1>4. QED
  BY <1>2, <1>3

\* Games of two mock experiments with the same seed and the same place in the
\* rotation are the same game.
THEOREM MockGamesAreReproducible == Spec => []Reproducible
<1>1. ASSUME SeededInv, NEW run \in returned, NEW again \in returned,
             Summary(run), Summary(again),
             run.call.engine = "mock-v1", again.call.engine = "mock-v1",
             run.call.decks = again.call.decks, run.call.policies = again.call.policies,
             run.call.rotate_seats = again.call.rotate_seats,
             NEW j \in DOMAIN run.results, NEW k \in DOMAIN again.results,
             run.call.seed + j = again.call.seed + k,
             run.call.rotate_seats => (j - k) % Len(run.call.decks) = 0
      PROVE  run.results[j] = again.results[k]
  <2> DEFINE r == run.results[j]
             t == again.results[k]
             a == j - 1
             b == k - 1
             c == run.call
             e == again.call
  <2>1. /\ r = GameResult(c, a, r) /\ t = GameResult(e, b, t)
        /\ c \in Calls /\ Accepts(c) /\ e \in Calls /\ Accepts(e)
        /\ a \in Int /\ b \in Int
    BY <1>1 DEF Summary, IsRun
  <2>2. DrawOf(c, r) \in drawn /\ DrawOf(e, t) \in drawn
    BY <1>1 DEF SeededInv, AllDrawn
  <2>3. e.decks = c.decks /\ e.policies = c.policies /\ e.rotate_seats = c.rotate_seats
    BY <1>1
  <2>4. /\ j \in Int /\ k \in Int /\ j = a + 1 /\ k = b + 1
        /\ c.seed + j = e.seed + k
    BY <1>1, SummaryShape
  <2>5. c.rotate_seats => (j - k) % Len(c.decks) = 0
    BY <1>1
  <2> HIDE DEF r, t, a, b, c, e
  <2>6. c.seed + a = e.seed + b /\ j - k = a - b
    <3>1. a \in Int /\ b \in Int /\ c.seed \in Int /\ e.seed \in Int
      BY <2>1, CallFacts
    <3>2. QED
      BY <2>4, <3>1
  <2>7. r.seed = c.seed + a /\ t.seed = e.seed + b
    BY <2>1 DEF GameResult, GameSeed
  <2>8. SameDraw(DrawOf(c, r), DrawOf(e, t))
    BY <2>3, <2>6, <2>7 DEF SameDraw, DrawOf
  <2>9. DrawOf(c, r) = DrawOf(e, t)
    BY <1>1, <2>2, <2>8 DEF SeededInv
  <2>10. r.winner_index = t.winner_index /\ r.turns = t.turns
    BY <2>9 DEF DrawOf
  <2>11. SeatedDecks(c, a) = SeatedDecks(e, b) /\ SeatedPolicies(c, a) = SeatedPolicies(e, b)
    <3>1. c.rotate_seats => (a - b) % Len(c.decks) = 0
      BY <2>6, <2>5
    <3>2. /\ c \in Calls /\ Accepts(c) /\ e \in Calls /\ a \in Int /\ b \in Int
          /\ e.decks = c.decks /\ e.policies = c.policies /\ e.rotate_seats = c.rotate_seats
      BY <2>1, <2>3
    <3>3. QED
      BY <3>1, <3>2, SeatingPeriodic
  <2>12. GameResult(c, a, r) = GameResult(e, b, t)
    BY <2>6, <2>10, <2>11 DEF GameResult, GameSeed
  <2>13. QED
    BY <2>1, <2>12 DEF r, t
<1>2. RunInv /\ SeededInv => Reproducible
  BY <1>1, Summaries DEF Reproducible
<1>3. Init => SeededInv
  BY DEF Init, SeededInv
<1>4. RunInv => TypeOK
  BY DEF RunInv
<1>5. QED
  BY <1>2, <1>3, <1>4, RunInvariant, SeededNext, PTL DEF Spec

-----------------------------------------------------------------------------
(***************************************************************************)
(* Experiments in two parts.  One that is cut after its first m games goes   *)
(* on with the seed of game m; with rotated seats, m fills whole rounds.     *)
(***************************************************************************)
CutAt(c, m, first, second) ==
    /\ first = [c EXCEPT !.games = m]
    /\ second = [c EXCEPT !.games = c.games - m, !.seed = c.seed + m]
    /\ c.rotate_seats => m % Len(c.decks) = 0

\* Two mock experiments that are the parts of a third have its games, in its order, and
\* the wins of each deck add up to its wins there, whatever was run in between
\* (run_experiment's seed + game_number, the same rotation in every call).
PartsMakeTheWhole ==
    \A whole, first, second \in returned :
        whole.call.engine = "mock-v1"
        /\ CutAt(whole.call, first.call.games, first.call, second.call)
            => /\ whole.results = first.results \o second.results
               /\ \A d \in DOMAIN whole.wins : whole.wins[d] = first.wins[d] + second.wins[d]

LEMMA Concatenated ==
    ASSUME NEW S, NEW r \in Seq(S), NEW s \in Seq(S), NEW w \in Seq(S),
           Len(w) = Len(r) + Len(s),
           \A k \in 1 .. Len(r) : w[k] = r[k],
           \A k \in Len(r) + 1 .. Len(w) : w[k] = s[k - Len(r)]
    PROVE  w = r \o s
<1>1. r \o s \in Seq(S) /\ Len(r \o s) = Len(w)
  OBVIOUS
<1>2. \A k \in 1 .. Len(w) : (r \o s)[k] = w[k]
  OBVIOUS
<1>3. QED
  BY <1>1, <1>2

\* The wins of two result lists in one.
LEMMA WinsOfBoth ==
    ASSUME NEW r \in Seq(ResultType), NEW s \in Seq(ResultType), NEW d
    PROVE  Cardinality(GamesWonBy(r \o s, d))
               = Cardinality(GamesWonBy(r, d)) + Cardinality(GamesWonBy(s, d))
<1> DEFINE m == Len(r)
           n == Len(s)
           A == GamesWonBy(r, d)
           B == GamesWonBy(s, d)
           Later == {k \in m + 1 .. m + n : WinningDeck(s[k - m]) = d}
           f == [k \in B |-> k + m]
<1>1. m \in Nat /\ n \in Nat /\ DOMAIN r = 1 .. m /\ DOMAIN s = 1 .. n
      /\ DOMAIN (r \o s) = 1 .. m + n
      /\ (\A k \in 1 .. m : (r \o s)[k] = r[k])
      /\ \A k \in m + 1 .. m + n : (r \o s)[k] = s[k - m]
  OBVIOUS
<1>2. A \subseteq 1 .. m /\ B \subseteq 1 .. n
  BY <1>1 DEF GamesWonBy
<1>3. \A k \in B : k \in 1 .. n /\ WinningDeck(s[k]) = d
  BY <1>1 DEF GamesWonBy
<1>4. \A k \in 1 .. n : WinningDeck(s[k]) = d => k \in B
  BY <1>1 DEF GamesWonBy
<1>5. GamesWonBy(r \o s, d) = A \cup Later
  <2>1. \A k : k \in GamesWonBy(r \o s, d) <=> k \in 1 .. m + n /\ WinningDeck((r \o s)[k]) = d
    BY <1>1 DEF GamesWonBy
  <2>2. \A k : k \in A <=> k \in 1 .. m /\ WinningDeck(r[k]) = d
    BY <1>1 DEF GamesWonBy
  <2>3. \A k : k \in 1 .. m + n <=> k \in 1 .. m \/ k \in m + 1 .. m + n
    BY <1>1
  <2> HIDE DEF m, n, A
  <2>4. QED
    BY <1>1, <2>1, <2>2, <2>3
<1> HIDE DEF m, n, A, B
<1>6. IsFiniteSet(A) /\ IsFiniteSet(B)
  <2>1. IsFiniteSet(1 .. m) /\ IsFiniteSet(1 .. n)
    BY <1>1, FS_Interval
  <2>2. QED
    BY <1>2, <2>1, FS_Subset
<1>7. A \cap Later = {}
  BY <1>1, <1>2
<1>8. f \in Bijection(B, Later)
  <2>1. \A k \in B : k \in Int /\ k + m \in m + 1 .. m + n /\ (k + m) - m = k
    BY <1>1, <1>3
  <2>2. f \in [B -> Later]
    BY <1>3, <2>1
  <2>3. \A j, k \in B : f[j] = f[k] => j = k
    BY <1>1, <2>1
  <2>4. \A k \in Later : \E j \in B : f[j] = k
    <3> SUFFICES ASSUME NEW k \in Later PROVE \E j \in B : f[j] = k
      OBVIOUS
    <3>1. k \in Int /\ k - m \in 1 .. n /\ (k - m) + m = k
      BY <1>1
    <3>2. k - m \in B
      BY <1>4, <3>1
    <3>3. QED
      BY <3>1, <3>2
  <2>5. QED
    BY <2>2, <2>3, <2>4 DEF Bijection, Injection, Surjection, IsInjective
<1>9. IsFiniteSet(Later) /\ Cardinality(Later) = Cardinality(B)
  <2>1. ExistsBijection(B, Later)
    BY <1>8 DEF ExistsBijection
  <2>2. QED
    BY <1>6, <2>1, FS_Bijection
<1>10. Cardinality(A \cup Later) = Cardinality(A) + Cardinality(Later) - Cardinality(A \cap Later)
  BY <1>6, <1>9, FS_Union
<1>11. Cardinality(A \cap Later) = 0 /\ Cardinality(A) \in Nat /\ Cardinality(Later) \in Nat
  BY <1>6, <1>7, <1>9, FS_EmptySet, FS_CardinalityType
<1>12. QED
  BY <1>5, <1>9, <1>10, <1>11 DEF A, B

\* Cutting a mock experiment changes nothing but the number of summaries, for any
\* number of games and decks.
THEOREM PartsAddUp == Spec => []PartsMakeTheWhole
<1>1. ASSUME Reproducible, NEW whole \in returned, NEW first \in returned, NEW second \in returned,
             Summary(whole), Summary(first), Summary(second), whole.call.engine = "mock-v1",
             CutAt(whole.call, first.call.games, first.call, second.call)
      PROVE  /\ whole.results = first.results \o second.results
             /\ \A d \in DOMAIN whole.wins : whole.wins[d] = first.wins[d] + second.wins[d]
  <2> DEFINE m == first.call.games
             c == whole.call
  <2>1. /\ m \in Nat \ {0} /\ DOMAIN first.results = 1 .. m
        /\ c.games \in Nat \ {0} /\ DOMAIN whole.results = 1 .. c.games
        /\ second.call.games \in Nat \ {0} /\ DOMAIN second.results = 1 .. second.call.games
        /\ Len(c.decks) \in Nat \ {0} /\ c.seed \in Int
    BY <1>1, SummaryShape, CallFacts DEF Summary, IsRun, NumDecks
  <2>2. /\ first.call.decks = c.decks /\ first.call.policies = c.policies
        /\ first.call.rotate_seats = c.rotate_seats /\ first.call.engine = c.engine
        /\ first.call.seed = c.seed
        /\ second.call.decks = c.decks /\ second.call.policies = c.policies
        /\ second.call.rotate_seats = c.rotate_seats /\ second.call.engine = c.engine
        /\ second.call.seed = c.seed + m /\ second.call.games = c.games - m
    <3>1. c \in CallType
      BY <1>1, CallsAssumption DEF Summary
    <3>2. QED
      BY <1>1, <3>1 DEF CutAt, CallType
  <2>3. c.rotate_seats => m % Len(c.decks) = 0
    BY <1>1 DEF CutAt
  <2>4. /\ first.results \in Seq(ResultType) /\ second.results \in Seq(ResultType)
        /\ whole.results \in Seq(ResultType)
    BY <1>1 DEF Summary
  <2>5. ASSUME NEW k \in 1 .. m PROVE whole.results[k] = first.results[k]
    <3>1. k \in DOMAIN whole.results /\ k \in DOMAIN first.results
      BY <2>1, <2>2
    <3>2. (k - k) % Len(c.decks) = 0
      <4>1. k - k = 0
        BY <2>1
      <4>2. 0 % Len(c.decks) = 0
        BY <2>1, ZeroMod
      <4>3. QED
        BY <4>1, <4>2
    <3>3. QED
      BY <1>1, <2>2, <3>1, <3>2 DEF Reproducible
  <2>6. ASSUME NEW k \in m + 1 .. c.games PROVE whole.results[k] = second.results[k - m]
    <3>1. k \in DOMAIN whole.results /\ k - m \in DOMAIN second.results
      BY <2>1, <2>2
    <3>2. c.seed + k = (c.seed + m) + (k - m) /\ k - (k - m) = m
      BY <2>1
    <3>3. c.rotate_seats => (k - (k - m)) % Len(c.decks) = 0
      BY <2>3, <3>2
    <3>4. QED
      BY <1>1, <2>2, <3>1, <3>2, <3>3 DEF Reproducible
  <2>7. whole.results = first.results \o second.results
    <3>1. Len(first.results) = m /\ Len(second.results) = c.games - m /\ Len(whole.results) = c.games
      BY <2>1, <2>2, <2>4
    <3>2. Len(whole.results) = Len(first.results) + Len(second.results)
      BY <2>1, <3>1
    <3>3. \A k \in 1 .. Len(first.results) : whole.results[k] = first.results[k]
      BY <2>5, <3>1
    <3>4. \A k \in Len(first.results) + 1 .. Len(whole.results) :
             whole.results[k] = second.results[k - Len(first.results)]
      BY <2>6, <3>1
    <3>5. QED
      BY <2>4, <3>2, <3>3, <3>4, Concatenated
  <2>8. ASSUME NEW d \in DOMAIN whole.wins
        PROVE  whole.wins[d] = first.wins[d] + second.wins[d]
    <3>1. /\ whole.wins = WinsByDeck(c, whole.results)
          /\ first.wins = WinsByDeck(first.call, first.results)
          /\ second.wins = WinsByDeck(second.call, second.results)
      BY <1>1 DEF Summary, IsRun
    <3>2. d \in Members(c.decks)
      BY <3>1 DEF WinsByDeck
    <3>3. /\ whole.wins[d] = Cardinality(GamesWonBy(whole.results, d))
          /\ first.wins[d] = Cardinality(GamesWonBy(first.results, d))
          /\ second.wins[d] = Cardinality(GamesWonBy(second.results, d))
      BY <2>2, <3>1, <3>2 DEF WinsByDeck
    <3>4. QED
      BY <2>4, <2>7, <3>3, WinsOfBoth
  <2>9. QED
    BY <2>7, <2>8
<1>2. RunInv /\ Reproducible => PartsMakeTheWhole
  BY <1>1, Summaries DEF PartsMakeTheWhole
<1>3. QED
  BY <1>2, RunInvariant, MockGamesAreReproducible, PTL

-----------------------------------------------------------------------------
(***************************************************************************)
(* The engine behind play_game.                                            *)
(***************************************************************************)

\* The arguments of play_game in game k of a call.
GameRequest(c, k) ==
    [decks |-> SeatedDecks(c, k), policies |-> SeatedPolicies(c, k), seed |-> GameSeed(c, k)]

\* The contract of an engine, of which only what it says of a result is used.
Engine ==
    INSTANCE GameEngine WITH
        Requests <- {GameRequest(c, k) : c \in Calls, k \in Nat},
        None     <- NoCall,
        request  <- NoCall,
        reply    <- NoCall

AnyResult ==
    [winner_index : Int, turns : Int, seed : Int,
     deck_ids : Seq(DeckIds), policy_ids : Seq(PolicyIds)]

\* The results an engine may return by its contract are those run_experiment takes it to
\* return: the game that was asked for, with some winner and some number of turns.  So
\* what is shown of summaries holds for every implementation of GameEngine.
THEOREM EnginesFitTheLoop ==
    ASSUME NEW c \in Calls, Accepts(c), NEW k \in Nat, NEW result \in AnyResult
    PROVE  Engine!IsResultOf(result, GameRequest(c, k))
               <=> \E outcome \in Outcomes(Len(c.decks), Nat \ {0}) :
                      result = GameResult(c, k, outcome)
<1>1. /\ Len(SeatedDecks(c, k)) = NumDecks(c) /\ Len(SeatedPolicies(c, k)) = NumDecks(c)
      /\ NumDecks(c) \in Nat \ {0} /\ Len(c.decks) = NumDecks(c)
  BY Seating, CallFacts DEF NumDecks
<1>2. ASSUME Engine!IsResultOf(result, GameRequest(c, k))
      PROVE  \E outcome \in Outcomes(Len(c.decks), Nat \ {0}) :
                result = GameResult(c, k, outcome)
  <2> DEFINE outcome == [winner_index |-> result.winner_index, turns |-> result.turns]
  <2>1. /\ result.deck_ids = SeatedDecks(c, k) /\ result.policy_ids = SeatedPolicies(c, k)
        /\ result.seed = GameSeed(c, k) /\ WellFormed(result)
    BY <1>2 DEF Engine!IsResultOf, Engine!WellFormed, WellFormed, GameRequest
  <2>2. outcome \in Outcomes(Len(c.decks), Nat \ {0})
    BY <1>1, <2>1 DEF WellFormed, Outcomes, AnyResult
  <2>3. result = GameResult(c, k, outcome)
    BY <2>1 DEF GameResult, AnyResult
  <2>4. QED
    BY <2>2, <2>3
<1>3. ASSUME NEW outcome \in Outcomes(Len(c.decks), Nat \ {0}), result = GameResult(c, k, outcome)
      PROVE  Engine!IsResultOf(result, GameRequest(c, k))
  <2>1. /\ result.deck_ids = SeatedDecks(c, k) /\ result.policy_ids = SeatedPolicies(c, k)
        /\ result.seed = GameSeed(c, k)
        /\ result.winner_index = outcome.winner_index /\ result.turns = outcome.turns
    BY <1>3 DEF GameResult
  <2>2. WellFormed(result)
    BY <1>1, <2>1 DEF WellFormed, Outcomes
  <2>3. QED
    BY <2>1, <2>2 DEF Engine!IsResultOf, Engine!WellFormed, WellFormed, GameRequest
<1>4. QED
  BY <1>2, <1>3

\* What run_experiment returns may be handed to save_experiment: it is what the store
\* asks of its requests, whatever the engine did.
RunsCanBeSaved == \A run \in returned : IsRun(run) /\ run.call.games \in Nat

\* The assumption of module ExperimentStore on its requests is what module Experiment
\* guarantees of its summaries.
THEOREM SummariesFitTheStore == Spec => []RunsCanBeSaved
<1>1. RunInv => RunsCanBeSaved
  <2> SUFFICES ASSUME RunInv, NEW run \in returned PROVE IsRun(run) /\ run.call.games \in Nat
    BY DEF RunsCanBeSaved
  <2>1. Summary(run)
    BY Summaries
  <2>2. QED
    BY <2>1, SummaryShape DEF Summary
<1>2. QED
  BY <1>1, RunInvariant, PTL
=============================================================================
