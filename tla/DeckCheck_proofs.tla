--------------------------- MODULE DeckCheck_proofs ---------------------------
(***************************************************************************)
(* Theorems about module DeckCheck, for deck files of any lines and catalogs  *)
(* of any printings, in any order.                                          *)
(***************************************************************************)
EXTENDS DeckCheck, FiniteSetTheorems, TLAPS

-----------------------------------------------------------------------------
(***************************************************************************)
(* The inductive invariant.                                                *)
(***************************************************************************)
\* Where the script is, and how far it has read.
Stages ==
    /\ pc = "parsing" => catalog = None
    /\ pc = "indexing" => catalog # None
    /\ Checked => catalog # None /\ position = Len(catalog)

\* A line i would stand in a section.
StandsIn(section, i) ==
    \/ \E h \in 1 .. i - 1 :
          /\ text[h].kind = "heading" /\ text[h].section = section
          /\ \A k \in h + 1 .. i - 1 : text[k].kind # "heading"
    \/ section = "deck" /\ \A k \in 1 .. i - 1 : text[k].kind # "heading"

\* The lines of a section among the first n.
LinesUpTo(section, n) == {i \in LinesIn(section) : i <= n}

\* The cards of a section are those of these lines, in their order.
Holds(entries, lines) ==
    /\ Len(entries) = Cardinality(lines)
    /\ \A i \in lines :
          entries[Rank(lines, i)] = [quantity |-> text[i].quantity, name |-> text[i].name]

\* The deck so far has the lines read so far, and the next line stands in the section
\* the parser is in.
DeckSoFar ==
    catalog = None =>
        \A section \in Sections :
            /\ StandsIn(section, position + 1) <=> section = parse.section
            /\ Holds(parse[section], LinesUpTo(section, position))

\* The printings that have a name, among the first n.
PrintingsUpTo(name, n) == {i \in PrintingsOf(name) : i <= n}

LegalOnes(printings) == {i \in printings : catalog[i].commander_legal}
Best(printings) == IF LegalOnes(printings) # {} THEN LegalOnes(printings) ELSE printings

\* An entry of the index is the first of the best of some printings.
FirstOfBest(entry, printings) ==
    IF printings = {} THEN entry = NoEntry
    ELSE \E i \in Best(printings) : entry = catalog[i] /\ \A k \in Best(printings) : i <= k

\* The index so far leads to the best of the printings so far.
IndexSoFar ==
    IF catalog = None THEN index = EmptyIndex
    ELSE \A name \in CardNames : FirstOfBest(index[name], PrintingsUpTo(name, position))

IInv == TypeOK /\ Stages /\ DeckSoFar /\ DeckIsTheFile /\ IndexSoFar

\* A deck is valid when there is nothing to report of it.
Judged == Checked => (pc = "valid" <=> Issues(parse, index) = {})

-----------------------------------------------------------------------------
(***************************************************************************)
(* The parser.                                                             *)
(***************************************************************************)
LEMMA LineFields ==
    ASSUME NEW line \in Line
    PROVE  /\ line.kind \in {"heading", "skip", "malformed", "card"}
           /\ line.kind = "heading" => line.section \in Sections
           /\ line.kind = "card" => line.quantity \in Nat /\ line.name \in Names
BY DEF Line

\* What a line does to the deck: a heading changes the section, a card line adds its
\* card to the section, any other line nothing.
LEMMA ParseLineIs ==
    ASSUME NEW line \in Line, ~Refused(line),
           NEW p \in [section : Sections, commander : Seq(Entry), deck : Seq(Entry)]
    PROVE  LET next == ParseLine(p, line)
               card == [quantity |-> line.quantity, name |-> line.name]
           IN  /\ next \in [section : Sections, commander : Seq(Entry), deck : Seq(Entry)]
               /\ next.section = IF line.kind = "heading" THEN line.section ELSE p.section
               /\ \A section \in Sections :
                     next[section] = IF line.kind = "card" /\ section = p.section
                                     THEN Append(p[section], card) ELSE p[section]
<1> DEFINE next == ParseLine(p, line)
           card == [quantity |-> line.quantity, name |-> line.name]
<1>1. CASE line.kind = "heading"
  <2>1. next = [p EXCEPT !.section = line.section] /\ line.section \in Sections
    BY <1>1, LineFields DEF ParseLine
  <2>2. QED
    BY <1>1, <2>1 DEF Sections
<1>2. CASE line.kind = "card"
  <2>1. next = [p EXCEPT ![p.section] = Append(p[p.section], card)]
    BY <1>2 DEF ParseLine
  <2>2. card \in Entry
    BY <1>2, LineFields DEF Entry, Refused
  <2> HIDE DEF card
  <2>3. CASE p.section = "deck"
    <3>1. next = [p EXCEPT !["deck"] = Append(p["deck"], card)]
          /\ Append(p.deck, card) \in Seq(Entry)
      BY <2>1, <2>2, <2>3
    <3>2. QED
      BY <1>2, <2>3, <3>1 DEF Sections, card
  <2>4. CASE p.section = "commander"
    <3>1. next = [p EXCEPT !["commander"] = Append(p["commander"], card)]
          /\ Append(p.commander, card) \in Seq(Entry)
      BY <2>1, <2>2, <2>4
    <3>2. QED
      BY <1>2, <2>4, <3>1 DEF Sections, card
  <2>5. QED
    BY <2>3, <2>4 DEF Sections
<1>3. CASE line.kind \notin {"heading", "card"}
  <2>1. next = p
    BY <1>3 DEF ParseLine
  <2>2. QED
    BY <1>3, <2>1
<1>4. QED
  BY <1>1, <1>2, <1>3

LEMMA TextFacts ==
    TypeOK => /\ text \in Seq(Line) /\ Len(text) \in Nat /\ DOMAIN text = 1 .. Len(text)
              /\ \A i \in 1 .. Len(text) : text[i] \in Line
<1>1. TypeOK => text \in Seq(Line)
  BY DEF TypeOK
<1>2. QED
  BY <1>1

\* After a heading, the section it names; after any other line, the same as before.
LEMMA StandsNext ==
    ASSUME TypeOK, NEW n \in Nat, n < Len(text), NEW section
    PROVE  StandsIn(section, n + 2) <=>
               IF text[n + 1].kind = "heading" THEN text[n + 1].section = section
               ELSE StandsIn(section, n + 1)
<1>1. 1 .. (n + 2) - 1 = (1 .. (n + 1) - 1) \cup {n + 1} /\ n + 1 \in 1 .. (n + 2) - 1
  OBVIOUS
<1>2. \A h \in 1 .. n : h + 1 .. (n + 2) - 1 = (h + 1 .. (n + 1) - 1) \cup {n + 1}
  OBVIOUS
<1>3. n + 1 + 1 .. (n + 2) - 1 = {} /\ 1 .. (n + 1) - 1 = 1 .. n
  OBVIOUS
<1>4. CASE text[n + 1].kind = "heading"
  <2>1. ~(\A k \in 1 .. (n + 2) - 1 : text[k].kind # "heading")
    BY <1>1, <1>4
  <2>2. \A h \in 1 .. n : ~(\A k \in h + 1 .. (n + 2) - 1 : text[k].kind # "heading")
    BY <1>2, <1>4
  <2>3. \A h \in 1 .. (n + 2) - 1 : h \in 1 .. n \/ h = n + 1
    BY <1>1, <1>3
  <2>4. ASSUME StandsIn(section, n + 2) PROVE text[n + 1].section = section
    BY <2>1, <2>2, <2>3, <2>4 DEF StandsIn
  <2>5. ASSUME text[n + 1].section = section PROVE StandsIn(section, n + 2)
    BY <1>1, <1>3, <1>4, <2>5 DEF StandsIn
  <2>6. QED
    BY <1>4, <2>4, <2>5
<1>5. CASE text[n + 1].kind # "heading"
  <2>1. ASSUME NEW h \in 1 .. n
        PROVE  (\A k \in h + 1 .. (n + 2) - 1 : text[k].kind # "heading") <=>
                   (\A k \in h + 1 .. (n + 1) - 1 : text[k].kind # "heading")
    BY <1>2, <1>5
  <2>2. (\A k \in 1 .. (n + 2) - 1 : text[k].kind # "heading") <=>
            (\A k \in 1 .. (n + 1) - 1 : text[k].kind # "heading")
    BY <1>1, <1>5
  <2>3. (\E h \in 1 .. (n + 2) - 1 :
            /\ text[h].kind = "heading" /\ text[h].section = section
            /\ \A k \in h + 1 .. (n + 2) - 1 : text[k].kind # "heading")
        <=> (\E h \in 1 .. (n + 1) - 1 :
                /\ text[h].kind = "heading" /\ text[h].section = section
                /\ \A k \in h + 1 .. (n + 1) - 1 : text[k].kind # "heading")
    BY <1>1, <1>3, <1>5, <2>1
  <2>4. QED
    BY <1>5, <2>2, <2>3 DEF StandsIn
<1>6. QED
  BY <1>4, <1>5

\* The next line is one of a section if it is a card line and stands in it.
LEMMA LinesNext ==
    ASSUME TypeOK, NEW n \in Nat, n < Len(text), NEW section
    PROVE  LinesUpTo(section, n + 1) =
               IF text[n + 1].kind = "card" /\ StandsIn(section, n + 1)
               THEN LinesUpTo(section, n) \cup {n + 1} ELSE LinesUpTo(section, n)
<1>1. \A i \in DOMAIN text :
          i \in LinesIn(section) <=> text[i].kind = "card" /\ StandsIn(section, i)
  BY DEF LinesIn, StandsIn
<1>2. LinesIn(section) \subseteq DOMAIN text /\ DOMAIN text \subseteq Nat /\ n + 1 \in DOMAIN text
  BY TextFacts DEF LinesIn
<1>3. \A i \in DOMAIN text : i <= n + 1 <=> i <= n \/ i = n + 1
  BY <1>2
<1>4. QED
  BY <1>1, <1>2, <1>3 DEF LinesUpTo

LEMMA LinesFinite ==
    ASSUME TypeOK, NEW section, NEW n \in Nat
    PROVE  /\ IsFiniteSet(LinesUpTo(section, n)) /\ LinesUpTo(section, n) \subseteq 1 .. n
           /\ LinesUpTo(section, n) \subseteq 1 .. Len(text)
<1>1. LinesUpTo(section, n) \subseteq 1 .. n /\ LinesUpTo(section, n) \subseteq 1 .. Len(text)
  BY TextFacts DEF LinesUpTo, LinesIn
<1>2. IsFiniteSet(1 .. n)
  BY FS_Interval
<1>3. QED
  BY <1>1, <1>2, FS_Subset

\* An entry for the line after these lines goes to the end.
LEMMA HoldsNext ==
    ASSUME NEW entries \in Seq(Entry), NEW n \in Nat, NEW lines \in SUBSET (1 .. n),
           IsFiniteSet(lines), Holds(entries, lines),
           NEW card \in Entry,
           card = [quantity |-> text[n + 1].quantity, name |-> text[n + 1].name]
    PROVE  Holds(Append(entries, card), lines \cup {n + 1})
<1> DEFINE more == lines \cup {n + 1}
<1>1. n + 1 \notin lines /\ Cardinality(lines) \in Nat
  BY FS_CardinalityType
<1>2. Cardinality(more) = Cardinality(lines) + 1
  BY <1>1, FS_AddElement
<1>3. Len(Append(entries, card)) = Cardinality(more)
  BY <1>2 DEF Holds
<1>4. ASSUME NEW i \in lines
      PROVE  Append(entries, card)[Rank(more, i)] =
                 [quantity |-> text[i].quantity, name |-> text[i].name]
  <2>1. {k \in more : k <= i} = {k \in lines : k <= i}
    OBVIOUS
  <2>2. Rank(more, i) = Rank(lines, i)
    BY <2>1 DEF Rank
  <2>3. Rank(lines, i) \in 1 .. Len(entries)
    <3> DEFINE below == {k \in lines : k <= i}
    <3>1. IsFiniteSet(below) /\ Cardinality(below) <= Cardinality(lines)
      BY FS_Subset
    <3>2. Cardinality(below) \in Nat /\ Cardinality(below) # 0
      <4>1. i \in below
        OBVIOUS
      <4> HIDE DEF below
      <4>2. QED
        BY <3>1, <4>1, FS_EmptySet, FS_CardinalityType
    <3>3. QED
      BY <1>1, <3>1, <3>2 DEF Rank, Holds
  <2>4. Append(entries, card)[Rank(lines, i)] = entries[Rank(lines, i)]
    BY <2>3
  <2>5. QED
    BY <2>2, <2>4 DEF Holds
<1>5. Append(entries, card)[Rank(more, n + 1)] =
          [quantity |-> text[n + 1].quantity, name |-> text[n + 1].name]
  <2>1. {k \in more : k <= n + 1} = more
    <3>1. \A k \in more : k <= n + 1
      OBVIOUS
    <3> HIDE DEF more
    <3>2. QED
      BY <3>1
  <2>2. Rank(more, n + 1) = Len(entries) + 1
    BY <1>2, <2>1 DEF Rank, Holds
  <2>3. QED
    BY <2>2
<1>6. QED
  BY <1>3, <1>4, <1>5 DEF Holds

-----------------------------------------------------------------------------
(***************************************************************************)
(* The index.                                                              *)
(***************************************************************************)
LEMMA CatalogFacts ==
    ASSUME TypeOK, catalog # None
    PROVE  /\ catalog \in Seq(Printing) /\ Len(catalog) \in Nat
           /\ DOMAIN catalog = 1 .. Len(catalog)
           /\ \A i \in 1 .. Len(catalog) : catalog[i] \in Printing /\ catalog[i] # NoEntry
<1>1. catalog \in Seq(Printing)
  BY DEF TypeOK
<1>2. QED
  BY <1>1, NoneAssumption

LEMMA PrintingsNext ==
    ASSUME TypeOK, catalog # None, NEW n \in Nat, n < Len(catalog), NEW name
    PROVE  /\ PrintingsUpTo(name, n) \subseteq 1 .. n
           /\ PrintingsUpTo(name, n + 1) =
                  IF catalog[n + 1].usable /\ name \in NameAliases(catalog[n + 1])
                  THEN PrintingsUpTo(name, n) \cup {n + 1} ELSE PrintingsUpTo(name, n)
<1>1. DOMAIN catalog = 1 .. Len(catalog) /\ Len(catalog) \in Nat
  BY CatalogFacts
<1>2. n + 1 \in DOMAIN catalog /\ \A i \in DOMAIN catalog : i <= n + 1 <=> i <= n \/ i = n + 1
  BY <1>1
<1>3. PrintingsUpTo(name, n) \subseteq 1 .. n
  BY <1>1 DEF PrintingsUpTo, PrintingsOf
<1>4. QED
  BY <1>2, <1>3 DEF PrintingsUpTo, PrintingsOf

\* A printing is the first of itself.
LEMMA OnlyOne ==
    ASSUME NEW i \in Nat, NEW best, best = {i}
    PROVE  \E k \in best : catalog[i] = catalog[k] /\ \A m \in best : k <= m
<1>1. i <= i
  OBVIOUS
<1>2. QED
  BY <1>1, Zenon

\* One more printing: _prefer_card keeps the first of the best.
LEMMA PreferFirstOfBest ==
    ASSUME TypeOK, catalog # None, NEW n \in Nat, NEW next, next = n + 1, next <= Len(catalog), NEW entry,
           NEW printings \in SUBSET (1 .. n), FirstOfBest(entry, printings)
    PROVE  FirstOfBest(PreferCard(entry, catalog[next]), printings \cup {next})
<1> DEFINE more == printings \cup {next}
           candidate == catalog[next]
<1> SUFFICES FirstOfBest(PreferCard(entry, candidate), more)
  OBVIOUS
<1>1. more # {} /\ next \in Nat /\ \A i \in printings : i \in Nat /\ i <= next /\ i \in 1 .. Len(catalog)
  BY CatalogFacts
<1>2. LegalOnes(more) = IF candidate.commander_legal THEN LegalOnes(printings) \cup {next}
                                                     ELSE LegalOnes(printings)
  BY DEF LegalOnes
<1>3. CASE printings = {}
  <2>1. PreferCard(entry, candidate) = candidate
    BY <1>3 DEF FirstOfBest, PreferCard
  <2>2. Best(more) = {next}
    BY <1>3 DEF Best, LegalOnes
  <2>3. \E i \in Best(more) : candidate = catalog[i] /\ \A k \in Best(more) : i <= k
    BY <1>1, <2>2, OnlyOne
  <2> HIDE DEF more, candidate
  <2>4. QED
    BY <1>1, <2>1, <2>3 DEF FirstOfBest
<1>4. CASE printings # {}
  <2>1. PICK i \in Best(printings) : entry = catalog[i] /\ \A k \in Best(printings) : i <= k
    BY <1>4 DEF FirstOfBest
  <2>2. i \in printings /\ entry # NoEntry /\ Best(printings) \subseteq printings
    BY <1>1, <2>1, CatalogFacts DEF Best, LegalOnes
  <2>3. entry.commander_legal <=> LegalOnes(printings) # {}
    BY <2>1, <2>2 DEF Best, LegalOnes
  <2>4. CASE candidate.commander_legal /\ ~entry.commander_legal
    <3>1. PreferCard(entry, candidate) = candidate
      BY <2>4 DEF PreferCard
    <3>2. Best(more) = {next}
      BY <1>2, <2>3, <2>4 DEF Best
    <3>3. \E k \in Best(more) : candidate = catalog[k] /\ \A m \in Best(more) : k <= m
      BY <1>1, <3>2, OnlyOne
    <3> HIDE DEF more, candidate
    <3>4. QED
      BY <1>1, <3>1, <3>3 DEF FirstOfBest
  <2>5. CASE ~(candidate.commander_legal /\ ~entry.commander_legal)
    <3>1. PreferCard(entry, candidate) = entry
      BY <2>2, <2>5 DEF PreferCard
    <3>2. Best(more) \subseteq Best(printings) \cup {next} /\ Best(printings) \subseteq Best(more)
      BY <1>2, <2>3, <2>5 DEF Best
    <3>3. \A k \in Best(more) : i <= k
      BY <1>1, <2>1, <2>2, <3>2
    <3>4. i \in Best(more) /\ entry = catalog[i]
      BY <2>1, <3>2
    <3> HIDE DEF more, candidate
    <3>5. QED
      BY <1>1, <3>1, <3>3, <3>4 DEF FirstOfBest
  <2>6. QED
    BY <2>4, <2>5
<1>5. QED
  BY <1>3, <1>4

-----------------------------------------------------------------------------
(***************************************************************************)
(* The steps.                                                              *)
(***************************************************************************)
LEMMA InitIInv == Init => IInv
<1> SUFFICES ASSUME Init PROVE IInv
  OBVIOUS
<1>1. text \in Seq(Line)
  BY TextsAssumption DEF Init
<1>2. << >> \in Seq(Entry)
  OBVIOUS
<1>3. EmptyParse \in [section : Sections, commander : Seq(Entry), deck : Seq(Entry)]
  BY <1>2 DEF EmptyParse, Sections
<1>4. TypeOK
  BY <1>1, <1>3 DEF Init, TypeOK, EmptyIndex
<1>5. Stages /\ IndexSoFar /\ DeckIsTheFile
  BY DEF Init, Stages, IndexSoFar, DeckIsTheFile, Checked
<1>6. ASSUME NEW section \in Sections
      PROVE  /\ StandsIn(section, position + 1) <=> section = parse.section
             /\ Holds(parse[section], LinesUpTo(section, position))
  <2>1. position = 0 /\ parse.section = "deck"
    BY DEF Init, EmptyParse
  <2>2. LinesUpTo(section, 0) = {}
    BY <1>4, LinesFinite
  <2>3. parse[section] = << >>
    BY DEF Init, EmptyParse, Sections
  <2>4. StandsIn(section, 1) <=> section = "deck"
    BY DEF StandsIn
  <2>5. Holds(<< >>, {})
    BY FS_EmptySet DEF Holds
  <2>6. position + 1 = 1
    BY <2>1
  <2>7. StandsIn(section, position + 1) <=> section = parse.section
    <3>1. StandsIn(section, position + 1) <=> section = "deck"
      BY <2>4, <2>6, Zenon
    <3>2. QED
      BY <3>1, <2>1, Zenon
  <2>8. Holds(parse[section], LinesUpTo(section, position))
    <3>1. LinesUpTo(section, position) = {}
      BY <2>1, <2>2, Zenon
    <3>2. QED
      BY <3>1, <2>3, <2>5, Zenon
  <2>9. QED
    BY <2>7, <2>8
<1>7. DeckSoFar
  BY <1>6 DEF DeckSoFar
<1>8. QED
  BY <1>4, <1>5, <1>7 DEF IInv

LEMMA ReadLineStep ==
    ASSUME IInv, ReadLine
    PROVE  IInv'
<1> DEFINE line == text[position + 1]
<1>1. TypeOK /\ Stages /\ DeckSoFar /\ catalog = None /\ index = EmptyIndex
  BY DEF IInv, Stages, ReadLine, IndexSoFar
<1>2. /\ position \in Nat /\ position < Len(text) /\ line \in Line /\ ~Refused(line)
      /\ parse \in [section : Sections, commander : Seq(Entry), deck : Seq(Entry)]
  <2>1. position \in 0 .. Len(text)
    BY <1>1 DEF TypeOK
  <2>2. QED
    BY <1>1, <2>1, TextFacts DEF ReadLine, TypeOK
<1>3. /\ parse' \in [section : Sections, commander : Seq(Entry), deck : Seq(Entry)]
      /\ parse'.section = IF line.kind = "heading" THEN line.section ELSE parse.section
      /\ \A section \in Sections :
            parse'[section] = IF line.kind = "card" /\ section = parse.section
                              THEN Append(parse[section],
                                          [quantity |-> line.quantity, name |-> line.name])
                              ELSE parse[section]
  <2>1. parse' = ParseLine(parse, line)
    BY DEF ReadLine
  <2> HIDE DEF line
  <2>2. QED
    BY <1>2, <2>1, ParseLineIs
<1>4. position' = position + 1 /\ UNCHANGED <<text, catalog, index, pc, issues>>
  BY DEF ReadLine
<1>5. TypeOK'
  <2>1. position' \in 0 .. Len(text)
    BY <1>2, <1>4, <1>1, TextFacts
  <2>2. QED
    BY <1>1, <1>3, <1>4, <2>1 DEF TypeOK
<1>6. ASSUME NEW section \in Sections
      PROVE  /\ StandsIn(section, position + 2) <=> section = parse'.section
             /\ Holds(parse'[section], LinesUpTo(section, position + 1))
  <2>1. /\ StandsIn(section, position + 1) <=> section = parse.section
        /\ Holds(parse[section], LinesUpTo(section, position))
    BY <1>1 DEF DeckSoFar
  <2>2. StandsIn(section, position + 2) <=> section = parse'.section
    BY <1>1, <1>2, <1>3, <2>1, StandsNext
  <2>3. LinesUpTo(section, position + 1) =
            IF line.kind = "card" /\ section = parse.section
            THEN LinesUpTo(section, position) \cup {position + 1} ELSE LinesUpTo(section, position)
    BY <1>1, <1>2, <2>1, LinesNext
  <2>4. CASE line.kind = "card" /\ section = parse.section
    <3> DEFINE card == [quantity |-> line.quantity, name |-> line.name]
    <3>1. card \in Entry
      BY <1>2, <2>4, LineFields DEF Entry, Refused
    <3>2. parse[section] \in Seq(Entry)
      BY <1>2 DEF Sections
    <3>3. /\ LinesUpTo(section, position) \in SUBSET (1 .. position)
          /\ IsFiniteSet(LinesUpTo(section, position))
      BY <1>1, <1>2, LinesFinite
    <3>4. card = [quantity |-> text[position + 1].quantity, name |-> text[position + 1].name]
      OBVIOUS
    <3>5. parse'[section] = Append(parse[section], card)
      BY <1>3, <2>4
    <3> HIDE DEF card
    <3>6. Holds(Append(parse[section], card), LinesUpTo(section, position) \cup {position + 1})
      BY <1>2, <2>1, <3>1, <3>2, <3>3, <3>4, HoldsNext
    <3>7. QED
      BY <2>2, <2>3, <2>4, <3>5, <3>6
  <2>5. CASE ~(line.kind = "card" /\ section = parse.section)
    <3>1. parse'[section] = parse[section]
      BY <1>3, <2>5
    <3>2. QED
      BY <2>1, <2>2, <2>3, <2>5, <3>1
  <2>6. QED
    BY <2>4, <2>5
<1>7. DeckSoFar'
  <2> SUFFICES ASSUME NEW section \in Sections
               PROVE  /\ StandsIn(section, position + 1)' <=> section = parse'.section
                      /\ Holds(parse[section], LinesUpTo(section, position))'
    BY DEF DeckSoFar
  <2>1. position' + 1 = position + 2
    BY <1>2, <1>4
  <2>2. StandsIn(section, position + 1)' <=> StandsIn(section, position + 2)
    BY <1>4, <2>1 DEF StandsIn
  <2>3. Holds(parse[section], LinesUpTo(section, position))' <=>
            Holds(parse'[section], LinesUpTo(section, position + 1))
    BY <1>4 DEF Holds, LinesUpTo, LinesIn, Rank
  <2>4. QED
    BY <1>6, <2>2, <2>3
<1>8. QED
  BY <1>1, <1>4, <1>5, <1>7 DEF IInv, Stages, IndexSoFar, DeckIsTheFile, Checked

\* The deck is complete when the catalog is opened.
LEMMA OpenCatalogStep ==
    ASSUME IInv, OpenCatalog
    PROVE  IInv'
<1>1. /\ TypeOK /\ Stages /\ DeckSoFar /\ catalog = None /\ index = EmptyIndex
      /\ position = Len(text)
  BY DEF IInv, Stages, OpenCatalog, IndexSoFar
<1>2. /\ catalog' \in Catalogs /\ catalog' # None /\ catalog' \in Seq(Printing)
      /\ position' = 0 /\ pc' = "indexing" /\ UNCHANGED <<text, parse, index, issues>>
  BY CatalogsAssumption, NoneAssumption DEF OpenCatalog
<1>3. TypeOK' /\ Stages'
  <2>1. Len(catalog') \in Nat
    BY <1>2
  <2>2. pc = "parsing"
    BY DEF OpenCatalog
  <2>3. QED
    BY <1>1, <1>2, <2>1, <2>2 DEF TypeOK, Stages, Checked
<1>4. \A section : LinesUpTo(section, position) = LinesIn(section)
  BY <1>1, TextFacts DEF LinesUpTo, LinesIn
<1>5. DeckIsTheFile'
  <2>1. ASSUME NEW section \in Sections PROVE Holds(parse[section], LinesIn(section))
    BY <1>1, <1>4 DEF DeckSoFar
  <2>2. QED
    BY <1>2, <2>1 DEF DeckIsTheFile, Holds, LinesIn, Rank
<1>6. IndexSoFar'
  <2>1. ASSUME NEW name \in CardNames PROVE FirstOfBest(index[name], PrintingsUpTo(name, position))'
    <3>1. index'[name] = NoEntry
      BY <1>1, <1>2 DEF EmptyIndex
    <3>2. PrintingsUpTo(name, position)' = {}
      BY <1>2 DEF PrintingsUpTo, PrintingsOf
    <3>3. QED
      BY <3>1, <3>2 DEF FirstOfBest
  <2>2. QED
    BY <1>2, <2>1 DEF IndexSoFar
<1>7. QED
  BY <1>2, <1>3, <1>5, <1>6 DEF IInv, DeckSoFar

LEMMA IndexPrintingStep ==
    ASSUME IInv, IndexPrinting
    PROVE  IInv'
<1> DEFINE printing == catalog[position + 1]
<1>1. /\ TypeOK /\ Stages /\ IndexSoFar /\ catalog # None /\ pc = "indexing"
      /\ position < Len(catalog)
  BY DEF IInv, Stages, IndexPrinting
<1>2. /\ position \in Nat /\ printing \in Printing
      /\ index \in [CardNames -> Printing \cup {NoEntry}]
      /\ \A name \in CardNames : FirstOfBest(index[name], PrintingsUpTo(name, position))
  <2>1. position \in 0 .. Len(catalog)
    BY <1>1 DEF TypeOK
  <2>2. QED
    BY <1>1, <2>1, CatalogFacts DEF TypeOK, IndexSoFar
<1>3. position' = position + 1 /\ UNCHANGED <<text, parse, catalog, pc, issues>>
  BY DEF IndexPrinting
<1>4. index' = AddPrinting(index, printing)
  BY DEF IndexPrinting
<1> HIDE DEF printing
<1>5. ASSUME NEW name \in CardNames
      PROVE  /\ index'[name] \in Printing \cup {NoEntry}
             /\ index'[name] = IF printing.usable /\ name \in NameAliases(printing)
                               THEN PreferCard(index[name], printing) ELSE index[name]
  BY <1>2, <1>4 DEF AddPrinting, PreferCard
<1>6. index' \in [CardNames -> Printing \cup {NoEntry}]
  <2>1. CASE printing.usable
    <3>1. index' = [n \in CardNames |-> IF n \in NameAliases(printing)
                                       THEN PreferCard(index[n], printing) ELSE index[n]]
      BY <1>4, <2>1 DEF AddPrinting
    <3>2. QED
      BY <1>2, <3>1 DEF PreferCard
  <2>2. CASE ~printing.usable
    BY <1>2, <1>4, <2>2 DEF AddPrinting
  <2>3. QED
    BY <2>1, <2>2
<1>7. TypeOK'
  <2>1. position' \in 0 .. Len(catalog)
    BY <1>1, <1>2, <1>3, CatalogFacts
  <2>2. QED
    BY <1>1, <1>3, <1>6, <2>1 DEF TypeOK
<1>8. ASSUME NEW name \in CardNames
      PROVE  FirstOfBest(index'[name], PrintingsUpTo(name, position + 1))
  <2>1. /\ PrintingsUpTo(name, position) \in SUBSET (1 .. position)
        /\ PrintingsUpTo(name, position + 1) =
               IF printing.usable /\ name \in NameAliases(printing)
               THEN PrintingsUpTo(name, position) \cup {position + 1}
               ELSE PrintingsUpTo(name, position)
    BY <1>1, <1>2, PrintingsNext DEF printing
  <2>2. FirstOfBest(index[name], PrintingsUpTo(name, position))
    BY <1>2
  <2>3. CASE printing.usable /\ name \in NameAliases(printing)
    <3>1. position + 1 <= Len(catalog)
      BY <1>1, <1>2, CatalogFacts
    <3>2. FirstOfBest(PreferCard(index[name], printing),
                      PrintingsUpTo(name, position) \cup {position + 1})
      BY <1>1, <1>2, <2>1, <2>2, <3>1, PreferFirstOfBest DEF printing
    <3>3. QED
      BY <1>5, <2>1, <2>3, <3>2
  <2>4. CASE ~(printing.usable /\ name \in NameAliases(printing))
    BY <1>5, <2>1, <2>2, <2>4
  <2>5. QED
    BY <2>3, <2>4
<1>9. IndexSoFar'
  <2> SUFFICES ASSUME NEW name \in CardNames
               PROVE  FirstOfBest(index[name], PrintingsUpTo(name, position))'
    BY <1>1, <1>3 DEF IndexSoFar
  <2>1. FirstOfBest(index[name], PrintingsUpTo(name, position))' <=>
            FirstOfBest(index'[name], PrintingsUpTo(name, position + 1))
    BY <1>3 DEF FirstOfBest, Best, LegalOnes, PrintingsUpTo, PrintingsOf
  <2>2. QED
    BY <1>8, <2>1
<1>10. DeckIsTheFile'
  BY <1>3 DEF IInv, DeckIsTheFile, LinesIn, Rank
<1>11. QED
  BY <1>1, <1>3, <1>7, <1>9, <1>10 DEF IInv, Stages, DeckSoFar, Checked

\* What is said of the deck and the index depends on no other variable.
LEMMA DeckAndIndexUntouched ==
    ASSUME DeckSoFar, DeckIsTheFile, IndexSoFar,
           UNCHANGED <<text, parse, catalog, index, position>>
    PROVE  DeckSoFar' /\ DeckIsTheFile' /\ IndexSoFar'
<1>1. DeckSoFar'
  <2> SUFFICES ASSUME catalog' = None, NEW section \in Sections
               PROVE  /\ StandsIn(section, position + 1)' <=> section = parse'.section
                      /\ Holds(parse[section], LinesUpTo(section, position))'
    BY DEF DeckSoFar
  <2>1. /\ StandsIn(section, position + 1) <=> section = parse.section
        /\ Holds(parse[section], LinesUpTo(section, position))
    BY DEF DeckSoFar
  <2>2. StandsIn(section, position + 1)' <=> StandsIn(section, position + 1)
    BY DEF StandsIn
  <2>3. LinesUpTo(section, position)' = LinesUpTo(section, position)
    BY DEF LinesUpTo, LinesIn
  <2>4. QED
    BY <2>1, <2>2, <2>3 DEF Holds, Rank
<1>2. DeckIsTheFile'
  <2>1. \A section : LinesIn(section)' = LinesIn(section)
    BY DEF LinesIn
  <2>2. QED
    BY <2>1 DEF DeckIsTheFile, Rank
<1>3. IndexSoFar'
  BY DEF IndexSoFar, FirstOfBest, Best, LegalOnes, PrintingsUpTo, PrintingsOf
<1>4. QED
  BY <1>1, <1>2, <1>3

\* How the script ends.
LEMMA LastSteps ==
    ASSUME IInv, RefuseFile \/ RefuseCatalog \/ Validate
    PROVE  IInv'
<1>1. UNCHANGED <<text, parse, catalog, index, position>> /\ TypeOK /\ Stages
  BY DEF IInv, RefuseFile, RefuseCatalog, Validate
<1>2. DeckSoFar' /\ DeckIsTheFile' /\ IndexSoFar'
  BY <1>1, DeckAndIndexUntouched DEF IInv
<1>3. TypeOK' /\ Stages'
  <2>1. CASE RefuseFile
    <3>1. pc = "parsing" /\ pc' = "bad deck file" /\ issues' = issues
      BY <2>1 DEF RefuseFile
    <3>2. QED
      BY <1>1, <3>1 DEF TypeOK, Stages, Checked
  <2>2. CASE RefuseCatalog
    <3>1. pc = "indexing" /\ pc' = "bad catalog" /\ issues' = issues
      BY <2>2 DEF RefuseCatalog
    <3>2. QED
      BY <1>1, <3>1 DEF TypeOK, Stages, Checked
  <2>3. CASE Validate
    <3>1. /\ pc = "indexing" /\ position = Len(catalog)
          /\ pc' \in {"valid", "invalid"} /\ (issues' # {} => pc' = "invalid")
      BY <2>3 DEF Validate
    <3>2. QED
      BY <1>1, <3>1 DEF TypeOK, Stages, Checked
  <2>4. QED
    BY <2>1, <2>2, <2>3
<1>4. QED
  BY <1>2, <1>3 DEF IInv

LEMMA Stutter ==
    ASSUME IInv, UNCHANGED vars
    PROVE  IInv'
<1>1. TypeOK' /\ Stages'
  BY DEF IInv, vars, TypeOK, Stages, Checked
<1>2. QED
  BY <1>1, DeckAndIndexUntouched DEF IInv, vars

-----------------------------------------------------------------------------
(***************************************************************************)
(* Sums over finite sets.                                                  *)
(***************************************************************************)
LEMMA SubsetsWellFounded ==
    ASSUME NEW S, IsFiniteSet(S)
    PROVE  IsWellFoundedOn(StrictSubsetOrdering(S), SUBSET S)
BY FS_StrictSubsetOrderingWellFounded, FS_FiniteSubsetsOfFinite

\* Whatever is good of a set when it is good of all smaller ones is good of every
\* subset of a finite set.
LEMMA SubsetInduction ==
    ASSUME NEW S, IsFiniteSet(S), NEW Good,
           \A T \in SUBSET S : (\A U \in SUBSET T : U # T => U \in Good) => T \in Good
    PROVE  SUBSET S \subseteq Good
<1> DEFINE Bad == {T \in SUBSET S : T \notin Good}
<1> SUFFICES ASSUME Bad # {} PROVE FALSE
  OBVIOUS
<1>1. IsWellFoundedOn(StrictSubsetOrdering(S), SUBSET S)
  BY SubsetsWellFounded
<1>2. Bad \subseteq SUBSET S
  OBVIOUS
<1>3. PICK T \in Bad : \A U \in Bad : ~(<<U, T>> \in StrictSubsetOrdering(S))
  <2> HIDE DEF Bad
  <2>1. QED
    BY <1>1, <1>2, WFMin
<1>4. ASSUME NEW U \in SUBSET T, U # T PROVE U \in Good
  <2>1. U \in SUBSET S /\ T \in SUBSET S /\ U \subseteq T
    BY <1>2
  <2>2. <<U, T>> \in StrictSubsetOrdering(S)
    BY <2>1, <1>4 DEF StrictSubsetOrdering
  <2>3. QED
    BY <1>3, <2>1, <2>2
<1>5. QED
  BY <1>2, <1>4

\* The elements are added up in the order in which CHOOSE takes them.
First(s) == CHOOSE x \in s : TRUE
Rest(s)  == s \ {First(s)}

\* g has the sums of q over all subsets of a set.
HasSums(g, q, S) ==
    g = [s \in SUBSET S |-> IF s = {} THEN 0 ELSE q[First(s)] + g[s \ {First(s)}]]

Sums(q, S) == CHOOSE g : HasSums(g, q, S)
Sum(q, S)  == Sums(q, S)[S]

\* The fold of the model is a sum.
LEMMA TotalIsSum ==
    ASSUME NEW entries, NEW picked
    PROVE  Total(entries, picked) = Sum(Quantities(entries), picked)
BY DEF Total, FoldFunctionOnSet, MapThenFoldSet, Sum, Sums, HasSums, First

LEMMA FirstOf == ASSUME NEW s, s # {} PROVE First(s) \in s /\ Rest(s) \subseteq s /\ Rest(s) # s
BY DEF First, Rest

LEMMA SumsAt ==
    ASSUME NEW g, NEW q, NEW S, HasSums(g, q, S), NEW s \in SUBSET S
    PROVE  /\ s = {} => g[s] = 0
           /\ s # {} => g[s] = q[First(s)] + g[Rest(s)]
BY DEF HasSums, Rest

\* There is one sum for a set, whatever set it is taken as a subset of.
LEMMA SumsAgree ==
    ASSUME NEW q, NEW S, NEW R, NEW g, NEW h, HasSums(g, q, S), HasSums(h, q, R),
           NEW T, IsFiniteSet(T), T \subseteq S, T \subseteq R
    PROVE  g[T] = h[T]
<1> DEFINE Good == {U \in SUBSET T : g[U] = h[U]}
<1>1. ASSUME NEW U \in SUBSET T, \A V \in SUBSET U : V # U => V \in Good
      PROVE  U \in Good
  <2>1. U \in SUBSET S /\ U \in SUBSET R
    OBVIOUS
  <2>2. CASE U = {}
    BY <2>1, <2>2, SumsAt
  <2>3. CASE U # {}
    <3>1. Rest(U) \in Good
      BY <1>1, <2>3, FirstOf
    <3>2. g[U] = q[First(U)] + g[Rest(U)] /\ h[U] = q[First(U)] + h[Rest(U)]
      BY <2>1, <2>3, SumsAt
    <3>3. QED
      BY <3>1, <3>2
  <2>4. QED
    BY <2>2, <2>3
<1> HIDE DEF Good
<1>2. SUBSET T \subseteq Good
  BY <1>1, SubsetInduction
<1>3. QED
  BY <1>2 DEF Good

\* Every finite set has sums.
LEMMA SumsExist ==
    ASSUME NEW q, NEW S, IsFiniteSet(S)
    PROVE  HasSums(Sums(q, S), q, S)
<1> DEFINE Good == {T \in SUBSET S : HasSums(Sums(q, T), q, T)}
<1>1. ASSUME NEW T \in SUBSET S, \A U \in SUBSET T : U # T => U \in Good
      PROVE  T \in Good
  <2> DEFINE g == [s \in SUBSET T |-> IF s = {} THEN 0 ELSE q[First(s)] + Sum(q, Rest(s))]
  <2>1. ASSUME NEW s \in SUBSET T, s # {}
        PROVE  Sum(q, Rest(s)) = g[Rest(s)]
    <3> DEFINE u == Rest(s)
    <3>1. u \in SUBSET T /\ u # T
      BY <2>1, FirstOf
    <3>2. HasSums(Sums(q, u), q, u)
      BY <3>1, <1>1
    <3>3. CASE u = {}
      BY <3>1, <3>2, <3>3, SumsAt DEF Sum
    <3>4. CASE u # {}
      <4>1. Rest(u) \in SUBSET T /\ Rest(u) # T /\ Rest(u) \in SUBSET u
        BY <3>1, <3>4, FirstOf
      <4>2. HasSums(Sums(q, Rest(u)), q, Rest(u))
        BY <4>1, <1>1
      <4>3. IsFiniteSet(Rest(u))
        BY <4>1, FS_Subset
      <4>4. Sums(q, u)[Rest(u)] = Sums(q, Rest(u))[Rest(u)]
        BY <4>1, <4>2, <4>3, <3>2, SumsAgree
      <4>5. Sums(q, u)[u] = q[First(u)] + Sums(q, u)[Rest(u)]
        BY <3>2, <3>4, SumsAt
      <4>6. g[u] = q[First(u)] + Sum(q, Rest(u))
        BY <3>1, <3>4
      <4>7. QED
        BY <4>4, <4>5, <4>6 DEF Sum
    <3>5. QED
      BY <3>3, <3>4
  <2>2. HasSums(g, q, T)
    BY <2>1 DEF HasSums, Rest
  <2>3. QED
    BY <2>2 DEF Sums
<1> HIDE DEF Good
<1>2. SUBSET S \subseteq Good
  BY <1>1, SubsetInduction
<1>3. QED
  BY <1>2 DEF Good

LEMMA SumOfNone == ASSUME NEW q PROVE Sum(q, {}) = 0
BY SumsExist, SumsAt, FS_EmptySet DEF Sum

LEMMA SumStep ==
    ASSUME NEW q, NEW S, IsFiniteSet(S), S # {}
    PROVE  Sum(q, S) = q[First(S)] + Sum(q, Rest(S))
<1>1. IsFiniteSet(Rest(S)) /\ Rest(S) \subseteq S
  BY FirstOf, FS_Subset
<1>2. HasSums(Sums(q, S), q, S) /\ HasSums(Sums(q, Rest(S)), q, Rest(S))
  BY <1>1, SumsExist
<1>3. Sums(q, S)[Rest(S)] = Sums(q, Rest(S))[Rest(S)]
  BY <1>1, <1>2, SumsAgree
<1>4. QED
  BY <1>2, <1>3, SumsAt DEF Sum

LEMMA SumIsNat ==
    ASSUME NEW q, NEW S, IsFiniteSet(S), \A x \in S : q[x] \in Nat
    PROVE  Sum(q, S) \in Nat
<1> DEFINE Good == {T \in SUBSET S : Sum(q, T) \in Nat}
<1>1. ASSUME NEW T \in SUBSET S, \A U \in SUBSET T : U # T => U \in Good
      PROVE  T \in Good
  <2>1. CASE T = {}
    BY <2>1, SumOfNone
  <2>2. CASE T # {}
    <3>1. First(T) \in S /\ Rest(T) \in Good /\ IsFiniteSet(T)
      BY <1>1, <2>2, FirstOf, FS_Subset
    <3>2. Sum(q, T) = q[First(T)] + Sum(q, Rest(T))
      BY <2>2, <3>1, SumStep
    <3>3. QED
      BY <3>1, <3>2
  <2>3. QED
    BY <2>1, <2>2
<1> HIDE DEF Good
<1>2. SUBSET S \subseteq Good
  BY <1>1, SubsetInduction
<1>3. QED
  BY <1>2 DEF Good

\* Any element may be added first.
LEMMA SumSplits ==
    ASSUME NEW q, NEW S, IsFiniteSet(S), \A x \in S : q[x] \in Nat, NEW x \in S
    PROVE  Sum(q, S) = q[x] + Sum(q, S \ {x})
<1> DEFINE Good == {T \in SUBSET S : \A e \in T : Sum(q, T) = q[e] + Sum(q, T \ {e})}
<1>1. ASSUME NEW T \in SUBSET S, \A U \in SUBSET T : U # T => U \in Good
      PROVE  T \in Good
  <2> SUFFICES ASSUME NEW e \in T PROVE Sum(q, T) = q[e] + Sum(q, T \ {e})
    OBVIOUS
  <2> DEFINE f == First(T)
             both == (T \ {e}) \ {f}
  <2>1. f \in T /\ Rest(T) = T \ {f}
    BY FirstOf DEF Rest
  <2>2. Sum(q, T) = q[f] + Sum(q, T \ {f})
    BY <2>1, SumStep, FS_Subset
  <2> HIDE DEF f
  <2>3. CASE e = f
    BY <2>2, <2>3
  <2>4. CASE e # f
    <3>1. T \ {f} \in Good /\ T \ {e} \in Good /\ e \in T \ {f} /\ f \in T \ {e}
      BY <1>1, <2>1, <2>4
    <3>2. (T \ {f}) \ {e} = both
      OBVIOUS
    <3>3. Sum(q, T \ {f}) = q[e] + Sum(q, both)
      BY <3>1, <3>2
    <3>4. Sum(q, T \ {e}) = q[f] + Sum(q, both)
      BY <3>1
    <3>5. q[e] \in Nat /\ q[f] \in Nat /\ Sum(q, both) \in Nat
      <4>1. both \subseteq S /\ IsFiniteSet(both)
        BY FS_Subset
      <4>2. QED
        BY <2>1, <4>1, SumIsNat
    <3> HIDE DEF both
    <3>6. QED
      BY <2>2, <3>3, <3>4, <3>5
  <2>5. QED
    BY <2>3, <2>4
<1> HIDE DEF Good
<1>2. SUBSET S \subseteq Good
  BY <1>1, SubsetInduction
<1>3. QED
  BY <1>2 DEF Good

\* A set of positions, a fixed distance further on.
Shifted(S, d) == {x + d : x \in S}

\* What is added up in one sequence may be added up there in another that has the same
\* numbers.
LEMMA SumMoves ==
    ASSUME NEW q, NEW r, NEW d \in Nat, NEW S \in SUBSET Nat, IsFiniteSet(S),
           \A x \in S : q[x] \in Nat /\ r[x + d] = q[x]
    PROVE  Sum(r, Shifted(S, d)) = Sum(q, S)
<1> DEFINE Moved(T) == {x + d : x \in T}
           Good == {T \in SUBSET S : Sum(r, Moved(T)) = Sum(q, T)}
<1>1. ASSUME NEW T \in SUBSET S, \A U \in SUBSET T : U # T => U \in Good
      PROVE  T \in Good
  <2>1. CASE T = {}
    <3>1. Moved(T) = {}
      BY <2>1
    <3>2. QED
      BY <2>1, <3>1, SumOfNone
  <2>2. CASE T # {}
    <3>1. PICK x \in T : TRUE
      BY <2>2
    <3>2. T \ {x} \in Good
      BY <1>1
    <3>3. Moved(T) \ {x + d} = Moved(T \ {x}) /\ x + d \in Moved(T)
      OBVIOUS
    <3>4. IsFiniteSet(T) /\ IsFiniteSet(Moved(T))
      <4>1. IsFiniteSet(T)
        BY FS_Subset
      <4> DEFINE move == [y \in T |-> y + d]
      <4>2. Moved(T) = {move[y] : y \in T}
        OBVIOUS
      <4>3. move \in Surjection(T, {move[y] : y \in T})
        BY DEF Surjection
      <4> HIDE DEF move, Moved
      <4>4. IsFiniteSet(Moved(T))
        BY <4>1, <4>2, <4>3, FS_Surjection
      <4>5. QED
        BY <4>1, <4>4
    <3>5. Sum(q, T) = q[x] + Sum(q, T \ {x})
      <4>1. \A y \in T : q[y] \in Nat
        OBVIOUS
      <4>2. QED
        BY <3>4, <4>1, SumSplits
    <3>6. \A y \in Moved(T) : r[y] \in Nat
      OBVIOUS
    <3>7. Sum(r, Moved(T)) = r[x + d] + Sum(r, Moved(T) \ {x + d})
      BY <3>3, <3>4, <3>6, SumSplits
    <3>8. QED
      BY <3>2, <3>3, <3>5, <3>7
  <2>3. QED
    BY <2>1, <2>2
<1> HIDE DEF Good
<1>2. SUBSET S \subseteq Good
  BY <1>1, SubsetInduction
<1>3. QED
  BY <1>2 DEF Good, Shifted

\* Two sets without a common element.
LEMMA SumOfUnion ==
    ASSUME NEW q, NEW S, NEW R, IsFiniteSet(S), IsFiniteSet(R), S \cap R = {},
           \A x \in S \cup R : q[x] \in Nat
    PROVE  Sum(q, S \cup R) = Sum(q, S) + Sum(q, R)
<1> DEFINE Good == {T \in SUBSET S : Sum(q, T \cup R) = Sum(q, T) + Sum(q, R)}
<1>1. ASSUME NEW T \in SUBSET S, \A U \in SUBSET T : U # T => U \in Good
      PROVE  T \in Good
  <2>1. Sum(q, R) \in Nat
    BY SumIsNat
  <2>2. CASE T = {}
    <3>1. T \cup R = R /\ Sum(q, T) = 0
      BY <2>2, SumOfNone
    <3>2. Sum(q, T \cup R) = Sum(q, T) + Sum(q, R)
      BY <2>1, <3>1
    <3>3. QED
      BY <3>2
  <2>3. CASE T # {}
    <3>1. PICK x \in T : TRUE
      BY <2>3
    <3>2. T \ {x} \in Good
      BY <1>1
    <3>3. (T \cup R) \ {x} = (T \ {x}) \cup R
      OBVIOUS
    <3>4. IsFiniteSet(T) /\ IsFiniteSet(T \cup R) /\ IsFiniteSet(T \ {x})
      BY FS_Subset, FS_Union
    <3>5. Sum(q, T) = q[x] + Sum(q, T \ {x})
      BY <3>4, SumSplits
    <3>6. Sum(q, T \cup R) = q[x] + Sum(q, (T \ {x}) \cup R)
      BY <3>3, <3>4, SumSplits
    <3>7. q[x] \in Nat /\ Sum(q, T \ {x}) \in Nat
      BY <3>4, SumIsNat
    <3>8. QED
      BY <2>1, <3>2, <3>5, <3>6, <3>7
  <2>4. QED
    BY <2>2, <2>3
<1> HIDE DEF Good
<1>2. SUBSET S \subseteq Good
  BY <1>1, SubsetInduction
<1>3. QED
  BY <1>2 DEF Good

-----------------------------------------------------------------------------
(***************************************************************************)
(* Quantities.                                                             *)
(***************************************************************************)
LEMMA Positive ==
    ASSUME NEW entries \in Seq(Entry), NEW i \in DOMAIN entries
    PROVE  /\ entries[i].quantity \in Nat \ {0} /\ entries[i].name \in Names
           /\ Quantities(entries)[i] = entries[i].quantity
<1>1. entries[i] \in Entry
  OBVIOUS
<1>2. QED
  BY <1>1 DEF Entry, Quantities

LEMMA EntriesFinite ==
    ASSUME NEW entries \in Seq(Entry), NEW picked \in SUBSET DOMAIN entries
    PROVE  IsFiniteSet(picked)
<1>1. IsFiniteSet(1 .. Len(entries))
  BY FS_Interval
<1>2. QED
  BY <1>1, FS_Subset

\* A total counts copies, and a set of entries that is not empty has one.
LEMMA TotalCounts ==
    ASSUME NEW entries \in Seq(Entry), NEW picked \in SUBSET DOMAIN entries
    PROVE  /\ Total(entries, picked) \in Nat
           /\ picked # {} => Total(entries, picked) >= 1
<1> DEFINE q == Quantities(entries)
<1>1. \A x \in picked : q[x] \in Nat \ {0}
  BY Positive
<1>2. IsFiniteSet(picked) /\ Total(entries, picked) = Sum(q, picked)
  BY EntriesFinite, TotalIsSum
<1> HIDE DEF q
<1>3. Sum(q, picked) \in Nat
  BY <1>1, <1>2, SumIsNat
<1>4. ASSUME NEW x \in picked PROVE Sum(q, picked) >= 1
  <2>1. IsFiniteSet(picked \ {x})
    BY <1>2, FS_Subset
  <2>2. Sum(q, picked) = q[x] + Sum(q, picked \ {x}) /\ Sum(q, picked \ {x}) \in Nat
    BY <1>1, <1>2, <2>1, SumSplits, SumIsNat
  <2>3. QED
    BY <1>1, <2>2
<1>5. QED
  BY <1>2, <1>3, <1>4

LEMMA CountIsNat == ASSUME NEW entries \in Seq(Entry) PROVE Count(entries) \in Nat
BY TotalCounts DEF Count

\* The copies of a deck are those of its two sections.
LEMMA CountOfBoth ==
    ASSUME NEW a \in Seq(Entry), NEW b \in Seq(Entry)
    PROVE  Count(a \o b) = Count(a) + Count(b)
<1> DEFINE both == a \o b
           n == Len(a)
           m == Len(b)
           S == 1 .. n
           T == 1 .. m
           R == Shifted(T, n)
<1>1. /\ n \in Nat /\ m \in Nat
      /\ DOMAIN a = S /\ DOMAIN b = T /\ DOMAIN both = 1 .. n + m
      /\ both \in Seq(Entry)
  OBVIOUS
<1>2. /\ \A i \in S : both[i] = a[i]
      /\ \A i \in T : both[i + n] = b[i]
  OBVIOUS
<1> HIDE DEF both, n, m
<1>3. S \cup R = 1 .. n + m /\ S \cap R = {}
  <2> USE DEF Shifted
  <2>1. ASSUME NEW k \in 1 .. n + m PROVE k \in S \cup R
    <3>1. CASE k <= n
      BY <1>1, <3>1
    <3>2. CASE ~(k <= n)
      <4>1. k - n \in T /\ k = (k - n) + n
        BY <1>1, <3>2
      <4>2. QED
        BY <4>1
    <3>3. QED
      BY <3>1, <3>2
  <2>2. ASSUME NEW k \in R PROVE k \in 1 .. n + m /\ k \notin S
    BY <1>1
  <2>3. S \subseteq 1 .. n + m
    BY <1>1
  <2>4. QED
    BY <2>1, <2>2, <2>3
<1>4. S \in SUBSET Nat /\ T \in SUBSET Nat /\ S \in SUBSET DOMAIN both /\ R \in SUBSET DOMAIN both
  BY <1>1, <1>3
<1>5. IsFiniteSet(S) /\ IsFiniteSet(R) /\ IsFiniteSet(T)
  <2>1. T \in SUBSET DOMAIN b
    BY <1>1
  <2> HIDE DEF S, T, R
  <2>2. QED
    BY <1>1, <1>4, <2>1, EntriesFinite
<1>6. \A i \in DOMAIN both : Quantities(both)[i] \in Nat
  BY <1>1, Positive
<1>7. Count(both) = Sum(Quantities(both), S) + Sum(Quantities(both), R)
  <2>1. DOMAIN both = S \cup R
    BY <1>1, <1>3
  <2> HIDE DEF S, R
  <2>2. Count(both) = Sum(Quantities(both), S \cup R)
    BY <2>1, TotalIsSum DEF Count
  <2>3. QED
    BY <1>3, <1>5, <1>6, <2>1, <2>2, SumOfUnion
<1>8. Sum(Quantities(both), S) = Count(a)
  <2>1. ASSUME NEW i \in S
        PROVE  Quantities(a)[i] \in Nat /\ Quantities(both)[i + 0] = Quantities(a)[i]
    <3>1. i + 0 = i /\ i \in DOMAIN both /\ i \in DOMAIN a
      BY <1>1, <1>4
    <3>2. both[i] = a[i]
      BY <1>2
    <3>3. QED
      BY <1>1, <3>1, <3>2, Positive
  <2>2. Shifted(S, 0) = S
    <3>1. \A i \in S : i + 0 = i
      BY <1>4
    <3> HIDE DEF S
    <3>2. QED
      BY <3>1 DEF Shifted
  <2> HIDE DEF S
  <2>3. Sum(Quantities(both), Shifted(S, 0)) = Sum(Quantities(a), S)
    BY <1>4, <1>5, <2>1, SumMoves
  <2>4. QED
    BY <1>1, <2>2, <2>3, TotalIsSum DEF Count
<1>9. Sum(Quantities(both), R) = Count(b)
  <2>1. ASSUME NEW i \in T
        PROVE  Quantities(b)[i] \in Nat /\ Quantities(both)[i + n] = Quantities(b)[i]
    <3>1. i + n \in DOMAIN both /\ i \in DOMAIN b
      BY <1>1
    <3>2. both[i + n] = b[i]
      BY <1>2
    <3>3. QED
      BY <1>1, <3>1, <3>2, Positive
  <2> HIDE DEF T
  <2>2. Sum(Quantities(both), Shifted(T, n)) = Sum(Quantities(b), T)
    BY <1>1, <1>4, <1>5, <2>1, SumMoves
  <2>3. QED
    BY <1>1, <2>2, TotalIsSum DEF Count
<1>10. QED
  BY <1>7, <1>8, <1>9 DEF both
-----------------------------------------------------------------------------
(***************************************************************************)
(* The report.                                                             *)
(***************************************************************************)
\* No issue means that none of the checks has found one.
LEMMA NoIssues ==
    ASSUME NEW deck, NEW table
    PROVE  LET commanders == Resolved(table, deck.commander)
               main == Resolved(table, deck.deck)
           IN  Issues(deck, table) = {} <=>
                 /\ Count(deck.commander) + Count(deck.deck) = LegalSize
                 /\ Count(deck.commander) \in {1, 2}
                 /\ NotFound(table, deck.commander \o deck.deck) = {}
                 /\ \A p \in commanders : p.commander_legal /\ p.card.can_be_commander
                 /\ \A p \in main :
                       /\ p.commander_legal
                       /\ p.card.color_identity \subseteq CommandZoneColors(commanders)
                       /\ Copies(deck, p.card.name) > 1 => Repeatable(p.card)
<1> DEFINE commanders == Resolved(table, deck.commander)
           main == Resolved(table, deck.deck)
<1> HIDE DEF commanders, main
<1>1. ASSUME NEW condition \in BOOLEAN, NEW code PROVE If(condition, code) = {} <=> ~condition
  BY DEF If
<1>2. ASSUME NEW code, NEW printings PROVE About(code, printings) = {} <=> printings = {}
  BY DEF About
<1>3. ASSUME NEW S PROVE {Issue("card_not_found", x) : x \in S} = {} <=> S = {}
  OBVIOUS
<1> DEFINE i1 == If(Count(deck.commander) + Count(deck.deck) # LegalSize, "deck_size")
           i2 == If(Count(deck.commander) \notin {1, 2}, "commander_count")
           i3 == {Issue("card_not_found", x) : x \in NotFound(table, deck.commander \o deck.deck)}
           bad4 == {p \in commanders : ~p.commander_legal}
           bad5 == {p \in commanders : ~p.card.can_be_commander}
           bad6 == {p \in main : ~p.commander_legal}
           bad7 == {p \in main : ~(p.card.color_identity \subseteq CommandZoneColors(commanders))}
           bad8 == {p \in main : Copies(deck, p.card.name) > 1 /\ ~Repeatable(p.card)}
           i4 == About("commander_illegal", bad4)
           i5 == About("not_a_commander", bad5)
           i6 == About("card_illegal", bad6)
           i7 == About("color_identity", bad7)
           i8 == About("singleton", bad8)
<1>4. Issues(deck, table) = UNION {i1, i2, i3, i4, i5, i6, i7, i8}
  BY DEF Issues, commanders, main
<1>5. i1 = {} <=> Count(deck.commander) + Count(deck.deck) = LegalSize
  BY <1>1
<1>6. i2 = {} <=> Count(deck.commander) \in {1, 2}
  BY <1>1
<1>7. i3 = {} <=> NotFound(table, deck.commander \o deck.deck) = {}
  BY <1>3
<1>8. /\ bad4 = {} <=> \A p \in commanders : p.commander_legal
      /\ bad5 = {} <=> \A p \in commanders : p.card.can_be_commander
      /\ bad6 = {} <=> \A p \in main : p.commander_legal
  OBVIOUS
<1>9. bad7 = {} <=> \A p \in main : p.card.color_identity \subseteq CommandZoneColors(commanders)
  OBVIOUS
<1>10. bad8 = {} <=> \A p \in main : Copies(deck, p.card.name) > 1 => Repeatable(p.card)
  OBVIOUS
<1> HIDE DEF bad4, bad5, bad6, bad7, bad8
<1>11. /\ i4 = {} <=> bad4 = {}
       /\ i5 = {} <=> bad5 = {}
       /\ i6 = {} <=> bad6 = {}
       /\ i7 = {} <=> bad7 = {}
       /\ i8 = {} <=> bad8 = {}
  BY <1>2
<1> HIDE DEF i1, i2, i3, i4, i5, i6, i7, i8
<1>12. Issues(deck, table) = {} <=>
         i1 = {} /\ i2 = {} /\ i3 = {} /\ i4 = {} /\ i5 = {} /\ i6 = {} /\ i7 = {} /\ i8 = {}
  BY <1>4
<1>13. QED
  BY <1>5, <1>6, <1>7, <1>8, <1>9, <1>10, <1>11, <1>12 DEF commanders, main

\* An entry of the deck and what the index has under its name.
LEMMA EntryFacts ==
    ASSUME TypeOK, NEW section \in Sections, NEW entry \in Entries(section)
    PROVE  /\ \E i \in DOMAIN parse[section] : entry = parse[section][i]
           /\ entry.name \in CardNames
           /\ index[entry.name] # NoEntry => index[entry.name] \in Printing
           /\ parse[section] \in Seq(Entry)
<1>1. parse[section] \in Seq(Entry) /\ index \in [CardNames -> Printing \cup {NoEntry}]
  BY DEF TypeOK, Sections
<1>2. PICK i \in DOMAIN parse[section] : entry = parse[section][i]
  BY DEF Entries
<1>3. entry.name \in Names
  BY <1>1, <1>2, Positive
<1>4. QED
  BY <1>1, <1>2, <1>3, NamesAssumption

Found == \A entry \in Entries("commander") \cup Entries("deck") : index[entry.name] # NoEntry

LEMMA NoneMissing ==
    ASSUME TypeOK
    PROVE  NotFound(index, parse.commander \o parse.deck) = {} <=> Found
<1> DEFINE c == parse.commander
           d == parse.deck
           both == c \o d
<1>1. c \in Seq(Entry) /\ d \in Seq(Entry)
  BY DEF TypeOK
<1>2. parse["commander"] = c /\ parse["deck"] = d
  BY DEF TypeOK
<1> HIDE DEF c, d
<1>3. /\ \A i \in DOMAIN c : i \in DOMAIN both /\ both[i] = c[i]
      /\ \A i \in DOMAIN d : Len(c) + i \in DOMAIN both /\ both[Len(c) + i] = d[i]
  BY <1>1
<1>4. ASSUME NEW j \in DOMAIN both
      PROVE  \/ j \in DOMAIN c /\ both[j] = c[j]
             \/ j - Len(c) \in DOMAIN d /\ both[j] = d[j - Len(c)]
  BY <1>1
<1>5. \A x : (\E j \in DOMAIN both : both[j] = x) <=>
             x \in Entries("commander") \cup Entries("deck")
  <2> SUFFICES ASSUME NEW x
               PROVE  (\E j \in DOMAIN both : both[j] = x) <=>
                      x \in Entries("commander") \cup Entries("deck")
    OBVIOUS
  <2> HIDE DEF both
  <2>1. x \in Entries("commander") <=> \E i \in DOMAIN c : c[i] = x
    BY <1>2 DEF Entries
  <2>2. x \in Entries("deck") <=> \E i \in DOMAIN d : d[i] = x
    BY <1>2 DEF Entries
  <2>3. QED
    BY <1>3, <1>4, <2>1, <2>2
<1>6. NotFound(index, both) = {} <=> \A j \in DOMAIN both : index[both[j].name] # NoEntry
  BY DEF NotFound
<1> HIDE DEF both
<1>7. NotFound(index, both) = {} <=> Found
  BY <1>5, <1>6 DEF Found
<1>8. QED
  BY <1>7 DEF both, c, d

\* The cards found for a section are those of its entries.
LEMMA ResolvedOf ==
    ASSUME Found, NEW section \in Sections
    PROVE  \A p : p \in Resolved(index, parse[section]) <=>
                  \E entry \in Entries(section) : p = index[entry.name]
<1>1. \A entry \in Entries(section) : index[entry.name] # NoEntry
  BY DEF Found, Sections
<1>2. \A x : x \in Entries(section) <=> \E i \in DOMAIN parse[section] : x = parse[section][i]
  BY DEF Entries
<1>3. \A p : p \in Resolved(index, parse[section]) <=>
             p # NoEntry /\ \E i \in DOMAIN parse[section] : p = index[parse[section][i].name]
  BY DEF Resolved
<1>4. QED
  BY <1>1, <1>2, <1>3

\* A card in the command zone, and one the main deck has under a name not its own.
InCommandZone(card) ==
    \E e \in Entries("commander") : index[e.name] # NoEntry /\ CardOf(e) = card
UnderAnotherName(card) ==
    \E e \in Entries("deck") :
        index[e.name] # NoEntry /\ CardOf(e) = card /\ e.name # card.name

\* A section has a copy of a card if one of its entries leads there, and else none.
LEMMA CopiesAreThere ==
    ASSUME TypeOK, NEW section \in Sections, NEW card
    PROVE  /\ CopiesIn(parse[section], card) \in Nat
           /\ (\E e \in Entries(section) : index[e.name] # NoEntry /\ CardOf(e) = card)
                 => CopiesIn(parse[section], card) >= 1
           /\ ~(\E e \in Entries(section) : index[e.name] # NoEntry /\ CardOf(e) = card)
                 => CopiesIn(parse[section], card) = 0
<1> DEFINE s == parse[section]
           picked == {i \in DOMAIN s : index[s[i].name] # NoEntry /\ CardOf(s[i]) = card}
<1>1. s \in Seq(Entry)
  BY DEF TypeOK, Sections
<1>2. CopiesIn(s, card) = Total(s, picked)
  BY DEF CopiesIn
<1>3. picked # {} <=> \E e \in Entries(section) : index[e.name] # NoEntry /\ CardOf(e) = card
  BY DEF Entries
<1>4. picked \in SUBSET DOMAIN s
  OBVIOUS
<1> HIDE DEF picked, s
<1>5. Total(s, {}) = 0
  <2>1. IsFiniteSet({})
    BY FS_EmptySet
  <2>2. QED
    BY <2>1, TotalIsSum, SumOfNone
<1>6. Total(s, picked) \in Nat /\ (picked # {} => Total(s, picked) >= 1)
  BY <1>1, <1>4, TotalCounts
<1>7. QED
  BY <1>2, <1>3, <1>5, <1>6 DEF s

\* Of a card that the main deck has under its own name only, the copies of the name are
\* the copies of the card.
LEMMA CopiesAgree ==
    ASSUME TypeOK, Found, NEW entry \in Entries("deck"), ~UnderAnotherName(CardOf(entry))
    PROVE  Copies(parse, CardOf(entry).name) = CopiesIn(parse.deck, CardOf(entry))
<1> DEFINE d == parse.deck
           card == CardOf(entry)
           byName == {i \in DOMAIN d : d[i].name = card.name}
           byCard == {i \in DOMAIN d : index[d[i].name] # NoEntry /\ CardOf(d[i]) = card}
<1>1. parse["deck"] = d
  BY DEF TypeOK
<1>2. \A i \in DOMAIN d : d[i] \in Entries("deck")
  BY <1>1 DEF Entries
<1>3. \A e \in Entries("deck") :
         index[e.name] # NoEntry /\ (CardOf(e) = card => e.name = card.name)
  BY DEF Found, UnderAnotherName
<1>4. card.name = entry.name
  BY <1>3
<1>5. Copies(parse, card.name) = Total(d, byName) /\ CopiesIn(d, card) = Total(d, byCard)
  BY DEF Copies, CopiesIn
<1> HIDE DEF d
<1>6. byName = byCard
  <2>1. ASSUME NEW i \in DOMAIN d, d[i].name = card.name
        PROVE  CardOf(d[i]) = card
    BY <1>4, <2>1 DEF CardOf
  <2> HIDE DEF card
  <2>2. ASSUME NEW i \in DOMAIN d, CardOf(d[i]) = card
        PROVE  d[i].name = card.name
    BY <1>2, <1>3, <2>2
  <2>3. QED
    BY <1>2, <1>3, <2>1, <2>2
<1> HIDE DEF byName, byCard
<1>7. QED
  BY <1>5, <1>6 DEF d, card

\* And if it is not in the command zone, they are all the copies of the deck.
LEMMA CopiesCount ==
    ASSUME TypeOK, Found, NEW entry \in Entries("deck"), ~UnderAnotherName(CardOf(entry)),
           ~InCommandZone(CardOf(entry))
    PROVE  Copies(parse, CardOf(entry).name) > 1 <=> CopiesOf(CardOf(entry)) # 1
<1> DEFINE card == CardOf(entry)
           zone == CopiesIn(parse.commander, card)
           main == CopiesIn(parse.deck, card)
<1>1. /\ "commander" \in Sections /\ "deck" \in Sections
      /\ parse["commander"] = parse.commander /\ parse["deck"] = parse.deck
  BY DEF Sections, TypeOK
<1>2. zone = 0
  BY <1>1, CopiesAreThere DEF InCommandZone
<1>3. \E e \in Entries("deck") : index[e.name] # NoEntry /\ CardOf(e) = card
  BY DEF Found
<1>4. main \in Nat /\ main >= 1
  BY <1>1, <1>3, CopiesAreThere
<1>5. CopiesOf(card) = zone + main
  BY DEF CopiesOf
<1>6. Copies(parse, card.name) = main
  BY CopiesAgree
<1> HIDE DEF card, zone, main
<1>7. Copies(parse, card.name) > 1 <=> CopiesOf(card) # 1
  BY <1>2, <1>4, <1>5, <1>6
<1>8. QED
  BY <1>7 DEF card

\* A card the command zone has once, and the main deck too, is there twice.
LEMMA CommandersApart ==
    ASSUME TypeOK, Found, OnceIn("commander"), NEW entry \in Entries("deck"),
           InCommandZone(CardOf(entry))
    PROVE  Repeatable(CardOf(entry))
<1> DEFINE card == CardOf(entry)
           zone == CopiesIn(parse.commander, card)
           main == CopiesIn(parse.deck, card)
<1>1. /\ "commander" \in Sections /\ "deck" \in Sections
      /\ parse["commander"] = parse.commander /\ parse["deck"] = parse.deck
  BY DEF Sections, TypeOK
<1>2. zone \in Nat /\ zone >= 1
  BY <1>1, CopiesAreThere DEF InCommandZone
<1>3. \E e \in Entries("deck") : index[e.name] # NoEntry /\ CardOf(e) = card
  BY DEF Found
<1>4. main \in Nat /\ main >= 1
  BY <1>1, <1>3, CopiesAreThere
<1>5. CopiesOf(card) = zone + main
  BY DEF CopiesOf
<1>6. CopiesOf(card) # 1
  <2> HIDE DEF card, zone, main
  <2>1. QED
    BY <1>2, <1>4, <1>5
<1>7. PICK e \in Entries("commander") : index[e.name] # NoEntry /\ CardOf(e) = card
  BY DEF InCommandZone
<1>8. QED
  BY <1>6, <1>7 DEF OnceIn, Repeatable

\* The report is empty exactly if the deck follows the rules.
LEMMA ReportIsTheRules ==
    ASSUME TypeOK, WrittenUnderOwnNames, OnceIn("commander")
    PROVE  Issues(parse, index) = {} <=> FollowsTheRules
<1> DEFINE c == parse.commander
           d == parse.deck
           commanders == Resolved(index, c)
           main == Resolved(index, d)
<1>1. /\ c \in Seq(Entry) /\ d \in Seq(Entry)
      /\ parse["commander"] = c /\ parse["deck"] = d
  BY DEF TypeOK
<1>2. Issues(parse, index) = {} <=>
        /\ Count(c) + Count(d) = LegalSize
        /\ Count(c) \in {1, 2}
        /\ Found
        /\ \A p \in commanders : p.commander_legal /\ p.card.can_be_commander
        /\ \A p \in main :
              /\ p.commander_legal
              /\ p.card.color_identity \subseteq CommandZoneColors(commanders)
              /\ Copies(parse, p.card.name) > 1 => Repeatable(p.card)
  BY NoIssues, NoneMissing
<1>3. Count(c \o d) = 100 <=> Count(c) + Count(d) = LegalSize
  BY <1>1, CountOfBoth DEF LegalSize
<1>4. Count(c) \in 1 .. 2 <=> Count(c) \in {1, 2}
  BY <1>1, CountIsNat
<1>5. FollowsTheRules => Found
  BY DEF FollowsTheRules, Found
<1>6. ASSUME Found
      PROVE  FollowsTheRules <=>
        /\ Count(c) + Count(d) = LegalSize
        /\ Count(c) \in {1, 2}
        /\ \A p \in commanders : p.commander_legal /\ p.card.can_be_commander
        /\ \A p \in main :
              /\ p.commander_legal
              /\ p.card.color_identity \subseteq CommandZoneColors(commanders)
              /\ Copies(parse, p.card.name) > 1 => Repeatable(p.card)
  <2>1. /\ \A p : p \in commanders <=> \E e \in Entries("commander") : p = index[e.name]
        /\ \A p : p \in main <=> \E e \in Entries("deck") : p = index[e.name]
    <3>1. "commander" \in Sections /\ "deck" \in Sections
      BY DEF Sections
    <3>2. QED
      BY <1>1, <1>6, <3>1, ResolvedOf
  <2> HIDE DEF c, d, commanders, main
  <2>2. (\A p \in commanders : p.commander_legal /\ p.card.can_be_commander) <=>
        (\A e \in Entries("commander") : index[e.name].commander_legal /\ CardOf(e).can_be_commander)
    BY <2>1 DEF CardOf
  <2>3. (\A p \in main : p.commander_legal) <=>
        (\A e \in Entries("deck") : index[e.name].commander_legal)
    BY <2>1
  <2>4. \A color : color \in CommandZoneColors(commanders) <=>
            \E e \in Entries("commander") : color \in CardOf(e).color_identity
    <3>1. \A color : color \in CommandZoneColors(commanders) <=>
              \E p \in commanders : color \in p.card.color_identity
      BY DEF CommandZoneColors
    <3>2. QED
      BY <2>1, <3>1 DEF CardOf
  <2>5. (\A p \in main : p.card.color_identity \subseteq CommandZoneColors(commanders)) <=>
        (\A e \in Entries("deck") : \A color \in CardOf(e).color_identity :
            \E k \in Entries("commander") : color \in CardOf(k).color_identity)
    <3>1. (\A p \in main : p.card.color_identity \subseteq CommandZoneColors(commanders)) <=>
          (\A e \in Entries("deck") : CardOf(e).color_identity \subseteq CommandZoneColors(commanders))
      BY <2>1 DEF CardOf
    <3>2. QED
      BY <2>4, <3>1
  <2>6. (\A p \in main : Copies(parse, p.card.name) > 1 => Repeatable(p.card)) <=> Singleton
    <3>1. (\A p \in main : Copies(parse, p.card.name) > 1 => Repeatable(p.card)) <=>
          (\A e \in Entries("deck") : Copies(parse, CardOf(e).name) > 1 => Repeatable(CardOf(e)))
      BY <2>1 DEF CardOf
    <3>2. ASSUME NEW e \in Entries("deck"), ~Repeatable(CardOf(e))
          PROVE  Copies(parse, CardOf(e).name) > 1 <=> CopiesOf(CardOf(e)) # 1
      <4>1. ~InCommandZone(CardOf(e))
        BY <1>6, <3>2, CommandersApart
      <4>2. ~UnderAnotherName(CardOf(e))
        BY DEF WrittenUnderOwnNames, UnderAnotherName
      <4>3. QED
        BY <1>6, <4>1, <4>2, CopiesCount
    <3>3. \A e \in Entries("deck") : index[e.name] # NoEntry
      BY <1>6 DEF Found
    <3>4. Singleton <=> \A e \in Entries("deck") : CopiesOf(CardOf(e)) = 1 \/ Repeatable(CardOf(e))
      BY <3>3 DEF Singleton, OnceIn, Repeatable
    <3>5. QED
      BY <3>1, <3>2, <3>4
  <2>7. FollowsTheRules <=>
          /\ \A e \in Entries("commander") : index[e.name].commander_legal /\ CardOf(e).can_be_commander
          /\ \A e \in Entries("deck") : index[e.name].commander_legal
          /\ \A e \in Entries("deck") : \A color \in CardOf(e).color_identity :
                \E k \in Entries("commander") : color \in CardOf(k).color_identity
          /\ Count(c) \in 1 .. 2
          /\ Count(c \o d) = 100
          /\ Singleton
    BY <1>6 DEF FollowsTheRules, Found, c, d
  <2>8. QED
    BY <1>3, <1>4, <2>2, <2>3, <2>5, <2>6, <2>7
<1>7. QED
  BY <1>2, <1>5, <1>6

-----------------------------------------------------------------------------
(***************************************************************************)
(* The theorems.                                                           *)
(***************************************************************************)

\* The inductive invariant holds for every deck file and every catalog.
THEOREM Invariance == Spec => []IInv
<1>1. IInv /\ [Next]_vars => IInv'
  BY ReadLineStep, OpenCatalogStep, IndexPrintingStep, LastSteps, Stutter DEF Next
<1>2. QED
  BY InitIInv, <1>1, PTL DEF Spec

\* The variables have their types, and nothing is read beyond the end of a file.
THEOREM TypeCorrect == Spec => []TypeOK
<1>1. IInv => TypeOK
  BY DEF IInv
<1>2. QED
  BY <1>1, Invariance, PTL

\* A deck that is accepted is the deck of its file, whatever its lines: every card once,
\* in the section that stands above it, in order (parse_deck_text).
THEOREM AcceptedDeckIsTheFile == Spec => []DeckIsTheFile
<1>1. IInv => DeckIsTheFile
  BY DEF IInv
<1>2. QED
  BY <1>1, Invariance, PTL

\* In whatever order a catalog lists its printings, a name leads to the first legal
\* printing that has it, and to the first of all only if none is legal (_prefer_card).
THEOREM NamesLeadToLegalPrintings == Spec => []LegalPrintingWins
<1>1. IInv => LegalPrintingWins
  <2> SUFFICES ASSUME IInv, Checked PROVE LegalPrintingWins
    BY DEF LegalPrintingWins
  <2>1. TypeOK /\ catalog # None /\ position = Len(catalog)
    BY DEF IInv, Stages
  <2>2. \A name \in CardNames : FirstOfBest(index[name], PrintingsUpTo(name, position))
    BY <2>1 DEF IInv, IndexSoFar
  <2>3. \A name : PrintingsUpTo(name, position) = PrintingsOf(name)
    BY <2>1, CatalogFacts DEF PrintingsUpTo, PrintingsOf
  <2>4. \A name \in CardNames : FirstOfBest(index[name], PrintingsOf(name))
    BY <2>2, <2>3
  <2>5. QED
    BY <2>4 DEF LegalPrintingWins, FirstOfBest, Best, LegalOnes
<1>2. QED
  BY <1>1, Invariance, PTL

LEMMA JudgedOnce == Spec => []Judged
<1>1. Init => Judged
  BY DEF Init, Judged, Checked
<1>2. Judged /\ [Next]_vars => Judged'
  <2> SUFFICES ASSUME Judged, [Next]_vars PROVE Judged'
    OBVIOUS
  <2>1. CASE Validate
    <3>1. /\ issues' = Issues(parse, index) /\ UNCHANGED <<parse, index>>
          /\ pc' = IF issues' = {} THEN "valid" ELSE "invalid"
      BY <2>1 DEF Validate
    <3>2. Issues(parse, index)' = Issues(parse, index)
      BY <3>1
    <3>3. QED
      BY <3>1, <3>2 DEF Judged, Checked
  <2>2. CASE ReadLine \/ RefuseFile \/ OpenCatalog \/ IndexPrinting \/ RefuseCatalog
    <3>1. pc' \notin {"valid", "invalid"}
      <4>1. pc \in {"parsing", "indexing"}
        BY <2>2 DEF ReadLine, RefuseFile, OpenCatalog, IndexPrinting, RefuseCatalog
      <4>2. QED
        BY <2>2, <4>1 DEF ReadLine, RefuseFile, OpenCatalog, IndexPrinting, RefuseCatalog
    <3>2. QED
      BY <3>1 DEF Judged, Checked
  <2>3. CASE UNCHANGED vars
    <3>1. UNCHANGED <<pc, parse, index>>
      BY <2>3 DEF vars
    <3>2. Issues(parse, index)' = Issues(parse, index)
      BY <3>1
    <3>3. QED
      BY <3>1, <3>2 DEF Judged, Checked
  <2>4. QED
    BY <2>1, <2>2, <2>3 DEF Next
<1>3. QED
  BY <1>1, <1>2, PTL DEF Spec

\* Whatever the deck file and the catalog: a deck whose cards are written under their
\* own names, and whose commanders are there once, is found valid exactly if it follows
\* the rules of the format, which count copies of cards in the whole deck where the code
\* counts copies of names in the main deck (validate_commander_deck).
THEOREM ValidDecksFollowTheRules == Spec => []ValidMeansTheRules
<1>1. IInv /\ Judged => ValidMeansTheRules
  BY ReportIsTheRules DEF IInv, Judged, ValidMeansTheRules
<1>2. QED
  BY <1>1, Invariance, JudgedOnce, PTL

\* SingletonEnforced, which README.md promises, fails, and in two ways only: a card of
\* which a deck found valid has more copies than it may is in the command zone, where
\* copies are not counted, or the main deck has a copy under a name not its own, which is
\* counted under that name.
THEOREM TwoWaysAroundSingleton ==
    Spec => [](pc = "valid" =>
                 \A entry \in Entries("commander") \cup Entries("deck") :
                    \/ CopiesOf(CardOf(entry)) = 1
                    \/ Repeatable(CardOf(entry))
                    \/ InCommandZone(CardOf(entry))
                    \/ UnderAnotherName(CardOf(entry)))
<1> DEFINE Once == pc = "valid" =>
                     \A entry \in Entries("commander") \cup Entries("deck") :
                        \/ CopiesOf(CardOf(entry)) = 1
                        \/ Repeatable(CardOf(entry))
                        \/ InCommandZone(CardOf(entry))
                        \/ UnderAnotherName(CardOf(entry))
<1>1. IInv /\ Judged => Once
  <2> SUFFICES ASSUME IInv, Judged, pc = "valid",
                      NEW entry \in Entries("commander") \cup Entries("deck"),
                      ~InCommandZone(CardOf(entry)), ~UnderAnotherName(CardOf(entry)),
                      ~Repeatable(CardOf(entry))
               PROVE  CopiesOf(CardOf(entry)) = 1
    OBVIOUS
  <2>1. TypeOK /\ Issues(parse, index) = {}
    BY DEF IInv, Judged, Checked
  <2>2. /\ Found
        /\ \A p \in Resolved(index, parse.deck) :
              Copies(parse, p.card.name) > 1 => Repeatable(p.card)
    BY <2>1, NoIssues, NoneMissing
  <2>3. entry \in Entries("deck")
    BY <2>2 DEF Found, InCommandZone
  <2>4. index[entry.name] \in Resolved(index, parse.deck)
    <3>1. "deck" \in Sections /\ parse["deck"] = parse.deck
      BY <2>1 DEF Sections, TypeOK
    <3>2. QED
      BY <2>2, <2>3, <3>1, ResolvedOf
  <2>5. ~(Copies(parse, CardOf(entry).name) > 1)
    BY <2>2, <2>4 DEF CardOf
  <2>6. QED
    BY <2>1, <2>2, <2>3, <2>5, CopiesCount
<1>2. QED
  BY <1>1, Invariance, JudgedOnce, PTL
=============================================================================
