--------------------------- MODULE DeckValidation ---------------------------
(***************************************************************************)
(* llmtg.decks.validation.validate_commander_deck: the issues of a deck,     *)
(* given an index of cards.  A deck is what DeckFile parsed: two sequences   *)
(* of entries.  An issue is its code and, where it is about one, a name; the *)
(* order of issues, and how often one is repeated, are left out.            *)
(***************************************************************************)
EXTENDS DeckFile, CardIndex, FiniteSets, Functions

LegalSize == 100

Quantities(entries) == [i \in DOMAIN entries |-> entries[i].quantity]

\* sum(entry.quantity for ...), of the entries a condition picks out.
Total(entries, picked) == FoldFunctionOnSet(+, 0, Quantities(entries), picked)

Count(entries) == Total(entries, DOMAIN entries)

\* Mutation: entries are counted, not copies.
CopiesAsEntries(deck, name) ==
    Cardinality({i \in DOMAIN deck.deck : deck.deck[i].name = name})

\* counts[name]: copies of the main deck under a written name.
Copies(deck, name) == Total(deck.deck, {i \in DOMAIN deck.deck : deck.deck[i].name = name})

\* The cards get_card finds for the entries of a section.
Resolved(index, entries) == {index[entries[i].name] : i \in DOMAIN entries} \ {NoEntry}

NotFound(index, entries) ==
    {entries[i].name : i \in {j \in DOMAIN entries : index[entries[j].name] = NoEntry}}

Issue(code, name) == [code |-> code, name |-> name]
About(code, printings) == {Issue(code, p.card.name) : p \in printings}
If(condition, code) == IF condition THEN {[code |-> code]} ELSE {}

CommandZoneColors(commanders) == UNION {p.card.color_identity : p \in commanders}

Repeatable(card) == card.is_basic_land \/ card.allows_any_number

Issues(deck, index) ==
    LET commanders == Resolved(index, deck.commander)
        main       == Resolved(index, deck.deck)
        commander_count == Count(deck.commander)
    IN  UNION {
          If(commander_count + Count(deck.deck) # LegalSize, "deck_size"),
          If(commander_count \notin {1, 2}, "commander_count"),
          {Issue("card_not_found", n) : n \in NotFound(index, deck.commander \o deck.deck)},
          About("commander_illegal", {p \in commanders : ~p.commander_legal}),
          About("not_a_commander", {p \in commanders : ~p.card.can_be_commander}),
          About("card_illegal", {p \in main : ~p.commander_legal}),
          About("color_identity",
                {p \in main : ~(p.card.color_identity \subseteq CommandZoneColors(commanders))}),
          About("singleton",
                {p \in main : Copies(deck, p.card.name) > 1 /\ ~Repeatable(p.card)}) }
=============================================================================
