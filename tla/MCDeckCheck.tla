----------------------------- MODULE MCDeckCheck -----------------------------
(***************************************************************************)
(* A commander, a basic land, a card of two faces, one of which any number   *)
(* is allowed, and one of another colour; all deck files of at most three    *)
(* lines, and longer ones that hold a hundred cards.                        *)
(***************************************************************************)
EXTENDS DeckCheck, TLC

CONSTANTS bear, forest, recovery, sanctuary, both, rats, storm, unknown

MCNames == {bear, forest, recovery, sanctuary, both, rats, storm, unknown}

Plain(name, color) ==
    [name |-> name, faces |-> {}, color_identity |-> {color}, is_basic_land |-> FALSE,
     allows_any_number |-> FALSE, can_be_commander |-> FALSE]

Bear     == [Plain(bear, "G") EXCEPT !.can_be_commander = TRUE]
Forest   == [Plain(forest, "G") EXCEPT !.is_basic_land = TRUE]
Rats     == [Plain(rats, "G") EXCEPT !.allows_any_number = TRUE]
TwoFaces == [Plain(both, "G") EXCEPT !.faces = {recovery, sanctuary}]

Legal(card)   == [card |-> card, commander_legal |-> TRUE,  usable |-> TRUE]
Illegal(card) == [card |-> card, commander_legal |-> FALSE, usable |-> TRUE]

Rest == <<Legal(Forest), Legal(Rats), Legal(Plain(storm, "U"))>>

\* An art card that shares a face name, a digital printing, a nameless one.
Prints == {Illegal([Plain(recovery, "G") EXCEPT !.faces = {recovery}]),
           Legal(TwoFaces), Illegal(TwoFaces)}

Orders == {p \in [1 .. 3 -> Prints] : \A i, j \in 1 .. 3 : p[i] = p[j] => i = j}

MCCatalogs ==
    {<<Legal(Bear)>> \o p \o Rest : p \in Orders}
        \cup {<<Legal(TwoFaces), Illegal(Bear)>> \o Rest, << >>,
              <<[Legal(Bear) EXCEPT !.usable = FALSE]>>}

Heading(section)  == [kind |-> "heading", section |-> section]
Of(quantity, name) == [kind |-> "card", quantity |-> quantity, name |-> name]

Lines ==
    {Heading("commander"), Heading("deck"), [kind |-> "skip"], [kind |-> "malformed"],
     Of(0, forest), Of(1, bear), Of(2, bear), Of(97, forest), Of(99, forest),
     Of(2, both), Of(2, recovery), Of(2, rats), Of(2, storm), Of(2, unknown)}

Cards == {Of(1, bear), Of(2, bear), Of(2, both), Of(1, both), Of(2, recovery), Of(2, rats),
          Of(2, storm), Of(1, storm)}

MCTexts ==
    UNION {[1 .. n -> Lines] : n \in 0 .. 3}
        \cup {<<Heading("commander"), x, Heading("deck"), y, Of(97, forest)>> : x, y \in Cards}
        \cup {<<y, Of(97, forest), Heading("commander"), x>> : x, y \in Cards}
        \cup {<<Of(97, forest), Heading("commander"), Of(1, bear), Heading("deck"), x, y>> :
                 x, y \in {Of(1, both), Of(1, recovery), Of(1, rats), Of(1, storm)}}

\* A lawful deck, and one with a second copy of the commander in the main deck and
\* two copies of one card under its face name.
SingletonTexts ==
    { <<Heading("commander"), Of(1, bear), Heading("deck"), Of(99, forest)>>,
      <<Heading("commander"), Of(1, bear), Heading("deck"), Of(1, bear), Of(2, recovery),
        Of(96, forest)>> }
=============================================================================
