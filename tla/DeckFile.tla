------------------------------ MODULE DeckFile ------------------------------
(***************************************************************************)
(* llmtg.decks.loader: the lines of a deck file, one after the other.       *)
(* A line is a heading, a line to skip (blank or a comment), a card line     *)
(* with a quantity and a name, or malformed.  Names are stripped and         *)
(* casefolded, as everything that compares them does.                       *)
(***************************************************************************)
EXTENDS Integers, Sequences

CONSTANT Names   \* what card names can be written in a deck

Sections == {"commander", "deck"}

Line == [kind : {"heading"}, section : Sections] \cup [kind : {"skip", "malformed"}]
            \cup [kind : {"card"}, quantity : Nat, name : Names]

Entry == [quantity : Nat \ {0}, name : Names]

\* What parse_deck_text holds between two lines.
EmptyParse == [section |-> "deck", commander |-> << >>, deck |-> << >>]

\* Mutation: a quantity of nothing is let through.
RefusedMalformed(line) == line.kind = "malformed"

\* _parse_card_line or CardEntry.__post_init__ raises ValueError.
Refused(line) ==
    \/ line.kind = "malformed"
    \/ line.kind = "card" /\ line.quantity < 1

\* Mutation: a heading starts its section anew.
ParseLineAnew(parse, line) ==
    CASE line.kind = "heading" -> [parse EXCEPT !.section = line.section, ![line.section] = << >>]
      [] line.kind = "card"    ->
            [parse EXCEPT ![parse.section] =
                Append(@, [quantity |-> line.quantity, name |-> line.name])]
      [] OTHER                 -> parse

\* One iteration of the loop of parse_deck_text, for a line that is accepted.
ParseLine(parse, line) ==
    CASE line.kind = "heading" -> [parse EXCEPT !.section = line.section]
      [] line.kind = "card"    ->
            [parse EXCEPT ![parse.section] =
                Append(@, [quantity |-> line.quantity, name |-> line.name])]
      [] OTHER                 -> parse
=============================================================================
