----------------------------- MODULE CardIndex ------------------------------
(***************************************************************************)
(* llmtg.cards.bulk: the index BulkScryfallProvider.from_file builds from    *)
(* names to cards, one printing of the catalog after the other, and          *)
(* llmtg.cards.models: what is known of a card.                             *)
(*                                                                         *)
(* A printing is the card it shows, whether it is legal in Commander (the    *)
(* only thing in which printings of a card differ here) and whether it is    *)
(* usable (it has a name and an id).  The predicates of a card that search   *)
(* its text are fields.                                                     *)
(***************************************************************************)
EXTENDS Integers, Sequences

CONSTANTS
    CardNames,  \* names and face names of cards
    Colors,
    NoEntry     \* the index has no card under a name

Card == [name : CardNames, faces : SUBSET CardNames, color_identity : SUBSET Colors,
         is_basic_land : BOOLEAN, allows_any_number : BOOLEAN, can_be_commander : BOOLEAN]

Printing == [card : Card, commander_legal : BOOLEAN, usable : BOOLEAN]

\* _name_aliases: the full name and the names of the faces.
NameAliases(printing) == {printing.card.name} \cup printing.card.faces

\* Mutation: a later printing replaces an earlier one.
PreferLatest(existing, candidate) == candidate

\* _prefer_card.
PreferCard(existing, candidate) ==
    IF existing = NoEntry \/ (candidate.commander_legal /\ ~existing.commander_legal)
    THEN candidate ELSE existing

EmptyIndex == [n \in CardNames |-> NoEntry]

\* One iteration of the loop of from_file.
AddPrinting(index, printing) ==
    IF ~printing.usable THEN index
    ELSE [n \in CardNames |-> IF n \in NameAliases(printing)
                              THEN PreferCard(index[n], printing) ELSE index[n]]
=============================================================================
