------------------------------ MODULE DeckCheck ------------------------------
(***************************************************************************)
(* scripts/validate_deck.py: a deck file is parsed line by line, the catalog *)
(* is indexed printing by printing, and the deck is validated.  How the      *)
(* catalog file comes to be there is the subject of CardCatalog; here it is  *)
(* any catalog.                                                             *)
(***************************************************************************)
EXTENDS DeckValidation

CONSTANTS
    Texts,     \* deck files: sequences of lines
    Catalogs,  \* catalog files: sequences of printings
    None       \* no catalog has been opened

ASSUME NamesAssumption    == Names \subseteq CardNames
ASSUME TextsAssumption    == Texts \subseteq Seq(Line)
ASSUME CatalogsAssumption == Catalogs \subseteq Seq(Printing)
ASSUME NoneAssumption     == None \notin Catalogs /\ NoEntry \notin Printing

VARIABLES
    text,     \* the deck file
    parse,    \* the deck so far
    catalog,  \* the catalog file, or None
    index,    \* the index so far
    position, \* how many lines, then how many printings have been read
    pc,       \* where main() is, or how it ended
    issues    \* of the report

vars == <<text, parse, catalog, index, position, pc, issues>>

Init ==
    /\ text \in Texts
    /\ parse = EmptyParse
    /\ catalog = None
    /\ index = EmptyIndex
    /\ position = 0
    /\ pc = "parsing"
    /\ issues = {}

\* parse_deck_text reads a line.
ReadLine ==
    /\ pc = "parsing"
    /\ position < Len(text)
    /\ ~Refused(text[position + 1])
    /\ parse' = ParseLine(parse, text[position + 1])
    /\ position' = position + 1
    /\ UNCHANGED <<text, catalog, index, pc, issues>>

\* The ValueError of a line, or of a deck without cards, ends the script.
RefuseFile ==
    /\ pc = "parsing"
    /\ IF position < Len(text) THEN Refused(text[position + 1]) ELSE parse.deck = << >>
    /\ pc' = "bad deck file"
    /\ UNCHANGED <<text, parse, catalog, index, position, issues>>

\* The deck is complete; BulkScryfallProvider.synced opens the catalog.
OpenCatalog ==
    /\ pc = "parsing"
    /\ position = Len(text)
    /\ parse.deck # << >>
    /\ catalog' \in Catalogs
    /\ pc' = "indexing"
    /\ position' = 0
    /\ UNCHANGED <<text, parse, index, issues>>

\* from_file reads a printing.
IndexPrinting ==
    /\ pc = "indexing"
    /\ position < Len(catalog)
    /\ index' = AddPrinting(index, catalog[position + 1])
    /\ position' = position + 1
    /\ UNCHANGED <<text, parse, catalog, pc, issues>>

\* A catalog without usable cards: BulkDataError, and the script reports it.
RefuseCatalog ==
    /\ pc = "indexing"
    /\ position = Len(catalog)
    /\ index = EmptyIndex
    /\ pc' = "bad catalog"
    /\ UNCHANGED <<text, parse, catalog, index, position, issues>>

\* validate_commander_deck; the deck is valid when there is no issue.
Validate ==
    /\ pc = "indexing"
    /\ position = Len(catalog)
    /\ index # EmptyIndex
    /\ issues' = Issues(parse, index)
    /\ pc' = IF issues' = {} THEN "valid" ELSE "invalid"
    /\ UNCHANGED <<text, parse, catalog, index, position>>

Next == ReadLine \/ RefuseFile \/ OpenCatalog \/ IndexPrinting \/ RefuseCatalog \/ Validate

Spec == Init /\ [][Next]_vars

-----------------------------------------------------------------------------
Checked == pc \in {"valid", "invalid"}

\* The variables have their types, and the script reads no further than it has.
TypeOK ==
    /\ text \in Seq(Line)
    /\ parse \in [section : Sections, commander : Seq(Entry), deck : Seq(Entry)]
    /\ catalog # None => catalog \in Seq(Printing)
    /\ index \in [CardNames -> Printing \cup {NoEntry}]
    /\ pc \in {"parsing", "bad deck file", "indexing", "bad catalog", "valid", "invalid"}
    /\ position \in 0 .. Len(IF catalog = None THEN text ELSE catalog)
    /\ issues # {} => pc = "invalid"

\* The lines of a file that stand in a section: the last heading before them, if
\* there is one, names it.
LinesIn(section) ==
    {i \in DOMAIN text :
        /\ text[i].kind = "card"
        /\ \/ \E h \in 1 .. i - 1 :
                 /\ text[h].kind = "heading" /\ text[h].section = section
                 /\ \A k \in h + 1 .. i - 1 : text[k].kind # "heading"
           \/ section = "deck" /\ \A k \in 1 .. i - 1 : text[k].kind # "heading"}

\* How many of the lines come before line i, and i.
Rank(lines, i) == Cardinality({k \in lines : k <= i})

\* A deck that is accepted has each card of its file once, in the section whose
\* heading stands above it, in the order of the file, wherever headings, blank
\* lines and comments stand and however often a section is taken up again.
DeckIsTheFile ==
    catalog # None =>
        \A section \in Sections :
            LET lines == LinesIn(section) IN
            /\ Len(parse[section]) = Cardinality(lines)
            /\ \A i \in lines : parse[section][Rank(lines, i)] =
                                   [quantity |-> text[i].quantity, name |-> text[i].name]

\* The numbers of the usable printings of a catalog that have a name.
PrintingsOf(name) == {i \in DOMAIN catalog : catalog[i].usable /\ name \in NameAliases(catalog[i])}

\* Once the catalog is indexed every name it has leads to a printing that has it,
\* a legal one if there is any: the first legal one, or else the first.
\* So whether a name is legal does not depend on the order of the catalog.
LegalPrintingWins ==
    Checked =>
        \A name \in CardNames :
            LET all   == PrintingsOf(name)
                legal == {i \in all : catalog[i].commander_legal}
                best  == IF legal # {} THEN legal ELSE all
            IN  IF all = {} THEN index[name] = NoEntry
                ELSE \E i \in best : index[name] = catalog[i] /\ \A k \in best : i <= k

-----------------------------------------------------------------------------
(***************************************************************************)
(* The rules README.md says the validator checks, about cards, not names.    *)
(***************************************************************************)
CardOf(entry) == index[entry.name].card

\* Copies of a card among some entries, under whatever names they are written.
CopiesIn(entries, card) ==
    Total(entries, {i \in DOMAIN entries :
        index[entries[i].name] # NoEntry /\ CardOf(entries[i]) = card})

\* Copies in the whole deck, which the command zone is a part of.
CopiesOf(card) == CopiesIn(parse.commander, card) + CopiesIn(parse.deck, card)

Entries(section) == {parse[section][i] : i \in DOMAIN parse[section]}

OnceIn(section) ==
    \A entry \in Entries(section) :
        index[entry.name] # NoEntry =>
            \/ CopiesOf(CardOf(entry)) = 1
            \/ CardOf(entry).is_basic_land
            \/ CardOf(entry).allows_any_number

Singleton == OnceIn("commander") /\ OnceIn("deck")

FollowsTheRules ==
    /\ \A entry \in Entries("commander") \cup Entries("deck") :
          index[entry.name] # NoEntry /\ index[entry.name].commander_legal
    /\ \A entry \in Entries("commander") : CardOf(entry).can_be_commander
    /\ \A entry \in Entries("deck") : \A color \in CardOf(entry).color_identity :
          \E c \in Entries("commander") : color \in CardOf(c).color_identity
    /\ Count(parse.commander) \in 1 .. 2
    /\ Count(parse.commander \o parse.deck) = 100
    /\ Singleton

WrittenUnderOwnNames ==
    \A entry \in Entries("deck") : index[entry.name] # NoEntry => CardOf(entry).name = entry.name

\* A deck whose cards are written under their own names, and whose commanders are
\* there once, is found valid exactly if it follows the rules.
ValidMeansTheRules ==
    Checked /\ WrittenUnderOwnNames /\ OnceIn("commander") => (pc = "valid" <=> FollowsTheRules)

\* README.md: the validator checks singleton rules, while allowing basic lands
\* and cards of which any number is allowed, in a deck of a hundred cards
\* including commanders; face names resolve to their cards.
SingletonEnforced == pc = "valid" => Singleton
=============================================================================
