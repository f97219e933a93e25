--------------------------- MODULE MCLiveProvider ---------------------------
(***************************************************************************)
(* A card with two faces, found under its full name and under each face,     *)
(* and a name Scryfall does not know.                                       *)
(***************************************************************************)
EXTENDS LiveProvider

CONSTANTS full, front, back, unknown

MCKeys   == {full, front, back, unknown}
MCNameOf == [k \in MCKeys |-> IF k = unknown THEN NoCard ELSE full]
=============================================================================
