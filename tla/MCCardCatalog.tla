---------------------------- MODULE MCCardCatalog ----------------------------
(***************************************************************************)
(* Two programs; a release of two blocks, replaced by one of a single block. *)
(***************************************************************************)
EXTENDS CardCatalog, TLC

MCSize == <<2, 1>>

\* What Scryfall's metadata looks like today, and metadata without a URI.
CurrentFields == {{"jsonl_download_uri", "download_uri"}, {}}

\* Metadata with the `legacy field' only.  With it OwnDownloadIsReadable fails: the
\* download is a JSON list under a path that is read as gzip (README.md, section 5).
LegacyFields == {{"download_uri"}}

\* The programs are interchangeable.
MCSymmetry == Permutations(Clients)
=============================================================================
