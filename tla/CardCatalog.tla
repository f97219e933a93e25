----------------------------- MODULE CardCatalog -----------------------------
(***************************************************************************)
(* llmtg.cards.bulk: programs (validate_deck.py) that share one catalog file *)
(* each call BulkScryfallProvider.synced, which downloads the file unless it *)
(* is fresh and then reads all of it.  The path ends in .gz, as the default  *)
(* one does.                                                                *)
(*                                                                         *)
(* Outside src/ and modelled by what the code relies on: Scryfall publishes  *)
(* releases of the card data and serves the one its metadata named; opening  *)
(* a file for writing empties it, and its bytes arrive in blocks written at  *)
(* the writer's own offset; every change sets the modification time; gzip    *)
(* yields the data of a file only if it is one complete release, because of  *)
(* its end marker and checksum, and nothing but end of file for an empty     *)
(* one.  A program may die, and a request or a write fail, at any step.      *)
(*                                                                         *)
(* An operator introduced by `Mutation:' is a plausible bug in the          *)
(* definition that follows it, kept to show that a property notices it.     *)
(***************************************************************************)
EXTENDS Integers, Sequences

CONSTANTS
    Clients,         \* programs that use the catalog file
    MaxRelease,      \* bound: releases Scryfall publishes
    Size,            \* number of blocks of the file of each release
    MetadataFields,  \* sets of download fields Scryfall's metadata can have
    MaxAge,          \* max_age
    MaxRefresh,      \* assumed: longest time from the metadata to the last block
    MaxTime,         \* bound: the clock
    NoFile           \* there is no catalog file

Releases == 1 .. MaxRelease
DownloadFields == {"jsonl_download_uri", "download_uri"}

ASSUME ReleasesAssumption == MaxRelease \in Nat \ {0} /\ Size \in [Releases -> Nat \ {0}]
ASSUME MetadataAssumption == MetadataFields \subseteq SUBSET DownloadFields
ASSUME TimesAssumption    == MaxAge \in Nat /\ MaxRefresh \in Nat /\ MaxTime \in Nat

VARIABLES
    now,         \* the clock
    current,     \* the release Scryfall's metadata names
    replacedAt,  \* history: when the releases before it were replaced
    content,     \* blocks of the catalog file, or NoFile
    mtime,       \* its modification time
    client,      \* per client: where its call is, and the call's locals
    undisturbed  \* history: since the file was last emptied no writer died,
                 \* failed or overlapped with another one

world == <<now, current, replacedAt>>
vars  == <<now, current, replacedAt, content, mtime, client, undisturbed>>

Idle == [pc |-> "idle"]

Init ==
    /\ now = 0
    /\ current = 1
    /\ replacedAt = << >>
    /\ content = NoFile
    /\ mtime = 0
    /\ client = [c \in Clients |-> Idle]
    /\ undisturbed = TRUE

At(c, pc)     == client[c].pc = pc
Active(c)     == client[c].pc \notin {"idle", "ended"}
Goto(c, next) == client' = [client EXCEPT ![c] = next]

\* The call goes on at pc.
Advance(c, pc) == Goto(c, [client[c] EXCEPT !.pc = pc])

\* The call ends: with the provider of a release, or raising an error.
End(c, outcome) ==
    Goto(c, [pc |-> "ended", force |-> client[c].force, since |-> client[c].since,
             alone |-> client[c].alone, downloaded |-> client[c].download # << >>,
             outcome |-> outcome])

Provider(release) == [result |-> "provider", release |-> release]
Error(kind)       == [result |-> kind]

-----------------------------------------------------------------------------
(***************************************************************************)
(* The world: time passes and Scryfall publishes.                          *)
(***************************************************************************)
Refreshing(c) == client[c].pc \in {"downloading", "fetched", "writing"}

Tick ==
    /\ now < MaxTime
    /\ \A c \in Clients : Refreshing(c) => now - client[c].download.at < MaxRefresh
    /\ now' = now + 1
    /\ UNCHANGED <<current, replacedAt, content, mtime, client, undisturbed>>

Publish ==
    /\ current < MaxRelease
    /\ current' = current + 1
    /\ replacedAt' = Append(replacedAt, now)
    /\ UNCHANGED <<now, content, mtime, client, undisturbed>>

-----------------------------------------------------------------------------
(***************************************************************************)
(* ensure_default_bulk_data.                                               *)
(***************************************************************************)
\* Mutation: a file that exists is never too old.
FreshIfPresent == content # NoFile

\* The file exists and is at most max_age old.
Fresh == content # NoFile /\ now - mtime <= MaxAge

\* Mutation: --refresh is ignored while the file is fresh.
BeginIgnoringForce(c) ==
    /\ ~Active(c)
    /\ \E force \in BOOLEAN :
          client' = [d \in Clients |->
              IF d = c
              THEN [pc |-> IF Fresh THEN "reading" ELSE "asking", force |-> force,
                    since |-> now, alone |-> \A e \in Clients \ {c} : ~Active(e),
                    download |-> << >>, written |-> 0, read |-> << >>]
              ELSE IF Active(d) THEN [client[d] EXCEPT !.alone = FALSE] ELSE client[d]]
    /\ UNCHANGED <<world, content, mtime, undisturbed>>

\* A fresh file is used as it is, unless a download is forced.  `since' and
\* `alone' are histories: when the call began, and that no other was active.
Begin(c) ==
    /\ ~Active(c)
    /\ \E force \in BOOLEAN :
          client' = [d \in Clients |->
              IF d = c
              THEN [pc |-> IF Fresh /\ ~force THEN "reading" ELSE "asking", force |-> force,
                    since |-> now, alone |-> \A e \in Clients \ {c} : ~Active(e),
                    download |-> << >>, written |-> 0, read |-> << >>]
              ELSE IF Active(d) THEN [client[d] EXCEPT !.alone = FALSE] ELSE client[d]]
    /\ UNCHANGED <<world, content, mtime, undisturbed>>

\* What is behind the URI _download_uri_from_metadata picks.
DownloadFormat(fields) ==
    IF "jsonl_download_uri" \in fields THEN "gzipped JSONL" ELSE "JSON list"

GetMetadata(c) ==
    /\ At(c, "asking")
    /\ \E fields \in MetadataFields \ {{}} :
          Goto(c, [client[c] EXCEPT !.pc = "downloading",
                                    !.download = [release |-> current, at |-> now,
                                                  format |-> DownloadFormat(fields)]])
    /\ UNCHANGED <<world, content, mtime, undisturbed>>

\* The metadata names no URI.
MetadataUnusable(c) ==
    /\ At(c, "asking")
    /\ {} \in MetadataFields
    /\ End(c, Error("BulkDataError"))
    /\ UNCHANGED <<world, content, mtime, undisturbed>>

\* Mutation: the body of an error response is taken for the catalog.
RequestFailsKeepingBody(c) ==
    /\ At(c, "asking") \/ At(c, "downloading")
    /\ Advance(c, "fetched")
    /\ UNCHANGED <<world, content, mtime, undisturbed>>

\* Either request fails; only some HTTP errors become a BulkDataError.
RequestFails(c) ==
    /\ At(c, "asking") \/ At(c, "downloading")
    /\ \E kind \in {"BulkDataError", "network error"} : End(c, Error(kind))
    /\ UNCHANGED <<world, content, mtime, undisturbed>>

\* Mutation: the file is opened before the response is read.
DownloadIntoFile(c) ==
    /\ At(c, "downloading")
    /\ \/ Advance(c, "fetched") /\ UNCHANGED content
       \/ End(c, Error("network error")) /\ content' = << >>
    /\ UNCHANGED <<world, mtime, undisturbed>>

\* response.read(): all the bytes are in memory.
Download(c) ==
    /\ At(c, "downloading")
    /\ Advance(c, "fetched")
    /\ UNCHANGED <<world, content, mtime, undisturbed>>

Writing(c) == At(c, "writing")

\* Mutation: the old bytes are left in place to be overwritten.
OpenWithoutTruncating(c) ==
    /\ At(c, "fetched")
    /\ Advance(c, "writing")
    /\ content' = IF content = NoFile THEN << >> ELSE content
    /\ mtime' = now
    /\ undisturbed' = \A d \in Clients : ~Writing(d)
    /\ UNCHANGED world

\* write_bytes opens the file ...
Open(c) ==
    /\ At(c, "fetched")
    /\ Advance(c, "writing")
    /\ content' = << >>
    /\ mtime' = now
    /\ undisturbed' = \A d \in Clients : ~Writing(d)
    /\ UNCHANGED world

Hole == [release |-> 0, format |-> "zeros", number |-> 0]

\* The file after block is written at position k; skipped positions are zeros.
Put(block, k) ==
    [i \in 1 .. (IF k > Len(content) THEN k ELSE Len(content)) |->
        IF i = k THEN block ELSE IF i <= Len(content) THEN content[i] ELSE Hole]

\* ... writes it block by block ...
WriteBlock(c) ==
    /\ Writing(c)
    /\ LET download == client[c].download
           k == client[c].written + 1
       IN /\ k <= Size[download.release]
          /\ content' = Put([release |-> download.release, format |-> download.format,
                             number |-> k], k)
          /\ Goto(c, [client[c] EXCEPT !.written = k])
    /\ mtime' = now
    /\ UNCHANGED <<world, undisturbed>>

\* ... and closes it.
Close(c) ==
    /\ Writing(c)
    /\ client[c].written = Size[client[c].download.release]
    /\ Advance(c, "reading")
    /\ UNCHANGED <<world, content, mtime, undisturbed>>

\* The file cannot be opened, or the disk is full.
WriteFails(c) ==
    /\ At(c, "fetched") \/ Writing(c)
    /\ End(c, Error("OSError"))
    /\ undisturbed' = (undisturbed /\ ~Writing(c))
    /\ UNCHANGED <<world, content, mtime>>

-----------------------------------------------------------------------------
(***************************************************************************)
(* from_file: the file is read to its end, whatever others do to it          *)
(* meanwhile; `read' holds the blocks this call has seen.                    *)
(***************************************************************************)
AtEnd(c) == Len(client[c].read) >= Len(content)

\* The blocks are a release's from its first block on, in the format a .gz
\* path is read in.
PartOfRelease(blocks) ==
    \A i \in DOMAIN blocks :
        /\ blocks[i].number = i
        /\ blocks[i].format = "gzipped JSONL"
        /\ blocks[i].release = blocks[1].release

WholeRelease(blocks) ==
    /\ blocks # << >>
    /\ PartOfRelease(blocks)
    /\ Len(blocks) = Size[blocks[1].release]

ReadBlock(c) ==
    /\ At(c, "reading")
    /\ ~AtEnd(c)
    /\ LET blocks == Append(client[c].read, content[Len(client[c].read) + 1]) IN
          /\ PartOfRelease(blocks)
          /\ Goto(c, [client[c] EXCEPT !.read = blocks])
    /\ UNCHANGED <<world, content, mtime, undisturbed>>

\* A complete release was read: the provider is built and returned.
ReturnProvider(c) ==
    /\ At(c, "reading")
    /\ AtEnd(c)
    /\ WholeRelease(client[c].read)
    /\ End(c, Provider(client[c].read[1].release))
    /\ UNCHANGED <<world, content, mtime, undisturbed>>

\* The file is empty: it has no usable cards.
NoUsableCards(c) ==
    /\ At(c, "reading")
    /\ AtEnd(c)
    /\ client[c].read = << >>
    /\ End(c, Error("BulkDataError"))
    /\ UNCHANGED <<world, content, mtime, undisturbed>>

\* The file ends too early: gzip raises EOFError.
ReadTooShort(c) ==
    /\ At(c, "reading")
    /\ AtEnd(c)
    /\ client[c].read # << >> /\ ~WholeRelease(client[c].read)
    /\ End(c, Error("EOFError"))
    /\ UNCHANGED <<world, content, mtime, undisturbed>>

\* The next block does not go on with the release: gzip finds a bad header or a
\* bad checksum, or a line it yielded is not JSON.
ReadGarbage(c) ==
    /\ At(c, "reading")
    /\ ~AtEnd(c)
    /\ ~PartOfRelease(Append(client[c].read, content[Len(client[c].read) + 1]))
    /\ \E kind \in {"BadGzipFile", "BulkDataError"} : End(c, Error(kind))
    /\ UNCHANGED <<world, content, mtime, undisturbed>>

-----------------------------------------------------------------------------
\* The process dies; another one may start.
Crash(c) ==
    /\ Active(c)
    /\ Goto(c, Idle)
    /\ undisturbed' = (undisturbed /\ ~Writing(c))
    /\ UNCHANGED <<world, content, mtime>>

Next ==
    \/ Tick \/ Publish
    \/ \E c \in Clients :
          \/ Begin(c) \/ GetMetadata(c) \/ MetadataUnusable(c) \/ RequestFails(c)
          \/ Download(c) \/ Open(c) \/ WriteBlock(c) \/ Close(c) \/ WriteFails(c)
          \/ ReadBlock(c) \/ ReturnProvider(c) \/ NoUsableCards(c)
          \/ ReadTooShort(c) \/ ReadGarbage(c)
          \/ Crash(c)

Spec == Init /\ [][Next]_vars

-----------------------------------------------------------------------------
(***************************************************************************)
(* Type correctness.                                                       *)
(***************************************************************************)
Formats == {"gzipped JSONL", "JSON list"}

Blocks == [release : Releases, format : Formats, number : Nat] \cup {Hole}

ASSUME NoFileAssumption == NoFile \notin Seq(Blocks)

Downloads == [release : Releases, at : 0 .. MaxTime, format : Formats]

Outcomes ==
    {Error(kind) : kind \in {"BulkDataError", "network error", "OSError", "EOFError",
                             "BadGzipFile"}}
    \cup {Provider(release) : release \in Releases}

Calls ==
    [pc : {"asking", "downloading", "fetched", "writing", "reading"}, force : BOOLEAN,
     since : 0 .. MaxTime, alone : BOOLEAN, download : Downloads \cup {<< >>},
     written : Nat, read : Seq(Blocks)]

Ends ==
    [pc : {"ended"}, force : BOOLEAN, since : 0 .. MaxTime, alone : BOOLEAN,
     downloaded : BOOLEAN, outcome : Outcomes]

\* The clocks do not run backwards, only a program that has the metadata
\* refreshes the file, and no writer is past the end of its download.
TypeOK ==
    /\ now \in 0 .. MaxTime
    /\ current \in Releases
    /\ replacedAt \in Seq(0 .. now) /\ Len(replacedAt) = current - 1
    /\ content \in Seq(Blocks) \cup {NoFile}
    /\ mtime \in 0 .. now
    /\ client \in [Clients -> {Idle} \cup Calls \cup Ends]
    /\ \A c \in Clients : Refreshing(c) =>
          /\ client[c].download # << >>
          /\ client[c].written <= Size[client[c].download.release]
    /\ undisturbed \in BOOLEAN

-----------------------------------------------------------------------------
(***************************************************************************)
(* Safety properties.                                                      *)
(***************************************************************************)

\* A catalog is only ever lost to a writer that died, failed, or overlapped
\* with another one; a refresh that fails before it has all bytes costs
\* nothing, nor does a longer or shorter file written over another.
UndisturbedCatalogIsWhole ==
    undisturbed /\ content # NoFile /\ (\A c \in Clients : ~Writing(c)) =>
        WholeRelease(content)

Served(c) == At(c, "ended") /\ client[c].outcome.result = "provider"

\* The release a call answered with was Scryfall's at time t or later.
NotReplacedBefore(c, t) ==
    LET release == client[c].outcome.release IN
    release < current => replacedAt[release] >= t

\* Whatever other programs do to the file meanwhile, the cards of a validation
\* were Scryfall's at most max_age, and the time two refreshes take, before: the
\* last writer gives its modification time to blocks that another program,
\* whose refresh began before the writer's, has left in the file.
CardsAreFresh ==
    \A c \in Clients :
        Served(c) => NotReplacedBefore(c, client[c].since - MaxAge - 2 * MaxRefresh)

\* --refresh gives the cards Scryfall had when the program was started, unless
\* another program writes an older download over them; then they are at most
\* as old as that download.
RefreshIsCurrent ==
    \A c \in Clients :
        Served(c) /\ client[c].force =>
            NotReplacedBefore(c, IF client[c].alone THEN client[c].since
                                 ELSE client[c].since - MaxRefresh)

\* A program nobody disturbs reads what it has downloaded: its call does not
\* end because of what the file holds.
OwnDownloadIsReadable ==
    \A c \in Clients :
        At(c, "ended") /\ client[c].alone /\ client[c].downloaded =>
            client[c].outcome.result \notin {"EOFError", "BadGzipFile"}

\* "Ensure a reasonably fresh local Default Cards bulk-data file exists."
\* (bulk.py:73): a program nobody disturbs is sent to read a catalog.
EnsuredCatalogExists ==
    \A c \in Clients : At(c, "reading") /\ client[c].alone => WholeRelease(content)
=============================================================================
