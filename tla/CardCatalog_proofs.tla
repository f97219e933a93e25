-------------------------- MODULE CardCatalog_proofs --------------------------
(***************************************************************************)
(* Theorems about module CardCatalog, for any programs, any releases of any   *)
(* sizes, any max_age and any bound on the time a refresh takes.             *)
(***************************************************************************)
EXTENDS CardCatalog, TLAPS

LEMMA Assumptions ==
    /\ MaxRelease \in Nat \ {0}
    /\ \A r \in Releases : r \in Nat \ {0} /\ Size[r] \in Nat \ {0}
    /\ \A fields \in MetadataFields : fields \subseteq DownloadFields
    /\ MaxAge \in Nat /\ MaxRefresh \in Nat /\ MaxTime \in Nat
    /\ NoFile \notin Seq(Blocks)
BY ReleasesAssumption, MetadataAssumption, TimesAssumption, NoFileAssumption DEF Releases

-----------------------------------------------------------------------------
(***************************************************************************)
(* Records and sequences.                                                  *)
(***************************************************************************)
LEMMA DownloadIsNotEmpty == ASSUME NEW download \in Downloads PROVE download # << >>
<1>1. DOMAIN download = {"release", "at", "format"}
  BY DEF Downloads
<1>2. DOMAIN << >> = {}
  OBVIOUS
<1>3. QED
  BY <1>1, <1>2

LEMMA SeqWidens ==
    ASSUME NEW S, NEW T, S \subseteq T, NEW s \in Seq(S)
    PROVE  s \in Seq(T)
<1>1. s \in [1 .. Len(s) -> S] /\ Len(s) \in Nat
  OBVIOUS
<1>2. s \in [1 .. Len(s) -> T]
  BY <1>1
<1>3. QED
  BY <1>1, <1>2

\* A function on 1 .. n is a sequence of length n.
LEMMA FunctionIsSeq ==
    ASSUME NEW T, NEW n \in Nat, NEW s \in [1 .. n -> T]
    PROVE  s \in Seq(T) /\ Len(s) = n /\ DOMAIN s = 1 .. n
OBVIOUS

\* A block that is no hole knows its number.
LEMMA HoleIsNoBlock ==
    ASSUME NEW b \in Blocks
    PROVE  /\ b.number \in Nat
           /\ b # Hole => b.release \in Releases /\ b.format \in Formats
           /\ b.number # 0 => b # Hole
BY DEF Blocks, Hole

\* The blocks a download consists of.
Block(download, k) ==
    [release |-> download.release, format |-> download.format, number |-> k]

Written(download, n) == [i \in 1 .. n |-> Block(download, i)]

LEMMA BlockType ==
    ASSUME NEW download \in Downloads, NEW k \in Nat
    PROVE  Block(download, k) \in Blocks
BY DEF Block, Blocks, Downloads

LEMMA WrittenType ==
    ASSUME NEW download \in Downloads, NEW n \in Nat
    PROVE  /\ Written(download, n) \in Seq(Blocks)
           /\ Len(Written(download, n)) = n
           /\ \A i \in 1 .. n : Written(download, n)[i] = Block(download, i)
<1>1. Written(download, n) \in [1 .. n -> Blocks]
  BY BlockType DEF Written
<1>2. QED
  BY <1>1, FunctionIsSeq DEF Written

\* What a write leaves in the file: its block, blocks that were there, holes.
LEMMA PutIs ==
    ASSUME NEW block \in Blocks, NEW k \in Nat \ {0}, content \in Seq(Blocks)
    PROVE  /\ Put(block, k) \in Seq(Blocks)
           /\ Len(Put(block, k)) = IF k > Len(content) THEN k ELSE Len(content)
           /\ \A i \in DOMAIN Put(block, k) :
                 Put(block, k)[i] = IF i = k THEN block
                                    ELSE IF i \in DOMAIN content THEN content[i] ELSE Hole
<1> DEFINE n == IF k > Len(content) THEN k ELSE Len(content)
           p == Put(block, k)
<1>1. n \in Nat
  OBVIOUS
<1>2. /\ DOMAIN p = 1 .. n
      /\ \A i \in 1 .. n : p[i] = IF i = k THEN block
                                  ELSE IF i \in DOMAIN content THEN content[i] ELSE Hole
  BY DEF Put
<1>3. \A i \in 1 .. n : p[i] \in Blocks
  BY <1>2 DEF Blocks
<1>4. p = [i \in 1 .. n |-> p[i]]
  BY DEF Put
<1> HIDE DEF p, n
<1>5. p \in [1 .. n -> Blocks]
  BY <1>3, <1>4
<1>6. p \in Seq(Blocks) /\ Len(p) = n /\ DOMAIN p = 1 .. n
  BY <1>1, <1>5, FunctionIsSeq
<1>7. QED
  BY <1>2, <1>6 DEF p, n

\* A writer that is alone in the file appends its blocks.
LEMMA PutNext ==
    ASSUME NEW download \in Downloads, NEW n \in Nat, content = Written(download, n)
    PROVE  Put(Block(download, n + 1), n + 1) = Written(download, n + 1)
<1>1. content \in Seq(Blocks) /\ Len(content) = n
      /\ \A i \in 1 .. n : content[i] = Block(download, i)
  BY WrittenType
<1>2. Put(Block(download, n + 1), n + 1) =
        [i \in 1 .. n + 1 |-> IF i = n + 1 THEN Block(download, n + 1)
                              ELSE IF i <= Len(content) THEN content[i] ELSE Hole]
  BY <1>1 DEF Put
<1>3. \A i \in 1 .. n + 1 : i # n + 1 => i \in 1 .. n /\ i <= Len(content)
  BY <1>1
<1>4. QED
  BY <1>1, <1>2, <1>3 DEF Written

-----------------------------------------------------------------------------
(***************************************************************************)
(* How the actions change the record of a client.                          *)
(***************************************************************************)
LEMMA Moves ==
    ASSUME TypeOK, NEW c \in Clients, NEW next, Goto(c, next)
    PROVE  client'[c] = next /\ \A d \in Clients \ {c} : client'[d] = client[d]
BY DEF TypeOK, Goto

LEMMA ClientTypes ==
    ASSUME TypeOK, NEW c \in Clients
    PROVE  /\ client[c] \in {Idle} \cup Calls \cup Ends
           /\ Active(c) <=> client[c] \in Calls
           /\ At(c, "ended") <=> client[c] \in Ends
<1>1. client[c] \in {Idle} \cup Calls \cup Ends
  BY DEF TypeOK
<1>2. client[c] = Idle => client[c].pc = "idle"
  BY DEF Idle
<1>3. client[c] \in Ends => client[c].pc = "ended"
  BY DEF Ends
<1>4. client[c] \in Calls =>
        client[c].pc \in {"asking", "downloading", "fetched", "writing", "reading"}
  BY DEF Calls
<1>5. QED
  BY <1>1, <1>2, <1>3, <1>4 DEF Active, At

\* The members of a call.
LEMMA CallFields ==
    ASSUME NEW call \in Calls
    PROVE  /\ call.pc \in {"asking", "downloading", "fetched", "writing", "reading"}
           /\ call.force \in BOOLEAN /\ call.since \in 0 .. MaxTime /\ call.alone \in BOOLEAN
           /\ call.download \in Downloads \cup {<< >>}
           /\ call.written \in Nat /\ call.read \in Seq(Blocks)
           /\ call.download # << >> => call.download.release \in Releases
                                       /\ call.download.at \in 0 .. MaxTime
                                       /\ call.download.format \in Formats
<1>1. QED
  BY DEF Calls, Downloads

LEMMA Advances ==
    ASSUME TypeOK, NEW c \in Clients, client[c] \in Calls,
           NEW pc \in {"asking", "downloading", "fetched", "writing", "reading"},
           Advance(c, pc)
    PROVE  /\ client'[c] \in Calls
           /\ client'[c].pc = pc
           /\ client'[c].force = client[c].force
           /\ client'[c].since = client[c].since
           /\ client'[c].alone = client[c].alone
           /\ client'[c].download = client[c].download
           /\ client'[c].written = client[c].written
           /\ client'[c].read = client[c].read
           /\ \A d \in Clients \ {c} : client'[d] = client[d]
<1>1. client'[c] = [client[c] EXCEPT !.pc = pc] /\ \A d \in Clients \ {c} : client'[d] = client[d]
  BY Moves DEF Advance
<1>2. QED
  BY <1>1 DEF Calls

\* How a call ends.
EndsWith(c, outcome) ==
    /\ client'[c].pc = "ended"
    /\ client'[c].force = client[c].force
    /\ client'[c].since = client[c].since
    /\ client'[c].alone = client[c].alone
    /\ client'[c].downloaded = (client[c].download # << >>)
    /\ client'[c].outcome = outcome

LEMMA EndsCall ==
    ASSUME TypeOK, NEW c \in Clients, client[c] \in Calls,
           NEW outcome \in Outcomes, End(c, outcome)
    PROVE  /\ client'[c] \in Ends
           /\ EndsWith(c, outcome)
           /\ \A d \in Clients \ {c} : client'[d] = client[d]
<1> DEFINE next == [pc |-> "ended", force |-> client[c].force, since |-> client[c].since,
                    alone |-> client[c].alone, downloaded |-> client[c].download # << >>,
                    outcome |-> outcome]
<1>1. client'[c] = next /\ \A d \in Clients \ {c} : client'[d] = client[d]
  BY Moves DEF End
<1>2. (client[c].download # << >>) \in BOOLEAN
  OBVIOUS
<1>3. next \in Ends
  BY <1>2, CallFields DEF Ends
<1>4. QED
  BY <1>1, <1>3 DEF EndsWith

LEMMA ErrorsAreOutcomes ==
    /\ \A kind \in {"BulkDataError", "network error", "OSError", "EOFError", "BadGzipFile"} :
          Error(kind) \in Outcomes /\ Error(kind).result = kind
    /\ \A release \in Releases :
          /\ Provider(release) \in Outcomes
          /\ Provider(release).result = "provider"
          /\ Provider(release).release = release
<1>1. QED
  BY DEF Outcomes, Error, Provider

\* The call Begin starts; of the others only `alone' may change.
NewCall(call, pc) ==
    /\ call \in Calls
    /\ call.pc = pc
    /\ call.since = now
    /\ call.download = << >> /\ call.written = 0 /\ call.read = << >>

LEMMA Begins ==
    ASSUME TypeOK, NEW c \in Clients, Begin(c)
    PROVE  /\ client' \in [Clients -> {Idle} \cup Calls \cup Ends]
           /\ \E pc \in {"asking", "reading"} :
                 /\ NewCall(client'[c], pc)
                 /\ pc = "reading" => Fresh /\ ~client'[c].force
                 /\ client'[c].alone => \A e \in Clients \ {c} : ~Active(e)
           /\ \A d \in Clients \ {c} :
                 IF Active(d)
                 THEN /\ client'[d] \in Calls
                      /\ client'[d].pc = client[d].pc
                      /\ client'[d].force = client[d].force
                      /\ client'[d].since = client[d].since
                      /\ client'[d].alone = FALSE
                      /\ client'[d].download = client[d].download
                      /\ client'[d].written = client[d].written
                      /\ client'[d].read = client[d].read
                 ELSE client'[d] = client[d]
<1> DEFINE new(force, others) ==
              [pc |-> IF Fresh /\ ~force THEN "reading" ELSE "asking", force |-> force,
               since |-> now, alone |-> others,
               download |-> << >>, written |-> 0, read |-> << >>]
           others == \A e \in Clients \ {c} : ~Active(e)
<1>1. PICK force \in BOOLEAN :
        client' = [d \in Clients |->
            IF d = c THEN new(force, others)
            ELSE IF Active(d) THEN [client[d] EXCEPT !.alone = FALSE] ELSE client[d]]
  BY DEF Begin
<1>2. others \in BOOLEAN
  OBVIOUS
<1>3. now \in 0 .. MaxTime
  BY DEF TypeOK
<1>4. ASSUME NEW o \in BOOLEAN PROVE new(force, o) \in Calls
  BY <1>3 DEF Calls
<1>5. client'[c] = new(force, others)
  BY <1>1
<1>6. client'[c] \in Calls
  BY <1>2, <1>4, <1>5
<1>7. \E pc \in {"asking", "reading"} :
         /\ NewCall(client'[c], pc)
         /\ pc = "reading" => Fresh /\ ~client'[c].force
         /\ client'[c].alone => others
  <2>1. CASE Fresh /\ ~force
    BY <1>5, <1>6, <2>1 DEF NewCall
  <2>2. CASE ~(Fresh /\ ~force)
    BY <1>5, <1>6, <2>2 DEF NewCall
  <2>3. QED
    BY <2>1, <2>2
<1>8. ASSUME NEW d \in Clients \ {c}, Active(d)
      PROVE  /\ client'[d] \in Calls
             /\ client'[d].pc = client[d].pc
             /\ client'[d].force = client[d].force
             /\ client'[d].since = client[d].since
             /\ client'[d].alone = FALSE
             /\ client'[d].download = client[d].download
             /\ client'[d].written = client[d].written
             /\ client'[d].read = client[d].read
  <2>1. client'[d] = [client[d] EXCEPT !.alone = FALSE]
    BY <1>1, <1>8
  <2>2. client[d] \in Calls
    BY <1>8, ClientTypes
  <2>3. QED
    BY <2>1, <2>2 DEF Calls
<1>9. \A d \in Clients \ {c} : ~Active(d) => client'[d] = client[d]
  BY <1>1
<1>10. \A d \in Clients : client'[d] \in {Idle} \cup Calls \cup Ends
  BY <1>6, <1>8, <1>9, ClientTypes
<1>11. client' = [d \in Clients |-> client'[d]]
  BY <1>1
<1>12. QED
  BY <1>7, <1>8, <1>9, <1>10, <1>11

-----------------------------------------------------------------------------
(***************************************************************************)
(* The inductive invariant.                                                *)
(***************************************************************************)

\* The release was Scryfall's at time t or later.
CurrentSince(release, t) ==
    /\ release \in 1 .. current
    /\ release < current => replacedAt[release] >= t

\* What Scryfall's metadata looks like today: no URI, or one of gzipped JSONL.
JsonlOffered == \A fields \in MetadataFields : fields # {} => "jsonl_download_uri" \in fields

IsJsonl(download) == download.format = "gzipped JSONL"

\* A call writes and reads nothing before it is due; what it has downloaded was
\* Scryfall's when it asked for it, and that was not long ago.
CallOK(c) ==
    LET call == client[c] IN
    /\ call.since <= now
    /\ call.pc = "asking" => call.download = << >>
    /\ call.pc \in {"asking", "downloading", "fetched"} => call.written = 0
    /\ call.pc # "reading" => call.read = << >>
    /\ call.pc = "reading" /\ call.force => call.download # << >>
    /\ call.pc \in {"writing", "reading"} => content # NoFile
    /\ call.download # << >> =>
          /\ CurrentSince(call.download.release, call.download.at)
          /\ call.since <= call.download.at /\ call.download.at <= now
          /\ Refreshing(c) => now - call.download.at <= MaxRefresh
          /\ call.pc = "reading" => call.written = Size[call.download.release]
          /\ JsonlOffered => IsJsonl(call.download)

CallsOK == \A c \in Clients : Active(c) => CallOK(c)

\* The blocks are of releases that were Scryfall's at time t or later.
AllSince(blocks, t) ==
    \A i \in DOMAIN blocks : blocks[i] # Hole => CurrentSince(blocks[i].release, t)

FileSince(t) == content # NoFile => AllSince(content, t)

\* How old the cards may be that a call which is reading gets to see.
Oldest(call) ==
    IF call.download # << >> THEN call.since - MaxRefresh
    ELSE call.since - MaxAge - 2 * MaxRefresh

\* The file was emptied after a writer that is still at work had asked for the
\* metadata, and whoever wrote to it since had asked MaxRefresh earlier at most.
FileFresh ==
    /\ FileSince(mtime - 2 * MaxRefresh)
    /\ \A c \in Clients : Writing(c) => FileSince(client[c].download.at - MaxRefresh)
    /\ \A c \in Clients : At(c, "reading") =>
          FileSince(Oldest(client[c])) /\ AllSince(client[c].read, Oldest(client[c]))

\* The file is what the call has written so far.
OwnFile(c) == content = Written(client[c].download, client[c].written)

PrefixOfFile(blocks) ==
    /\ Len(blocks) <= Len(content)
    /\ \A i \in 1 .. Len(blocks) : blocks[i] = content[i]

\* The file of a program nobody disturbs is its own.
AloneOK ==
    \A c \in Clients : Active(c) /\ client[c].alone =>
        /\ \A d \in Clients \ {c} : ~Active(d)
        /\ Writing(c) => OwnFile(c)
        /\ At(c, "reading") /\ client[c].download # << >> =>
              OwnFile(c) /\ PrefixOfFile(client[c].read)

\* An undisturbed file is the only writer's, or somebody's whole download.
WholeDownload(blocks) ==
    \E download \in Downloads :
        /\ JsonlOffered => IsJsonl(download)
        /\ blocks = Written(download, Size[download.release])

UndisturbedOK ==
    undisturbed /\ content # NoFile =>
        /\ \A c \in Clients : Writing(c) =>
              OwnFile(c) /\ \A d \in Clients : Writing(d) => d = c
        /\ (\A c \in Clients : ~Writing(c)) => WholeDownload(content)

\* What the calls that have ended answered with.
EndOK(c) ==
    LET end == client[c] IN
    /\ end.outcome.result = "provider" =>
          /\ CurrentSince(end.outcome.release, end.since - MaxAge - 2 * MaxRefresh)
          /\ end.force => CurrentSince(end.outcome.release, end.since - MaxRefresh)
          /\ end.force /\ end.alone => CurrentSince(end.outcome.release, end.since)
    /\ JsonlOffered /\ end.alone /\ end.downloaded =>
          end.outcome.result \notin {"EOFError", "BadGzipFile"}

EndsOK == \A c \in Clients : At(c, "ended") => EndOK(c) /\ client[c].since <= now

IInv == TypeOK /\ CallsOK /\ FileFresh /\ AloneOK /\ UndisturbedOK /\ EndsOK

LEMMA InitIInv == Init => IInv
<1> SUFFICES ASSUME Init PROVE IInv
  OBVIOUS
<1>1. \A c \in Clients : client[c] = Idle /\ client[c].pc = "idle"
  BY DEF Init, Idle
<1>2. /\ 1 \in Releases /\ << >> \in Seq(0 .. 0) /\ Len(<< >>) = 0
      /\ now = 0 /\ current = 1 /\ replacedAt = << >> /\ content = NoFile /\ mtime = 0
  BY Assumptions DEF Init, Releases
<1>3. TypeOK
  BY <1>1, <1>2, Assumptions DEF Init, TypeOK, Refreshing
<1>4. CallsOK /\ FileFresh /\ AloneOK /\ UndisturbedOK /\ EndsOK
  BY <1>1, <1>2 DEF CallsOK, Active, FileFresh, FileSince, Writing, At, AloneOK,
                    UndisturbedOK, EndsOK
<1>5. QED
  BY <1>3, <1>4 DEF IInv

-----------------------------------------------------------------------------
(***************************************************************************)
(* Type correctness.                                                       *)
(***************************************************************************)

\* The last part of TypeOK of one client.
RefreshTyped(c) ==
    Refreshing(c) => /\ client[c].download # << >>
                     /\ client[c].written <= Size[client[c].download.release]

\* It is enough that the record of one client has its type.
LEMMA ClientStep ==
    ASSUME TypeOK, NEW c \in Clients,
           client' = [client EXCEPT ![c] = client'[c]],
           client'[c] \in {Idle} \cup Calls \cup Ends,
           RefreshTyped(c)'
    PROVE  /\ client' \in [Clients -> {Idle} \cup Calls \cup Ends]
           /\ \A d \in Clients : RefreshTyped(d)'
<1>1. client \in [Clients -> {Idle} \cup Calls \cup Ends]
  BY DEF TypeOK
<1>2. client' \in [Clients -> {Idle} \cup Calls \cup Ends]
  BY <1>1
<1>3. ASSUME NEW d \in Clients \ {c} PROVE RefreshTyped(d)'
  <2>1. client'[d] = client[d]
    BY <1>1
  <2>2. RefreshTyped(d)
    BY DEF TypeOK, RefreshTyped
  <2>3. QED
    BY <2>1, <2>2 DEF RefreshTyped, Refreshing
<1>4. QED
  BY <1>2, <1>3

\* Only one client's record changes.
Quiet == UNCHANGED <<now, current, replacedAt>>

LEMMA TypeOKFrom ==
    ASSUME TypeOK, Quiet,
           content' \in Seq(Blocks) \cup {NoFile}, mtime' \in {mtime, now},
           client' \in [Clients -> {Idle} \cup Calls \cup Ends],
           \A d \in Clients : RefreshTyped(d)',
           undisturbed' \in BOOLEAN
    PROVE  TypeOK'
<1>1. \A d \in Clients : (Refreshing(d) =>
          /\ client[d].download # << >>
          /\ client[d].written <= Size[client[d].download.release])'
  BY DEF RefreshTyped
<1>2. now' = now /\ current' = current /\ replacedAt' = replacedAt
  BY DEF Quiet
<1>3. mtime' \in 0 .. now'
  BY <1>2 DEF TypeOK
<1>4. QED
  BY <1>1, <1>2, <1>3 DEF TypeOK

LEMMA TypeTick == ASSUME TypeOK, Tick PROVE TypeOK'
<1>1. now' = now + 1 /\ now' \in 0 .. MaxTime /\ now \in Nat
  BY Assumptions DEF TypeOK, Tick
<1>2. replacedAt \in Seq(0 .. now')
  <2>1. 0 .. now \subseteq 0 .. now'
    BY <1>1
  <2>2. QED
    BY <2>1, SeqWidens DEF TypeOK
<1>3. QED
  BY <1>1, <1>2 DEF TypeOK, Tick, Refreshing

LEMMA TypePublish == ASSUME TypeOK, Publish PROVE TypeOK'
<1>1. /\ current' = current + 1 /\ current' \in Releases
      /\ replacedAt' = Append(replacedAt, now) /\ now \in 0 .. now
  BY Assumptions DEF TypeOK, Publish, Releases
<1>2. replacedAt' \in Seq(0 .. now) /\ Len(replacedAt') = Len(replacedAt) + 1
  BY <1>1 DEF TypeOK
<1>3. Len(replacedAt') = current' - 1
  BY <1>1, <1>2 DEF TypeOK, Releases
<1>4. QED
  BY <1>1, <1>2, <1>3 DEF TypeOK, Publish, Refreshing

LEMMA TypeBegin == ASSUME TypeOK, NEW c \in Clients, Begin(c) PROVE TypeOK'
<1>1. ASSUME NEW d \in Clients PROVE RefreshTyped(d)'
  <2>1. RefreshTyped(d)
    BY DEF TypeOK, RefreshTyped
  <2>2. CASE d = c
    BY <2>2, Begins DEF RefreshTyped, Refreshing, NewCall
  <2>3. CASE d # c
    BY <2>1, <2>3, Begins DEF RefreshTyped, Refreshing, Active
  <2>4. QED
    BY <2>2, <2>3
<1>2. QED
  BY <1>1, Begins, TypeOKFrom DEF Begin, Quiet, world, TypeOK

\* A call that ends leaves the client where it needs no download.
LEMMA TypeEnd ==
    ASSUME TypeOK, Quiet, NEW c \in Clients, client[c] \in Calls,
           NEW outcome \in Outcomes, End(c, outcome),
           UNCHANGED <<content, mtime>>, undisturbed' \in BOOLEAN
    PROVE  TypeOK'
<1>1. client'[c] \in Ends /\ client'[c].pc = "ended"
  BY EndsCall DEF EndsWith
<1>2. client' = [client EXCEPT ![c] = client'[c]]
  BY <1>1 DEF End, Goto, TypeOK
<1>3. RefreshTyped(c)'
  BY <1>1 DEF RefreshTyped, Refreshing
<1>4. QED
  BY <1>1, <1>2, <1>3, ClientStep, TypeOKFrom DEF TypeOK

\* A call that goes on keeps its download.
LEMMA TypeAdvance ==
    ASSUME TypeOK, Quiet, NEW c \in Clients, client[c] \in Calls,
           NEW pc \in {"asking", "downloading", "fetched", "writing", "reading"},
           Advance(c, pc), Refreshing(c),
           content' \in Seq(Blocks) \cup {NoFile}, mtime' \in {mtime, now},
           undisturbed' \in BOOLEAN
    PROVE  TypeOK'
<1>1. client'[c] \in Calls /\ client'[c].download = client[c].download
      /\ client'[c].written = client[c].written
  BY Advances
<1>2. client' = [client EXCEPT ![c] = client'[c]]
  BY <1>1 DEF Advance, Goto, TypeOK
<1>3. RefreshTyped(c)'
  BY <1>1 DEF RefreshTyped, Refreshing, TypeOK
<1>4. QED
  BY <1>1, <1>2, <1>3, ClientStep, TypeOKFrom

\* Where a call is when an action is taken.
LEMMA CallAt ==
    ASSUME TypeOK, NEW c \in Clients,
           client[c].pc \in {"asking", "downloading", "fetched", "writing", "reading"}
    PROVE  client[c] \in Calls /\ Active(c)
<1>1. client[c].pc \notin {"idle", "ended"}
  OBVIOUS
<1>2. QED
  BY <1>1, ClientTypes DEF Active

\* The metadata names a download of the current release.
LEMMA Offers ==
    ASSUME TypeOK, NEW c \in Clients, GetMetadata(c)
    PROVE  /\ client[c] \in Calls /\ client[c].pc = "asking"
           /\ client'[c] \in Calls
           /\ client'[c].pc = "downloading"
           /\ client'[c].force = client[c].force
           /\ client'[c].since = client[c].since
           /\ client'[c].alone = client[c].alone
           /\ client'[c].written = client[c].written
           /\ client'[c].read = client[c].read
           /\ client'[c].download \in Downloads /\ client'[c].download # << >>
           /\ client'[c].download.release = current
           /\ client'[c].download.at = now
           /\ JsonlOffered => IsJsonl(client'[c].download)
           /\ \A d \in Clients \ {c} : client'[d] = client[d]
<1>1. client[c] \in Calls /\ client[c].pc = "asking"
  BY CallAt DEF GetMetadata, At
<1>2. PICK fields \in MetadataFields \ {{}} :
        Goto(c, [client[c] EXCEPT !.pc = "downloading",
                                  !.download = [release |-> current, at |-> now,
                                                format |-> DownloadFormat(fields)]])
  BY DEF GetMetadata
<1> DEFINE download == [release |-> current, at |-> now, format |-> DownloadFormat(fields)]
<1>3. /\ client'[c] = [client[c] EXCEPT !.pc = "downloading", !.download = download]
      /\ \A d \in Clients \ {c} : client'[d] = client[d]
  BY <1>2, Moves
<1>4. download \in Downloads
  BY DEF TypeOK, Downloads, DownloadFormat, Formats
<1>5. JsonlOffered => IsJsonl(download)
  BY DEF JsonlOffered, DownloadFormat, IsJsonl
<1>6. download # << >> /\ download.release = current /\ download.at = now
  BY <1>4, DownloadIsNotEmpty
<1> HIDE DEF download
<1>7. client'[c] \in Calls /\ client'[c].download = download /\ client'[c].pc = "downloading"
      /\ client'[c].force = client[c].force /\ client'[c].since = client[c].since
      /\ client'[c].alone = client[c].alone /\ client'[c].written = client[c].written
      /\ client'[c].read = client[c].read
  BY <1>1, <1>3, <1>4 DEF Calls
<1>8. QED
  BY <1>1, <1>3, <1>4, <1>5, <1>6, <1>7

\* One block is written.
LEMMA Writes ==
    ASSUME TypeOK, NEW c \in Clients, WriteBlock(c)
    PROVE  /\ client[c] \in Calls /\ client[c].pc = "writing"
           /\ client[c].download \in Downloads
           /\ client[c].written + 1 <= Size[client[c].download.release]
           /\ content' = Put(Block(client[c].download, client[c].written + 1),
                             client[c].written + 1)
           /\ client'[c] \in Calls
           /\ client'[c].pc = "writing"
           /\ client'[c].force = client[c].force
           /\ client'[c].since = client[c].since
           /\ client'[c].alone = client[c].alone
           /\ client'[c].download = client[c].download
           /\ client'[c].written = client[c].written + 1
           /\ client'[c].read = client[c].read
           /\ \A d \in Clients \ {c} : client'[d] = client[d]
<1>1. client[c] \in Calls /\ client[c].pc = "writing" /\ client[c].written \in Nat
  BY CallAt, CallFields DEF WriteBlock, Writing, At
<1>2. client[c].download \in Downloads
  <2>1. client[c].download # << >>
    BY <1>1 DEF TypeOK, Refreshing
  <2>2. QED
    BY <1>1, <2>1, CallFields
<1>3. /\ client[c].written + 1 <= Size[client[c].download.release]
      /\ content' = Put(Block(client[c].download, client[c].written + 1), client[c].written + 1)
      /\ Goto(c, [client[c] EXCEPT !.written = client[c].written + 1])
  BY DEF WriteBlock, Block
<1>4. /\ client'[c] = [client[c] EXCEPT !.written = client[c].written + 1]
      /\ \A d \in Clients \ {c} : client'[d] = client[d]
  BY <1>3, Moves
<1>5. QED
  BY <1>1, <1>2, <1>3, <1>4 DEF Calls

\* One block is read.
LEMMA Reads ==
    ASSUME TypeOK, NEW c \in Clients, ReadBlock(c), content # NoFile
    PROVE  /\ client[c] \in Calls /\ client[c].pc = "reading"
           /\ content \in Seq(Blocks) /\ Len(client[c].read) + 1 \in DOMAIN content
           /\ PartOfRelease(client'[c].read)
           /\ client'[c] \in Calls
           /\ client'[c].pc = "reading"
           /\ client'[c].force = client[c].force
           /\ client'[c].since = client[c].since
           /\ client'[c].alone = client[c].alone
           /\ client'[c].download = client[c].download
           /\ client'[c].written = client[c].written
           /\ client'[c].read = Append(client[c].read, content[Len(client[c].read) + 1])
           /\ \A d \in Clients \ {c} : client'[d] = client[d]
<1>1. client[c] \in Calls /\ client[c].pc = "reading" /\ client[c].read \in Seq(Blocks)
  BY CallAt, CallFields DEF ReadBlock, At
<1>2. content \in Seq(Blocks) /\ Len(client[c].read) + 1 \in DOMAIN content
  BY <1>1 DEF TypeOK, ReadBlock, AtEnd
<1> DEFINE blocks == Append(client[c].read, content[Len(client[c].read) + 1])
<1>3. blocks \in Seq(Blocks)
  BY <1>1, <1>2
<1>4. PartOfRelease(blocks) /\ Goto(c, [client[c] EXCEPT !.read = blocks])
  BY DEF ReadBlock
<1> HIDE DEF blocks
<1>5. /\ client'[c] = [client[c] EXCEPT !.read = blocks]
      /\ \A d \in Clients \ {c} : client'[d] = client[d]
  BY <1>4, Moves
<1>6. client'[c].read = blocks /\ client'[c] \in Calls
  BY <1>1, <1>3, <1>5 DEF Calls
<1>7. QED
  BY <1>1, <1>2, <1>4, <1>5, <1>6 DEF Calls, blocks

\* The actions that end a call with an error, and with which.
Fails(c, outcome) ==
    /\ End(c, outcome)
    /\ outcome \in Outcomes /\ outcome.result # "provider"
    /\ outcome.result = "EOFError" =>
          /\ client[c].pc = "reading" /\ AtEnd(c)
          /\ client[c].read # << >> /\ ~WholeRelease(client[c].read)
    /\ outcome.result = "BadGzipFile" =>
          /\ client[c].pc = "reading" /\ ~AtEnd(c)
          /\ ~PartOfRelease(Append(client[c].read, content[Len(client[c].read) + 1]))

Failing(c) ==
    \/ MetadataUnusable(c) \/ RequestFails(c) \/ WriteFails(c)
    \/ NoUsableCards(c) \/ ReadTooShort(c) \/ ReadGarbage(c)

LEMMA FailsWith ==
    ASSUME TypeOK, NEW c \in Clients, Failing(c)
    PROVE  /\ client[c] \in Calls
           /\ \E outcome : Fails(c, outcome)
           /\ UNCHANGED <<now, current, replacedAt, content, mtime>>
           /\ undisturbed' = (undisturbed /\ ~Writing(c))
<1> USE ErrorsAreOutcomes DEF Fails, world, At, Writing
<1>0. undisturbed \in BOOLEAN
  BY DEF TypeOK
<1>1. CASE MetadataUnusable(c)
  BY <1>0, <1>1, CallAt DEF MetadataUnusable
<1>2. CASE RequestFails(c)
  BY <1>0, <1>2, CallAt DEF RequestFails
<1>3. CASE WriteFails(c)
  BY <1>0, <1>3, CallAt DEF WriteFails
<1>4. CASE NoUsableCards(c)
  BY <1>0, <1>4, CallAt DEF NoUsableCards
<1>5. CASE ReadTooShort(c)
  BY <1>0, <1>5, CallAt DEF ReadTooShort
<1>6. CASE ReadGarbage(c)
  BY <1>0, <1>6, CallAt DEF ReadGarbage
<1>7. QED
  BY <1>1, <1>2, <1>3, <1>4, <1>5, <1>6 DEF Failing

LEMMA Returns ==
    ASSUME TypeOK, NEW c \in Clients, ReturnProvider(c)
    PROVE  LET release == client[c].read[1].release IN
           /\ client[c] \in Calls /\ client[c].pc = "reading" /\ AtEnd(c)
           /\ WholeRelease(client[c].read)
           /\ 1 \in DOMAIN client[c].read /\ client[c].read[1] # Hole
           /\ release \in Releases
           /\ Provider(release) \in Outcomes
           /\ End(c, Provider(release))
           /\ UNCHANGED <<now, current, replacedAt, content, mtime, undisturbed>>
<1>1. client[c] \in Calls /\ client[c].pc = "reading" /\ client[c].read \in Seq(Blocks)
  BY CallAt, CallFields DEF ReturnProvider, At
<1>2. WholeRelease(client[c].read) /\ client[c].read # << >>
  BY DEF ReturnProvider, WholeRelease
<1>3. 1 \in DOMAIN client[c].read /\ client[c].read[1] \in Blocks
  BY <1>1, <1>2
<1>4. client[c].read[1].number = 1
  BY <1>2, <1>3 DEF WholeRelease, PartOfRelease
<1>5. client[c].read[1] # Hole /\ client[c].read[1].release \in Releases
  BY <1>3, <1>4, HoleIsNoBlock
<1>6. QED
  BY <1>1, <1>2, <1>3, <1>5, ErrorsAreOutcomes DEF ReturnProvider, world

\* What the file holds after a block is written: that block, blocks that were
\* there and holes.
LEMMA WritesFile ==
    ASSUME TypeOK, CallsOK, NEW c \in Clients, WriteBlock(c)
    PROVE  LET k == client[c].written + 1 IN
           /\ content \in Seq(Blocks) /\ content' \in Seq(Blocks)
           /\ \A i \in DOMAIN content' :
                 content'[i] = IF i = k THEN Block(client[c].download, k)
                               ELSE IF i \in DOMAIN content THEN content[i] ELSE Hole
<1> DEFINE k == client[c].written + 1
           block == Block(client[c].download, k)
<1>1. content \in Seq(Blocks)
  BY Writes, CallAt DEF CallsOK, CallOK, TypeOK
<1>2. k \in Nat \ {0} /\ client[c].download \in Downloads
  BY Writes, CallFields
<1>3. block \in Blocks
  BY <1>2, BlockType
<1>4. content' = Put(block, k)
  BY Writes
<1> SUFFICES /\ content \in Seq(Blocks) /\ content' \in Seq(Blocks)
             /\ \A i \in DOMAIN content' :
                   content'[i] = IF i = k THEN block
                                 ELSE IF i \in DOMAIN content THEN content[i] ELSE Hole
  OBVIOUS
<1> HIDE DEF block, k
<1>5. QED
  BY <1>1, <1>2, <1>3, <1>4, PutIs

LEMMA StepTypeOK ==
    ASSUME IInv, [Next]_vars PROVE TypeOK'
<1>0. TypeOK /\ CallsOK
  BY DEF IInv
<1>1. CASE Tick \/ Publish
  BY <1>0, <1>1, TypeTick, TypePublish
<1>2. ASSUME NEW c \in Clients, Begin(c) PROVE TypeOK'
  BY <1>0, <1>2, TypeBegin
<1>3. ASSUME NEW c \in Clients, GetMetadata(c) PROVE TypeOK'
  <2>1. client' = [client EXCEPT ![c] = client'[c]]
    BY <1>0, <1>3 DEF GetMetadata, Goto, TypeOK
  <2>2. RefreshTyped(c)'
    <3>1. client[c].written = 0
      BY <1>0, <1>3, Offers, CallAt DEF CallsOK, CallOK
    <3>2. /\ client'[c].download # << >> /\ client'[c].download.release = current
          /\ client'[c].written = 0
      BY <1>0, <1>3, <3>1, Offers
    <3>3. Size[current] \in Nat
      BY <1>0, Assumptions DEF TypeOK
    <3>4. QED
      BY <3>2, <3>3 DEF RefreshTyped
  <2>3. client'[c] \in Calls
    BY <1>0, <1>3, Offers
  <2>4. QED
    BY <1>0, <1>3, <2>1, <2>2, <2>3, ClientStep, TypeOKFrom DEF GetMetadata, Quiet, world, TypeOK
<1>4. ASSUME NEW c \in Clients, Failing(c) PROVE TypeOK'
  <2>1. undisturbed' \in BOOLEAN
    BY <1>0, <1>4, FailsWith DEF TypeOK
  <2>2. QED
    BY <1>0, <1>4, <2>1, FailsWith, TypeEnd DEF Fails, Quiet
<1>5. ASSUME NEW c \in Clients, Download(c) PROVE TypeOK'
  BY <1>0, <1>5, CallAt, TypeAdvance DEF Download, At, Refreshing, Quiet, world, TypeOK
<1>6. ASSUME NEW c \in Clients, Open(c) PROVE TypeOK'
  <2>1. undisturbed' \in BOOLEAN /\ content' \in Seq(Blocks)
    BY <1>6 DEF Open
  <2>2. QED
    BY <1>0, <1>6, <2>1, CallAt, TypeAdvance DEF Open, At, Refreshing, Quiet, world
<1>7. ASSUME NEW c \in Clients, WriteBlock(c) PROVE TypeOK'
  <2>1. client' = [client EXCEPT ![c] = client'[c]]
    BY <1>0, <1>7 DEF WriteBlock, Goto, TypeOK
  <2>2. client[c].written + 1 \in Nat \ {0} /\ client[c].download \in Downloads
    BY <1>0, <1>7, Writes, CallFields
  <2>3. content' \in Seq(Blocks)
    BY <1>0, <1>7, WritesFile
  <2>4. RefreshTyped(c)'
    BY <1>0, <1>7, <2>2, Writes, DownloadIsNotEmpty DEF RefreshTyped
  <2>5. client'[c] \in Calls
    BY <1>0, <1>7, Writes
  <2>6. QED
    BY <1>0, <1>7, <2>1, <2>3, <2>4, <2>5, ClientStep, TypeOKFrom
       DEF WriteBlock, Quiet, world, TypeOK
<1>8. ASSUME NEW c \in Clients, Close(c) PROVE TypeOK'
  BY <1>0, <1>8, CallAt, TypeAdvance DEF Close, Writing, At, Refreshing, Quiet, world, TypeOK
<1>9. ASSUME NEW c \in Clients, ReadBlock(c) PROVE TypeOK'
  <2>1. client' = [client EXCEPT ![c] = client'[c]]
    BY <1>0, <1>9 DEF ReadBlock, Goto, TypeOK
  <2>2. content # NoFile
    BY <1>0, <1>9, CallAt DEF ReadBlock, At, CallsOK, CallOK
  <2>3. client'[c] \in Calls /\ RefreshTyped(c)'
    BY <1>0, <1>9, <2>2, Reads DEF RefreshTyped, Refreshing
  <2>4. QED
    BY <1>0, <1>9, <2>1, <2>3, ClientStep, TypeOKFrom DEF ReadBlock, Quiet, world, TypeOK
<1>10. ASSUME NEW c \in Clients, ReturnProvider(c) PROVE TypeOK'
  BY <1>0, <1>10, Returns, TypeEnd DEF Quiet, TypeOK
<1>11. ASSUME NEW c \in Clients, Crash(c) PROVE TypeOK'
  <2>1. client' = [client EXCEPT ![c] = Idle] /\ client'[c] = Idle
    BY <1>0, <1>11 DEF Crash, Goto, TypeOK
  <2>2. RefreshTyped(c)'
    BY <2>1 DEF RefreshTyped, Refreshing, Idle
  <2>3. QED
    BY <1>0, <1>11, <2>1, <2>2, ClientStep, TypeOKFrom DEF Crash, Quiet, world, TypeOK
<1>12. CASE UNCHANGED vars
  BY <1>0, <1>12 DEF vars, TypeOK, Refreshing
<1>13. QED
  BY <1>1, <1>2, <1>3, <1>4, <1>5, <1>6, <1>7, <1>8, <1>9, <1>10, <1>11, <1>12
     DEF Next, Failing

-----------------------------------------------------------------------------
(***************************************************************************)
(* What every step keeps.                                                  *)
(***************************************************************************)
WorldStep == UNCHANGED <<current, replacedAt>> \/ Publish

\* A release is never again more current than it was.
LEMMA SinceKept ==
    ASSUME TypeOK, WorldStep
    PROVE  \A r, t : t \in Int /\ t <= now /\ CurrentSince(r, t) =>
               r \in 1 .. current' /\ (r < current' => replacedAt'[r] >= t)
<1> SUFFICES ASSUME NEW r, NEW t \in Int, t <= now, CurrentSince(r, t)
             PROVE  r \in 1 .. current' /\ (r < current' => replacedAt'[r] >= t)
  OBVIOUS
<1>1. CASE UNCHANGED <<current, replacedAt>>
  BY <1>1 DEF CurrentSince
<1>2. CASE Publish
  <2>1. /\ current \in Nat \ {0} /\ now \in Nat /\ replacedAt \in Seq(0 .. now)
        /\ Len(replacedAt) = current - 1
    BY Assumptions DEF TypeOK, Releases
  <2>2. current' = current + 1 /\ replacedAt' = Append(replacedAt, now)
    BY <1>2 DEF Publish
  <2>3. r \in 1 .. current /\ (r < current => replacedAt[r] >= t)
    BY DEF CurrentSince
  <2>4. CASE r = current
    <3>1. replacedAt'[r] = now
      BY <2>1, <2>2, <2>4
    <3>2. QED
      BY <2>1, <2>2, <2>4, <3>1
  <2>5. CASE r < current
    <3>1. r \in 1 .. Len(replacedAt)
      BY <2>1, <2>3, <2>5
    <3>2. replacedAt'[r] = replacedAt[r]
      BY <2>1, <2>2, <3>1
    <3>3. QED
      BY <2>1, <2>2, <2>3, <2>5, <3>2
  <2>6. QED
    BY <2>1, <2>3, <2>4, <2>5
<1>3. QED
  BY <1>1, <1>2 DEF WorldStep

LEMMA SinceWeakens ==
    ASSUME TypeOK, NEW r, NEW t \in Int, NEW u \in Int, u <= t, CurrentSince(r, t)
    PROVE  CurrentSince(r, u)
<1>1. /\ current \in Nat \ {0} /\ replacedAt \in Seq(0 .. now) /\ now \in Nat
      /\ Len(replacedAt) = current - 1
  BY Assumptions DEF TypeOK, Releases
<1>2. r \in 1 .. current /\ (r < current => replacedAt[r] >= t)
  BY DEF CurrentSince
<1>3. r < current => r \in 1 .. Len(replacedAt)
  BY <1>1, <1>2
<1>4. r < current => replacedAt[r] \in 0 .. now
  BY <1>1, <1>3
<1>5. QED
  BY <1>1, <1>2, <1>4 DEF CurrentSince

LEMMA AllSinceWeakens ==
    ASSUME TypeOK, NEW blocks, NEW t \in Int, NEW u \in Int, u <= t, AllSince(blocks, t)
    PROVE  AllSince(blocks, u)
BY SinceWeakens DEF AllSince

\* The record of a call that another program's step leaves alone, or makes know
\* that it has company.
SameCall(d) ==
    /\ client[d] \in Calls /\ client'[d] \in Calls
    /\ client'[d].pc = client[d].pc
    /\ client'[d].force = client[d].force
    /\ client'[d].since = client[d].since
    /\ client'[d].alone => client[d].alone
    /\ client'[d].download = client[d].download
    /\ client'[d].written = client[d].written
    /\ client'[d].read = client[d].read

Stays(d) == IF Active(d) THEN SameCall(d) ELSE client'[d] = client[d]

ClientAction(c) ==
    \/ Begin(c) \/ GetMetadata(c) \/ Failing(c) \/ Download(c) \/ Open(c)
    \/ WriteBlock(c) \/ Close(c) \/ ReadBlock(c) \/ ReturnProvider(c) \/ Crash(c)

LEMMA SameStays ==
    ASSUME TypeOK, NEW d \in Clients, client'[d] = client[d]
    PROVE  Stays(d)
BY ClientTypes DEF Stays, SameCall

LEMMA OthersStay ==
    ASSUME TypeOK, CallsOK, NEW c \in Clients, ClientAction(c), NEW d \in Clients \ {c}
    PROVE  Stays(d)
<1>1. CASE Begin(c)
  BY <1>1, Begins, ClientTypes DEF Stays, SameCall
<1>2. CASE ~Begin(c)
  <2> SUFFICES client'[d] = client[d]
    BY SameStays
  <2>1. CASE GetMetadata(c)
    BY <2>1, Offers
  <2>2. CASE Failing(c)
    BY <2>2, FailsWith, EndsCall DEF Fails
  <2>3. CASE Download(c) \/ Open(c) \/ Close(c)
    BY <2>3, CallAt, Advances DEF Download, Open, Close, Writing, At
  <2>4. CASE WriteBlock(c)
    BY <2>4, Writes
  <2>5. CASE ReadBlock(c)
    BY <2>5, Moves DEF ReadBlock
  <2>6. CASE ReturnProvider(c)
    BY <2>6, Returns, EndsCall
  <2>7. CASE Crash(c)
    BY <2>7, Moves DEF Crash
  <2>8. QED
    BY <1>2, <2>1, <2>2, <2>3, <2>4, <2>5, <2>6, <2>7 DEF ClientAction
<1>3. QED
  BY <1>1, <1>2

\* The file, once it is there, is there for good, and programs do not move the
\* clock or the world.
LEMMA ClientKeeps ==
    ASSUME TypeOK, CallsOK, NEW c \in Clients, ClientAction(c)
    PROVE  /\ UNCHANGED <<now, current, replacedAt>>
           /\ content # NoFile => content' # NoFile
<1>1. CASE Begin(c) \/ GetMetadata(c) \/ Download(c) \/ Close(c) \/ ReadBlock(c) \/ Crash(c)
  BY <1>1 DEF Begin, GetMetadata, Download, Close, ReadBlock, Crash, world
<1>2. CASE Failing(c) \/ ReturnProvider(c)
  BY <1>2, FailsWith, Returns
<1>3. CASE Open(c)
  <2>1. << >> \in Seq(Blocks)
    OBVIOUS
  <2>2. QED
    BY <1>3, <2>1, Assumptions DEF Open, world
<1>4. CASE WriteBlock(c)
  <2>1. content' \in Seq(Blocks)
    BY <1>4, WritesFile
  <2>2. QED
    BY <1>4, <2>1, Assumptions DEF WriteBlock, world
<1>5. QED
  BY <1>1, <1>2, <1>3, <1>4 DEF ClientAction

LEMMA Steps ==
    ASSUME Next
    PROVE  Tick \/ Publish \/ \E c \in Clients : ClientAction(c)
BY DEF Next, ClientAction, Failing

-----------------------------------------------------------------------------
(***************************************************************************)
(* The calls.                                                              *)
(***************************************************************************)

\* A call that goes on at pc with the download it has.
LEMMA CallGoesOn ==
    ASSUME TypeOK, NEW d \in Clients, client[d] \in Calls, CallOK(d),
           WorldStep, now' \in Nat, now <= now',
           client'[d] \in Calls,
           client'[d].since = client[d].since,
           client'[d].force = client[d].force,
           client'[d].download = client[d].download,
           client'[d].pc = "asking" => client[d].pc = "asking",
           client'[d].pc \in {"asking", "downloading", "fetched"} => client'[d].written = 0,
           client'[d].pc # "reading" => client'[d].read = << >>,
           client'[d].pc = "reading" /\ client'[d].force => client'[d].download # << >>,
           client'[d].pc \in {"writing", "reading"} => content' # NoFile,
           Refreshing(d)' /\ client[d].download # << >> =>
               now' - client[d].download.at <= MaxRefresh,
           client'[d].pc = "reading" /\ client[d].download # << >> =>
               client'[d].written = Size[client[d].download.release]
    PROVE  CallOK(d)'
<1> DEFINE download == client[d].download
<1>1. client[d].since \in Int /\ now \in Int
  BY CallFields DEF TypeOK
<1>2. client[d].since <= now /\ (client[d].pc = "asking" => download = << >>)
  BY DEF CallOK
<1>3. download # << >> => download.at \in Int
  BY CallFields
<1>4. download # << >> =>
        /\ CurrentSince(download.release, download.at)
        /\ client[d].since <= download.at /\ download.at <= now
        /\ JsonlOffered => IsJsonl(download)
  BY DEF CallOK
<1>5. download # << >> =>
        /\ download.release \in 1 .. current'
        /\ download.release < current' => replacedAt'[download.release] >= download.at
  BY <1>3, <1>4, SinceKept
<1>6. client'[d].download = download
  OBVIOUS
<1>7. Refreshing(d)' /\ download # << >> => now' - download.at <= MaxRefresh
  OBVIOUS
<1>8. client'[d].pc = "reading" /\ download # << >> => client'[d].written = Size[download.release]
  OBVIOUS
<1> HIDE DEF download
<1>9. ASSUME client'[d].download # << >>
      PROVE  /\ client'[d].download.release \in 1 .. current'
             /\ client'[d].download.release < current' =>
                   replacedAt'[client'[d].download.release] >= client'[d].download.at
             /\ client'[d].since <= client'[d].download.at /\ client'[d].download.at <= now'
             /\ Refreshing(d)' => now' - client'[d].download.at <= MaxRefresh
             /\ client'[d].pc = "reading" => client'[d].written = Size[client'[d].download.release]
             /\ JsonlOffered => IsJsonl(client'[d].download)
  <2>1. download # << >>
    BY <1>6, <1>9
  <2>2. /\ download.release \in 1 .. current'
        /\ download.release < current' => replacedAt'[download.release] >= download.at
        /\ Refreshing(d)' => now' - download.at <= MaxRefresh
        /\ client'[d].pc = "reading" => client'[d].written = Size[download.release]
        /\ JsonlOffered => IsJsonl(download)
    BY <1>4, <1>5, <1>7, <1>8, <2>1
  <2>3. client'[d].since <= download.at /\ download.at <= now'
    <3>1. download.at \in Int /\ client[d].since <= download.at /\ download.at <= now
      BY <1>3, <1>4, <2>1
    <3>2. \A a, n, m \in Int : a <= n /\ n <= m => a <= m
      OBVIOUS
    <3>3. now' \in Int /\ now <= now'
      OBVIOUS
    <3>4. download.at <= now'
      BY <1>1, <3>1, <3>2, <3>3
    <3>5. QED
      BY <3>1, <3>4
  <2>4. QED
    BY <1>6, <2>2, <2>3
<1>10. client'[d].since <= now'
  BY <1>1, <1>2
<1>11. client'[d].pc = "asking" => client'[d].download = << >>
  BY <1>2, <1>6
<1>12. QED
  BY <1>9, <1>10, <1>11 DEF CallOK, CurrentSince

\* Another program's step leaves the call as it was.
LEMMA CallStays ==
    ASSUME TypeOK, NEW d \in Clients, SameCall(d), CallOK(d), WorldStep,
           now' \in Nat, now <= now', content # NoFile => content' # NoFile,
           Refreshing(d) /\ client[d].download # << >> =>
               now' - client[d].download.at <= MaxRefresh
    PROVE  CallOK(d)'
<1>1. client[d] \in Calls /\ client'[d] \in Calls
  BY DEF SameCall
<1>2. Refreshing(d)' <=> Refreshing(d)
  BY DEF SameCall, Refreshing
<1>3. /\ client'[d].since = client[d].since
      /\ client'[d].force = client[d].force
      /\ client'[d].download = client[d].download
      /\ client'[d].written = client[d].written
      /\ client'[d].read = client[d].read
      /\ client'[d].pc = client[d].pc
  BY DEF SameCall
<1>4. /\ client[d].pc \in {"asking", "downloading", "fetched"} => client[d].written = 0
      /\ client[d].pc # "reading" => client[d].read = << >>
      /\ client[d].pc = "reading" /\ client[d].force => client[d].download # << >>
      /\ client[d].pc \in {"writing", "reading"} => content # NoFile
      /\ client[d].pc = "reading" /\ client[d].download # << >> =>
               client[d].written = Size[client[d].download.release]
  BY DEF CallOK
<1>5. QED
  BY <1>1, <1>2, <1>3, <1>4, CallGoesOn

LEMMA ActiveStays ==
    ASSUME TypeOK, NEW d \in Clients, Stays(d)
    PROVE  Active(d)' <=> Active(d)
BY DEF Stays, SameCall, Active

\* A call that ends, well or not, or whose process dies.
LEMMA Leaves ==
    ASSUME TypeOK, NEW c \in Clients, Failing(c) \/ ReturnProvider(c) \/ Crash(c)
    PROVE  client'[c].pc \in {"idle", "ended"}
BY FailsWith, Returns, EndsCall, Moves DEF Fails, EndsWith, Crash, Idle

LEMMA StepCallsOK ==
    ASSUME IInv, [Next]_vars PROVE CallsOK'
<1>0. TypeOK /\ CallsOK /\ now \in Nat /\ current \in 1 .. current
  BY Assumptions DEF IInv, TypeOK, Releases
<1>1. ASSUME WorldStep, now' \in Nat, now <= now', UNCHANGED <<client, content>>,
             \A d \in Clients : Refreshing(d) /\ client[d].download # << >> =>
                now' - client[d].download.at <= MaxRefresh
      PROVE  CallsOK'
  <2> SUFFICES ASSUME NEW d \in Clients, Active(d)' PROVE CallOK(d)'
    BY DEF CallsOK
  <2>1. client'[d] = client[d] /\ Active(d) /\ CallOK(d)
    BY <1>0, <1>1 DEF CallsOK, Active
  <2>2. SameCall(d)
    BY <1>0, <2>1, ClientTypes DEF SameCall
  <2>3. QED
    BY <1>0, <1>1, <2>1, <2>2, CallStays
<1>2. ASSUME NEW d \in Clients, Refreshing(d), client[d].download # << >>
      PROVE  now - client[d].download.at <= MaxRefresh
  BY <1>0, <1>2, CallAt DEF Refreshing, CallsOK, CallOK
<1>3. CASE Tick
  <2>1. ASSUME NEW d \in Clients, Refreshing(d), client[d].download # << >>
        PROVE  now' - client[d].download.at <= MaxRefresh
    <3>1. client[d].download.at \in 0 .. MaxTime
      BY <1>0, <2>1, CallAt, CallFields DEF Refreshing
    <3>2. now - client[d].download.at < MaxRefresh /\ now' = now + 1
      BY <1>3, <2>1 DEF Tick
    <3>3. QED
      BY <1>0, <3>1, <3>2, Assumptions
  <2>2. QED
    BY <1>0, <1>1, <1>3, <2>1 DEF Tick, WorldStep
<1>4. CASE Publish \/ UNCHANGED vars
  BY <1>0, <1>1, <1>2, <1>4 DEF Publish, WorldStep, vars
<1>5. ASSUME NEW c \in Clients, ClientAction(c), NEW d \in Clients, Active(d)'
      PROVE  CallOK(d)'
  <2>1. UNCHANGED <<now, current, replacedAt>> /\ (content # NoFile => content' # NoFile)
    BY <1>0, <1>5, ClientKeeps
  <2>2. WorldStep /\ now' \in Nat /\ now <= now'
    BY <1>0, <2>1 DEF WorldStep
  <2>3. CASE d # c
    <3>1. Stays(d)
      BY <1>0, <1>5, <2>3, OthersStay
    <3>2. Active(d)
      BY <1>0, <1>5, <3>1, ActiveStays
    <3>3. SameCall(d) /\ CallOK(d)
      BY <1>0, <3>1, <3>2 DEF Stays, CallsOK
    <3>4. Refreshing(d) /\ client[d].download # << >> =>
             now' - client[d].download.at <= MaxRefresh
      BY <1>2, <2>1
    <3>5. QED
      BY <1>0, <2>1, <2>2, <3>3, <3>4, CallStays
  <2>4. CASE d = c /\ Begin(c)
    <3>1. PICK pc \in {"asking", "reading"} :
             NewCall(client'[c], pc) /\ (pc = "reading" => Fresh /\ ~client'[c].force)
      BY <1>0, <2>4, Begins
    <3>2. pc = "reading" => content' # NoFile
      BY <2>1, <3>1 DEF Fresh
    <3>3. QED
      BY <1>0, <2>1, <2>4, <3>1, <3>2 DEF NewCall, CallOK, Refreshing
  <2>5. CASE d = c /\ GetMetadata(c)
    <3>1. CallOK(c) /\ client[c] \in Calls /\ client[c].pc = "asking"
      BY <1>0, <2>5, Offers, CallAt DEF CallsOK
    <3>2. client[c].since <= now /\ client[c].written = 0 /\ client[c].read = << >>
      BY <3>1 DEF CallOK
    <3>3. /\ client'[c].download.release = current /\ client'[c].download.at = now
          /\ current' = current /\ now' = now
      BY <1>0, <2>1, <2>5, Offers
    <3>4. /\ client'[c].pc = "downloading" /\ client'[c].since <= now'
          /\ client'[c].written = 0 /\ client'[c].read = << >>
          /\ client'[c].since <= client'[c].download.at
          /\ now' - client'[c].download.at <= MaxRefresh
          /\ JsonlOffered => IsJsonl(client'[c].download)
      <4>1. /\ client'[c].pc = "downloading" /\ client'[c].since = client[c].since
            /\ client'[c].written = client[c].written /\ client'[c].read = client[c].read
            /\ JsonlOffered => IsJsonl(client'[c].download)
        BY <1>0, <2>5, Offers
      <4>2. now - now <= MaxRefresh
        BY <1>0, Assumptions
      <4>3. QED
        BY <3>2, <3>3, <4>1, <4>2
    <3>5. /\ client'[c].download.release \in 1 .. current'
          /\ ~(client'[c].download.release < current')
          /\ client'[c].download.at <= now'
      <4>1. ~(current < current) /\ now <= now
        BY <1>0
      <4>2. QED
        BY <1>0, <3>3, <4>1
    <3>6. client'[c].pc = "downloading" /\ "downloading" # "asking" /\ "downloading" # "reading"
          /\ "downloading" # "writing"
      BY <3>4
    <3>7. QED
      BY <2>5, <3>4, <3>5, <3>6 DEF CallOK, CurrentSince
  <2>6. CASE d = c /\ (Failing(c) \/ ReturnProvider(c) \/ Crash(c))
    <3>1. client'[c].pc \in {"idle", "ended"}
      BY <1>0, <2>6, Leaves
    <3>2. QED
      BY <1>5, <2>6, <3>1 DEF Active
  <2>7. ASSUME d = c, Download(c) \/ Open(c) \/ WriteBlock(c) \/ Close(c) \/ ReadBlock(c)
        PROVE  CallOK(d)'
    <3>1. client[c] \in Calls /\ CallOK(c) /\ client[c].pc \in {"downloading", "fetched", "writing", "reading"}
      BY <1>0, <2>7, CallAt DEF Download, Open, WriteBlock, Close, ReadBlock, Writing, At, CallsOK
    <3>2. client[c].download # << >> => client[c].download.at \in Int
      BY <3>1, CallFields
    <3>3. Refreshing(c) /\ client[c].download # << >> =>
             now' - client[c].download.at <= MaxRefresh
      BY <1>2, <2>1
    <3> USE DEF Refreshing
    <3>4. CASE Download(c)
      <4>1. client[c].pc = "downloading" /\ Advance(c, "fetched")
        BY <3>4 DEF Download, At
      <4>2. client[c].written = 0 /\ client[c].read = << >>
        BY <3>1, <4>1 DEF CallOK
      <4>3. client'[c].pc = "fetched"
        BY <1>0, <3>1, <4>1, Advances
      <4>4. QED
        BY <1>0, <2>2, <2>7, <3>1, <3>3, <4>1, <4>2, <4>3, Advances, CallGoesOn
    <3>5. CASE Open(c)
      <4>1. client[c].pc = "fetched" /\ Advance(c, "writing") /\ content' = << >>
        BY <3>5 DEF Open, At
      <4>2. client[c].written = 0 /\ client[c].read = << >>
        BY <3>1, <4>1 DEF CallOK
      <4>3. client'[c].pc = "writing" /\ content' # NoFile
        <5>1. << >> \in Seq(Blocks)
          OBVIOUS
        <5>2. QED
          BY <1>0, <3>1, <4>1, <5>1, Advances, Assumptions
      <4>4. QED
        BY <1>0, <2>2, <2>7, <3>1, <3>3, <4>1, <4>2, <4>3, Advances, CallGoesOn
    <3>6. CASE WriteBlock(c)
      <4>1. client[c].pc = "writing" /\ client'[c].pc = "writing"
        BY <1>0, <3>6, Writes
      <4>2. client[c].read = << >> /\ content' # NoFile
        BY <2>1, <3>1, <4>1 DEF CallOK
      <4>3. QED
        BY <1>0, <2>2, <2>7, <3>1, <3>3, <3>6, <4>1, <4>2, Writes, CallGoesOn
    <3>7. CASE Close(c)
      <4>1. client[c].pc = "writing" /\ Advance(c, "reading")
            /\ client[c].written = Size[client[c].download.release]
        BY <3>7 DEF Close, Writing, At
      <4>2. client[c].download # << >>
        BY <1>0, <4>1 DEF TypeOK
      <4>3. client'[c].pc = "reading" /\ content' # NoFile
        BY <1>0, <2>1, <3>1, <4>1, Advances DEF CallOK
      <4>4. QED
        BY <1>0, <2>2, <2>7, <3>1, <3>3, <4>1, <4>2, <4>3, Advances, CallGoesOn
    <3>8. CASE ReadBlock(c)
      <4>1. client[c].pc = "reading"
        BY <3>8 DEF ReadBlock, At
      <4>2. /\ client[c].force => client[c].download # << >>
            /\ content # NoFile
            /\ client[c].download # << >> =>
                 client[c].written = Size[client[c].download.release]
        BY <3>1, <4>1 DEF CallOK
      <4>3. client'[c].pc = "reading" /\ content' # NoFile
        BY <1>0, <2>1, <3>8, <4>2, Reads
      <4>4. QED
        BY <1>0, <2>2, <2>7, <3>1, <3>3, <3>8, <4>1, <4>2, <4>3, Reads, CallGoesOn
    <3>9. QED
      BY <2>7, <3>4, <3>5, <3>6, <3>7, <3>8
  <2>8. QED
    BY <1>5, <2>3, <2>4, <2>5, <2>6, <2>7 DEF ClientAction
<1>6. QED
  BY <1>3, <1>4, <1>5, Steps DEF CallsOK

-----------------------------------------------------------------------------
(***************************************************************************)
(* How old the blocks of the file may be.                                  *)
(***************************************************************************)

\* AllSince of the next state, for given blocks and a given time.
AllSinceAfter(blocks, t) ==
    \A i \in DOMAIN blocks : blocks[i] # Hole =>
        /\ blocks[i].release \in 1 .. current'
        /\ blocks[i].release < current' => replacedAt'[blocks[i].release] >= t

LEMMA AllSinceKept ==
    ASSUME TypeOK, WorldStep, NEW blocks, NEW t \in Int, t <= now, AllSince(blocks, t)
    PROVE  AllSinceAfter(blocks, t)
BY SinceKept DEF AllSince, AllSinceAfter

LEMMA FileFreshAfter ==
    ASSUME content' # NoFile => AllSinceAfter(content', mtime' - 2 * MaxRefresh),
           \A d \in Clients : client'[d].pc = "writing" /\ content' # NoFile =>
               AllSinceAfter(content', client'[d].download.at - MaxRefresh),
           \A d \in Clients : client'[d].pc = "reading" =>
               /\ content' # NoFile => AllSinceAfter(content', Oldest(client'[d]))
               /\ AllSinceAfter(client'[d].read, Oldest(client'[d]))
    PROVE  FileFresh'
<1>1. FileSince(mtime - 2 * MaxRefresh)'
  BY DEF FileSince, AllSince, AllSinceAfter, CurrentSince
<1>2. ASSUME NEW d \in Clients, Writing(d)'
      PROVE  FileSince(client[d].download.at - MaxRefresh)'
  BY <1>2 DEF Writing, At, FileSince, AllSince, AllSinceAfter, CurrentSince
<1>3. ASSUME NEW d \in Clients, At(d, "reading")'
      PROVE  FileSince(Oldest(client[d]))' /\ AllSince(client[d].read, Oldest(client[d]))'
  <2>1. Oldest(client[d])' = Oldest(client'[d])
    BY DEF Oldest
  <2>2. client'[d].pc = "reading"
    BY <1>3 DEF At
  <2>3. AllSince(client[d].read, Oldest(client[d]))'
    BY <2>1, <2>2 DEF AllSince, AllSinceAfter, CurrentSince
  <2>4. FileSince(Oldest(client[d]))'
    BY <2>1, <2>2 DEF FileSince, AllSince, AllSinceAfter, CurrentSince
  <2>5. QED
    BY <2>3, <2>4
<1>4. QED
  BY <1>1, <1>2, <1>3 DEF FileFresh

\* A reader may see what was Scryfall's a refresh before its call began.
LEMMA OldestBounds ==
    ASSUME NEW call \in Calls
    PROVE  /\ Oldest(call) \in Int
           /\ Oldest(call) <= call.since - MaxRefresh
           /\ call.since - MaxRefresh \in Int /\ call.since - MaxRefresh <= call.since
BY Assumptions DEF Oldest, Calls

LEMMA OldestSame ==
    ASSUME NEW d \in Clients, SameCall(d)
    PROVE  Oldest(client'[d]) = Oldest(client[d])
BY DEF Oldest, SameCall

\* The bounds the parts of FileFresh speak of are not in the future.
LEMMA BoundsArePast ==
    ASSUME TypeOK, CallsOK
    PROVE  /\ mtime - 2 * MaxRefresh \in Int /\ mtime - 2 * MaxRefresh <= now
           /\ \A d \in Clients : client[d].pc = "writing" =>
                 /\ client[d].download.at \in Int
                 /\ client[d].since \in Int
                 /\ client[d].download.at - MaxRefresh <= now - MaxRefresh
                 /\ client[d].download.at - MaxRefresh <= now
                 /\ now - MaxRefresh <= client[d].download.at
                 /\ client[d].since <= client[d].download.at
                 /\ CurrentSince(client[d].download.release, client[d].download.at)
           /\ \A d \in Clients : client[d].pc = "reading" =>
                 /\ Oldest(client[d]) \in Int
                 /\ Oldest(client[d]) <= now - MaxRefresh
                 /\ Oldest(client[d]) <= now
<1>0. mtime \in 0 .. now /\ now \in Nat
  BY DEF TypeOK
<1>1. mtime - 2 * MaxRefresh \in Int /\ mtime - 2 * MaxRefresh <= now
  BY <1>0, Assumptions
<1>2. ASSUME NEW d \in Clients, client[d].pc = "writing"
      PROVE  /\ client[d].download.at \in Int
             /\ client[d].since \in Int
             /\ client[d].download.at - MaxRefresh <= now - MaxRefresh
             /\ client[d].download.at - MaxRefresh <= now
             /\ now - MaxRefresh <= client[d].download.at
             /\ client[d].since <= client[d].download.at
             /\ CurrentSince(client[d].download.release, client[d].download.at)
  <2>1. client[d] \in Calls /\ Active(d) /\ CallOK(d) /\ Refreshing(d)
    BY <1>2, CallAt DEF CallsOK, Refreshing
  <2>2. client[d].download # << >>
    BY <2>1 DEF TypeOK
  <2>3. client[d].download.at \in Int /\ client[d].since \in Int
    BY <2>1, <2>2, CallFields
  <2>4. /\ now - client[d].download.at <= MaxRefresh
        /\ client[d].download.at <= now
        /\ client[d].since <= client[d].download.at
        /\ CurrentSince(client[d].download.release, client[d].download.at)
    BY <2>1, <2>2 DEF CallOK
  <2> DEFINE at == client[d].download.at
  <2>5. at - MaxRefresh <= now - MaxRefresh /\ at - MaxRefresh <= now /\ now - MaxRefresh <= at
    <3>1. at \in Int /\ at <= now /\ now - at <= MaxRefresh
      BY <2>3, <2>4
    <3> HIDE DEF at
    <3>2. QED
      BY <1>0, <3>1, Assumptions
  <2>6. QED
    BY <2>3, <2>4, <2>5
<1>3. ASSUME NEW d \in Clients, client[d].pc = "reading"
      PROVE  /\ Oldest(client[d]) \in Int
             /\ Oldest(client[d]) <= now - MaxRefresh
             /\ Oldest(client[d]) <= now
  <2>1. client[d] \in Calls /\ CallOK(d)
    BY <1>3, CallAt DEF CallsOK
  <2>2. client[d].since <= now /\ client[d].since \in Int
    <3>1. client[d].since \in Int
      BY <2>1, CallFields
    <3>2. client[d].since <= now
      BY <2>1 DEF CallOK
    <3>3. QED
      BY <3>1, <3>2
  <2>3. Oldest(client[d]) \in Int /\ Oldest(client[d]) <= client[d].since - MaxRefresh
    BY <2>1, OldestBounds
  <2> DEFINE o == Oldest(client[d])
             s == client[d].since
  <2>4. o \in Int /\ s \in Int /\ o <= s - MaxRefresh /\ s <= now
    BY <2>2, <2>3
  <2> HIDE DEF o, s
  <2>5. o <= now - MaxRefresh /\ o <= now
    BY <1>0, <2>4, Assumptions
  <2>6. QED
    BY <2>4, <2>5 DEF o
<1>4. QED
  BY <1>1, <1>2, <1>3

\* A block that is written is no older than the bounds of the others.
LEMMA WritesSince ==
    ASSUME TypeOK, CallsOK, NEW c \in Clients, WriteBlock(c),
           NEW t \in Int, t <= client[c].download.at, AllSince(content, t)
    PROVE  AllSinceAfter(content', t)
<1> DEFINE k == client[c].written + 1
           block == Block(client[c].download, k)
<1>1. CurrentSince(client[c].download.release, t)
  <2>1. /\ CurrentSince(client[c].download.release, client[c].download.at)
        /\ client[c].download.at \in Int
    BY Writes, BoundsArePast
  <2>2. QED
    BY <2>1, SinceWeakens
<1>2. block.release = client[c].download.release
  BY DEF Block
<1>3. CurrentSince(block.release, t)
  BY <1>1, <1>2
<1>4. \A i \in DOMAIN content' :
         content'[i] = IF i = k THEN block ELSE IF i \in DOMAIN content THEN content[i] ELSE Hole
  BY WritesFile
<1> HIDE DEF block, k
<1>5. UNCHANGED <<current, replacedAt>>
  BY DEF WriteBlock, world
<1>6. ASSUME NEW i \in DOMAIN content', content'[i] # Hole
      PROVE  CurrentSince(content'[i].release, t)
  BY <1>3, <1>4, <1>6 DEF AllSince
<1>7. QED
  BY <1>5, <1>6 DEF AllSinceAfter, CurrentSince

\* What FileFresh says of a call that stays, when the file stays.
LEMMA FreshStays ==
    ASSUME TypeOK, CallsOK, FileFresh, WorldStep, UNCHANGED <<content, mtime>>,
           NEW d \in Clients, Stays(d)
    PROVE  /\ client'[d].pc = "writing" /\ content' # NoFile =>
                 AllSinceAfter(content', client'[d].download.at - MaxRefresh)
           /\ client'[d].pc = "reading" =>
                 /\ content' # NoFile => AllSinceAfter(content', Oldest(client'[d]))
                 /\ AllSinceAfter(client'[d].read, Oldest(client'[d]))
<1>1. ASSUME client'[d].pc = "writing", content' # NoFile
      PROVE  AllSinceAfter(content', client'[d].download.at - MaxRefresh)
  <2>1. client[d].pc = "writing" /\ client'[d].download = client[d].download
    BY <1>1 DEF Stays, SameCall
  <2>2. AllSince(content, client[d].download.at - MaxRefresh)
    BY <1>1, <2>1 DEF FileFresh, FileSince, Writing, At
  <2>3. client[d].download.at - MaxRefresh \in Int /\ client[d].download.at - MaxRefresh <= now
    BY <2>1, BoundsArePast, Assumptions
  <2>4. QED
    BY <2>1, <2>2, <2>3, AllSinceKept
<1>2. ASSUME client'[d].pc = "reading"
      PROVE  /\ content' # NoFile => AllSinceAfter(content', Oldest(client'[d]))
             /\ AllSinceAfter(client'[d].read, Oldest(client'[d]))
  <2>1. client[d].pc = "reading"
    BY <1>2 DEF Stays, SameCall
  <2>2. SameCall(d)
    BY <2>1, CallAt DEF Stays
  <2>3. client'[d].read = client[d].read /\ Oldest(client'[d]) = Oldest(client[d])
    BY <2>2, OldestSame DEF SameCall
  <2>4. /\ content # NoFile => AllSince(content, Oldest(client[d]))
        /\ AllSince(client[d].read, Oldest(client[d]))
    BY <2>1 DEF FileFresh, FileSince, At
  <2>5. QED
    BY <2>1, <2>3, <2>4, BoundsArePast, AllSinceKept
<1>3. QED
  BY <1>1, <1>2

LEMMA FreshSameFile ==
    ASSUME TypeOK, CallsOK, FileFresh, WorldStep, UNCHANGED <<content, mtime>>,
           \A d \in Clients : Stays(d)
    PROVE  FileFresh'
<1>1. content' # NoFile => AllSinceAfter(content', mtime' - 2 * MaxRefresh)
  BY BoundsArePast, AllSinceKept DEF FileFresh, FileSince
<1>2. QED
  BY <1>1, FreshStays, FileFreshAfter

\* A program that leaves the file alone: it is enough to look at its own call.
LEMMA FreshOneCall ==
    ASSUME TypeOK, CallsOK, FileFresh, NEW c \in Clients, ClientAction(c),
           UNCHANGED <<content, mtime>>,
           client'[c].pc # "writing",
           client'[c].pc = "reading" =>
               /\ content' # NoFile => AllSinceAfter(content', Oldest(client'[c]))
               /\ AllSinceAfter(client'[c].read, Oldest(client'[c]))
    PROVE  FileFresh'
<1>0. WorldStep /\ \A d \in Clients \ {c} : Stays(d)
  BY ClientKeeps, OthersStay DEF WorldStep
<1>1. content' # NoFile => AllSinceAfter(content', mtime' - 2 * MaxRefresh)
  BY <1>0, BoundsArePast, AllSinceKept DEF FileFresh, FileSince
<1>2. QED
  BY <1>0, <1>1, FreshStays, FileFreshAfter

LEMMA StepFileFresh ==
    ASSUME IInv, [Next]_vars PROVE FileFresh'
<1>0. TypeOK /\ CallsOK /\ FileFresh
  BY DEF IInv
<1>1. CASE Tick \/ Publish \/ UNCHANGED vars
  BY <1>0, <1>1, SameStays, FreshSameFile DEF Tick, Publish, vars, WorldStep
<1>2. ASSUME NEW c \in Clients, Begin(c) PROVE FileFresh'
  <2>1. ClientAction(c) /\ UNCHANGED <<world, content, mtime>>
    BY <1>2 DEF ClientAction, Begin
  <2>2. PICK pc \in {"asking", "reading"} : NewCall(client'[c], pc) /\ (pc = "reading" => Fresh)
    BY <1>0, <1>2, Begins
  <2>3. ASSUME pc = "reading", content # NoFile
        PROVE  AllSinceAfter(content, Oldest(client'[c]))
    <3>1. now - mtime <= MaxAge /\ now \in Int /\ mtime \in Int
      BY <1>0, <2>2, <2>3 DEF Fresh, TypeOK
    <3>2. Oldest(client'[c]) = now - MaxAge - 2 * MaxRefresh
      BY <2>2 DEF Oldest, NewCall
    <3>3. /\ Oldest(client'[c]) \in Int /\ Oldest(client'[c]) <= mtime - 2 * MaxRefresh
          /\ mtime - 2 * MaxRefresh \in Int /\ Oldest(client'[c]) <= now
      BY <1>0, <3>1, <3>2, Assumptions
    <3>4. AllSince(content, mtime - 2 * MaxRefresh)
      BY <1>0, <2>3 DEF FileFresh, FileSince
    <3>5. AllSince(content, Oldest(client'[c]))
      BY <1>0, <3>3, <3>4, AllSinceWeakens
    <3>6. QED
      BY <1>0, <2>1, <3>3, <3>5, AllSinceKept DEF WorldStep, world
  <2>4. AllSinceAfter(<< >>, Oldest(client'[c]))
    BY DEF AllSinceAfter
  <2>5. client'[c].pc = pc /\ client'[c].read = << >>
    BY <2>2 DEF NewCall
  <2>6. QED
    BY <1>0, <2>1, <2>3, <2>4, <2>5, FreshOneCall
<1>3. ASSUME NEW c \in Clients,
             GetMetadata(c) \/ Download(c) \/ Failing(c) \/ ReturnProvider(c) \/ Crash(c)
      PROVE  FileFresh'
  <2>1. ClientAction(c)
    BY <1>3 DEF ClientAction
  <2>2. client'[c].pc \in {"downloading", "fetched", "ended", "idle"}
    <3>1. CASE Download(c)
      BY <1>0, <3>1, CallAt, Advances DEF Download, At
    <3>2. CASE GetMetadata(c)
      BY <1>0, <3>2, Offers
    <3>3. QED
      BY <1>0, <1>3, <3>1, <3>2, Leaves
  <2>3. UNCHANGED <<content, mtime>>
    BY <1>0, <1>3, FailsWith, Returns DEF GetMetadata, Download, Crash
  <2>4. QED
    BY <1>0, <2>1, <2>2, <2>3, FreshOneCall
<1>4. ASSUME NEW c \in Clients, Open(c) PROVE FileFresh'
  <2>1. ClientAction(c) /\ content' = << >>
    BY <1>4 DEF ClientAction, Open
  <2>2. WorldStep /\ \A d \in Clients \ {c} : Stays(d)
    BY <1>0, <2>1, ClientKeeps, OthersStay DEF WorldStep
  <2>3. \A t : AllSinceAfter(content', t)
    BY <2>1 DEF AllSinceAfter
  <2>4. client'[c].pc = "writing"
    BY <1>0, <1>4, CallAt, Advances DEF Open, At
  <2>5. ASSUME NEW d \in Clients, client'[d].pc = "reading"
        PROVE  AllSinceAfter(client'[d].read, Oldest(client'[d]))
    <3>1. d # c /\ Stays(d) /\ client[d].pc = "reading"
      BY <2>2, <2>4, <2>5 DEF Stays, SameCall
    <3>2. SameCall(d)
      BY <1>0, <3>1, CallAt DEF Stays
    <3>3. client'[d].read = client[d].read /\ Oldest(client'[d]) = Oldest(client[d])
      BY <3>2, OldestSame DEF SameCall
    <3>4. AllSince(client[d].read, Oldest(client[d]))
      BY <1>0, <3>1 DEF FileFresh, At
    <3>5. QED
      BY <1>0, <2>2, <3>1, <3>3, <3>4, BoundsArePast, AllSinceKept
  <2>6. QED
    BY <2>3, <2>5, FileFreshAfter
<1>5. ASSUME NEW c \in Clients, WriteBlock(c) PROVE FileFresh'
  <2>1. ClientAction(c) /\ mtime' = now
    BY <1>5 DEF ClientAction, WriteBlock
  <2>2. WorldStep /\ \A d \in Clients \ {c} : Stays(d)
    BY <1>0, <2>1, ClientKeeps, OthersStay DEF WorldStep
  <2>3. /\ client[c].pc = "writing" /\ client'[c].pc = "writing"
        /\ client'[c].download = client[c].download
        /\ content # NoFile
    BY <1>0, <1>5, Writes, CallAt DEF CallsOK, CallOK
  <2>4. ASSUME NEW t \in Int, t <= now - MaxRefresh, AllSince(content, t)
        PROVE  AllSinceAfter(content', t)
    <3> DEFINE at == client[c].download.at
    <3>1. at \in Int /\ now - MaxRefresh <= at /\ now - MaxRefresh \in Int
      BY <1>0, <2>3, BoundsArePast, Assumptions DEF TypeOK
    <3>2. t <= at
      <4> HIDE DEF at
      <4>1. QED
        BY <2>4, <3>1
    <3>3. QED
      BY <1>0, <1>5, <2>4, <3>2, WritesSince
  <2>5. AllSinceAfter(content', mtime' - 2 * MaxRefresh)
    <3> DEFINE t == now - 2 * MaxRefresh
               at == client[c].download.at
    <3>1. at \in Int /\ now - MaxRefresh <= at /\ now \in Int
      BY <1>0, <2>3, BoundsArePast DEF TypeOK
    <3>2. AllSince(content, at - MaxRefresh)
      BY <1>0, <2>3 DEF FileFresh, FileSince, Writing, At
    <3>3. t \in Int /\ t <= at - MaxRefresh /\ at - MaxRefresh \in Int /\ t <= now - MaxRefresh
      <4> HIDE DEF at
      <4>1. QED
        BY <3>1, Assumptions
    <3>4. AllSince(content, t)
      BY <1>0, <3>2, <3>3, AllSinceWeakens
    <3>5. QED
      BY <2>1, <2>4, <3>3, <3>4
  <2>6. ASSUME NEW d \in Clients, client'[d].pc = "writing"
        PROVE  AllSinceAfter(content', client'[d].download.at - MaxRefresh)
    <3>1. client[d].pc = "writing" /\ client'[d].download = client[d].download
      BY <2>2, <2>3, <2>6 DEF Stays, SameCall
    <3>2. AllSince(content, client[d].download.at - MaxRefresh)
      BY <1>0, <2>3, <3>1 DEF FileFresh, FileSince, Writing, At
    <3>3. /\ client[d].download.at - MaxRefresh \in Int
          /\ client[d].download.at - MaxRefresh <= now - MaxRefresh
      BY <1>0, <3>1, BoundsArePast, Assumptions
    <3>4. QED
      BY <2>4, <3>1, <3>2, <3>3
  <2>7. ASSUME NEW d \in Clients, client'[d].pc = "reading"
        PROVE  /\ AllSinceAfter(content', Oldest(client'[d]))
               /\ AllSinceAfter(client'[d].read, Oldest(client'[d]))
    <3>1. d # c /\ Stays(d) /\ client[d].pc = "reading"
      BY <2>2, <2>3, <2>7 DEF Stays, SameCall
    <3>2. SameCall(d)
      BY <1>0, <3>1, CallAt DEF Stays
    <3>3. client'[d].read = client[d].read /\ Oldest(client'[d]) = Oldest(client[d])
      BY <3>2, OldestSame DEF SameCall
    <3>4. AllSince(client[d].read, Oldest(client[d])) /\ AllSince(content, Oldest(client[d]))
      BY <1>0, <2>3, <3>1 DEF FileFresh, FileSince, At
    <3>5. QED
      BY <1>0, <2>2, <2>4, <3>1, <3>3, <3>4, BoundsArePast, AllSinceKept
  <2>8. QED
    BY <2>5, <2>6, <2>7, FileFreshAfter
<1>6. ASSUME NEW c \in Clients, Close(c) PROVE FileFresh'
  <2>1. ClientAction(c) /\ UNCHANGED <<world, content, mtime>> /\ client[c].pc = "writing"
    BY <1>6 DEF ClientAction, Close, Writing, At
  <2>2. /\ client'[c].pc = "reading" /\ client'[c] \in Calls
        /\ client'[c].download = client[c].download /\ client'[c].since = client[c].since
        /\ client'[c].read = client[c].read
    BY <1>0, <1>6, <2>1, CallAt, Advances DEF Close
  <2>3. client[c].read = << >> /\ client[c].download # << >>
    BY <1>0, <2>1, CallAt DEF CallsOK, CallOK, TypeOK, Refreshing
  <2>4. Oldest(client'[c]) = client[c].since - MaxRefresh
    BY <2>2, <2>3 DEF Oldest
  <2>5. content # NoFile => AllSinceAfter(content', Oldest(client'[c]))
    <3> DEFINE at == client[c].download.at
               s  == client[c].since
    <3>1. at \in Int /\ s \in Int /\ s <= at /\ at - MaxRefresh <= now
      BY <1>0, <2>1, BoundsArePast
    <3>2. /\ s - MaxRefresh \in Int /\ at - MaxRefresh \in Int
          /\ s - MaxRefresh <= at - MaxRefresh /\ s - MaxRefresh <= now
      <4> HIDE DEF at, s
      <4>1. QED
        BY <1>0, <3>1, Assumptions DEF TypeOK
    <3>3. content # NoFile => AllSince(content, at - MaxRefresh)
      BY <1>0, <2>1 DEF FileFresh, FileSince, Writing, At
    <3>4. content # NoFile => AllSince(content, s - MaxRefresh)
      BY <1>0, <3>2, <3>3, AllSinceWeakens
    <3>5. QED
      BY <1>0, <2>1, <2>4, <3>2, <3>4, AllSinceKept DEF WorldStep, world
  <2>6. AllSinceAfter(client'[c].read, Oldest(client'[c]))
    BY <2>2, <2>3 DEF AllSinceAfter
  <2>7. QED
    BY <1>0, <2>1, <2>2, <2>5, <2>6, FreshOneCall
<1>7. ASSUME NEW c \in Clients, ReadBlock(c) PROVE FileFresh'
  <2>1. ClientAction(c) /\ UNCHANGED <<world, content, mtime>> /\ client[c].pc = "reading"
    BY <1>7 DEF ClientAction, ReadBlock, At
  <2>2. client[c] \in Calls /\ client[c].read \in Seq(Blocks) /\ content # NoFile
    BY <1>0, <2>1, CallAt, CallFields DEF CallsOK, CallOK
  <2>3. /\ client'[c].pc = "reading"
        /\ client'[c].download = client[c].download /\ client'[c].since = client[c].since
        /\ content \in Seq(Blocks) /\ Len(client[c].read) + 1 \in DOMAIN content
        /\ client'[c].read = Append(client[c].read, content[Len(client[c].read) + 1])
    BY <1>0, <1>7, <2>2, Reads
  <2>4. Oldest(client'[c]) = Oldest(client[c])
    BY <2>3 DEF Oldest
  <2>5. AllSince(client[c].read, Oldest(client[c])) /\ AllSince(content, Oldest(client[c]))
    BY <1>0, <2>1, <2>2 DEF FileFresh, FileSince, At
  <2>6. AllSince(client'[c].read, Oldest(client[c]))
    <3> DEFINE read == client[c].read
               next == content[Len(read) + 1]
    <3>1. next \in Blocks /\ (next # Hole => CurrentSince(next.release, Oldest(client[c])))
      BY <2>3, <2>5 DEF AllSince
    <3>2. read \in Seq(Blocks)
      BY <2>2
    <3> HIDE DEF read, next
    <3>3. \A i \in DOMAIN Append(read, next) :
             \/ Append(read, next)[i] = next
             \/ i \in DOMAIN read /\ Append(read, next)[i] = read[i]
      BY <3>1, <3>2
    <3>4. QED
      BY <2>3, <2>5, <3>1, <3>3 DEF AllSince, read, next
  <2>7. QED
    BY <1>0, <2>1, <2>3, <2>4, <2>5, <2>6, BoundsArePast, AllSinceKept, FreshOneCall
       DEF WorldStep, world
<1>8. QED
  BY <1>1, <1>2, <1>3, <1>4, <1>5, <1>6, <1>7, Steps DEF ClientAction

-----------------------------------------------------------------------------
(***************************************************************************)
(* Whose the file is.                                                      *)
(***************************************************************************)
LEMMA WrittenNothing == ASSUME NEW download PROVE Written(download, 0) = << >>
BY DEF Written

\* Opening and writing keep the file the writer's own; `client' may change.
LEMMA OwnAfterOpen ==
    ASSUME TypeOK, CallsOK, NEW c \in Clients, Open(c)
    PROVE  /\ client[c] \in Calls /\ client'[c] \in Calls /\ client'[c].pc = "writing"
           /\ client'[c].alone = client[c].alone
           /\ OwnFile(c)'
<1>1. client[c] \in Calls /\ client[c].pc = "fetched" /\ Advance(c, "writing") /\ content' = << >>
  BY CallAt DEF Open, At
<1>2. client[c].written = 0
  BY <1>1, CallAt DEF CallsOK, CallOK
<1>3. client'[c].written = 0 /\ client'[c].pc = "writing" /\ client'[c] \in Calls
      /\ client'[c].alone = client[c].alone
  BY <1>1, <1>2, Advances
<1>4. content' = Written(client'[c].download, client'[c].written)
  BY <1>1, <1>3, WrittenNothing
<1>5. QED
  BY <1>1, <1>3, <1>4 DEF OwnFile, Written, Block

LEMMA OwnAfterWrite ==
    ASSUME TypeOK, NEW c \in Clients, WriteBlock(c), OwnFile(c)
    PROVE  OwnFile(c)'
<1> DEFINE download == client[c].download
           n == client[c].written
<1>1. download \in Downloads /\ n \in Nat
  BY Writes, CallFields
<1>2. content = Written(download, n)
  BY DEF OwnFile
<1>3. content' = Put(Block(download, n + 1), n + 1)
  BY Writes
<1>4. client'[c].download = download /\ client'[c].written = n + 1
  BY Writes
<1> HIDE DEF download, n
<1>5. content' = Written(download, n + 1)
  BY <1>1, <1>2, <1>3, PutNext
<1>6. QED
  BY <1>4, <1>5 DEF OwnFile, Written, Block

LEMMA OwnKept ==
    ASSUME NEW d, content' = content,
           client'[d].download = client[d].download, client'[d].written = client[d].written,
           OwnFile(d)
    PROVE  OwnFile(d)'
BY DEF OwnFile, Written, Block

LEMMA StepAloneOK ==
    ASSUME IInv, [Next]_vars PROVE AloneOK'
<1>0. TypeOK /\ CallsOK /\ AloneOK
  BY DEF IInv
<1>1. CASE Tick \/ Publish \/ UNCHANGED vars
  <2>1. UNCHANGED <<client, content>>
    BY <1>1 DEF Tick, Publish, vars
  <2>2. QED
    BY <1>0, <2>1 DEF AloneOK, Active, Writing, At, OwnFile, Written, Block, PrefixOfFile
<1>2. ASSUME NEW c \in Clients, ClientAction(c),
             NEW d \in Clients, Active(d)', client'[d].alone
      PROVE  /\ \A e \in Clients \ {d} : ~Active(e)'
             /\ Writing(d)' => OwnFile(d)'
             /\ At(d, "reading")' /\ client'[d].download # << >> =>
                   OwnFile(d)' /\ PrefixOfFile(client[d].read)'
  <2>1. \A e \in Clients \ {c} : Stays(e) /\ (Active(e)' <=> Active(e))
    BY <1>0, <1>2, OthersStay, ActiveStays
  <2>2. CASE Begin(c)
    <3>1. d = c
      BY <1>0, <1>2, <2>1, <2>2, Begins
    <3>2. PICK pc \in {"asking", "reading"} :
             NewCall(client'[c], pc) /\ (client'[c].alone => \A e \in Clients \ {c} : ~Active(e))
      BY <1>0, <2>2, Begins
    <3>3. client'[c].pc # "writing" /\ client'[c].download = << >>
      BY <3>2 DEF NewCall
    <3>4. QED
      BY <1>2, <2>1, <3>1, <3>2, <3>3 DEF Writing, At
  <2>3. CASE ~Begin(c)
    <3>1. Active(c) /\ client[c] \in Calls
      BY <1>0, <1>2, <2>3, ClientTypes, CallAt, Offers, FailsWith, Writes, Returns
         DEF ClientAction, Download, Open, Close, ReadBlock, Crash, Writing, At
    <3>2. d = c
      <4>1. CASE d # c
        <5>1. Active(d) /\ client[d].alone
          BY <1>2, <2>1, <4>1 DEF Stays, SameCall
        <5>2. QED
          BY <1>0, <3>1, <4>1, <5>1 DEF AloneOK
      <4>2. QED
        BY <4>1
    <3>3. CASE Failing(c) \/ ReturnProvider(c) \/ Crash(c)
      BY <1>0, <1>2, <3>2, <3>3, Leaves DEF Active
    <3>4. CASE GetMetadata(c) \/ Download(c)
      <4>1. client'[c].pc \in {"downloading", "fetched"} /\ client'[c].alone = client[c].alone
        BY <1>0, <3>1, <3>4, Offers, Advances DEF Download
      <4>2. \A e \in Clients \ {c} : ~Active(e)'
        BY <1>0, <1>2, <2>1, <3>1, <3>2, <4>1 DEF AloneOK
      <4>3. QED
        BY <3>2, <4>1, <4>2 DEF Writing, At
    <3>5. CASE Open(c)
      <4>1. client'[c].pc = "writing" /\ client'[c].alone = client[c].alone /\ OwnFile(c)'
        BY <1>0, <3>5, OwnAfterOpen
      <4>2. \A e \in Clients \ {c} : ~Active(e)'
        BY <1>0, <1>2, <2>1, <3>1, <3>2, <4>1 DEF AloneOK
      <4>3. QED
        BY <3>2, <4>1, <4>2 DEF At
    <3>6. CASE WriteBlock(c)
      <4>1. client[c].pc = "writing" /\ client'[c].pc = "writing"
            /\ client'[c].alone = client[c].alone
        BY <1>0, <3>6, Writes
      <4>2. OwnFile(c) /\ \A e \in Clients \ {c} : ~Active(e)'
        BY <1>0, <1>2, <2>1, <3>1, <3>2, <4>1 DEF AloneOK, Writing, At
      <4>3. OwnFile(c)'
        BY <1>0, <3>6, <4>2, OwnAfterWrite
      <4>4. QED
        BY <3>2, <4>1, <4>2, <4>3 DEF At
    <3>7. CASE Close(c)
      <4>1. /\ client[c].pc = "writing" /\ client'[c].pc = "reading" /\ content' = content
            /\ client'[c].alone = client[c].alone /\ client'[c].download = client[c].download
            /\ client'[c].written = client[c].written /\ client'[c].read = client[c].read
        BY <1>0, <3>1, <3>7, Advances DEF Close, Writing, At
      <4>2. OwnFile(c) /\ \A e \in Clients \ {c} : ~Active(e)'
        BY <1>0, <1>2, <2>1, <3>1, <3>2, <4>1 DEF AloneOK, Writing, At
      <4>3. OwnFile(c)'
        BY <4>1, <4>2, OwnKept
      <4>4. client'[c].read = << >> /\ content # NoFile
        BY <1>0, <3>1, <4>1 DEF CallsOK, CallOK
      <4>5. Len(content') \in Nat
        BY <1>0, <4>1, <4>4 DEF TypeOK
      <4>6. PrefixOfFile(client[c].read)'
        BY <4>4, <4>5 DEF PrefixOfFile
      <4>7. QED
        BY <3>2, <4>1, <4>2, <4>3, <4>6 DEF Writing, At
    <3>8. CASE ReadBlock(c)
      <4>1. client[c].pc = "reading" /\ client[c].read \in Seq(Blocks) /\ content # NoFile
        BY <1>0, <3>1, <3>8, CallFields DEF ReadBlock, At, CallsOK, CallOK
      <4>2. /\ client'[c].pc = "reading" /\ content' = content /\ content \in Seq(Blocks)
            /\ client'[c].alone = client[c].alone /\ client'[c].download = client[c].download
            /\ client'[c].written = client[c].written
            /\ client'[c].read = Append(client[c].read, content[Len(client[c].read) + 1])
            /\ Len(client[c].read) + 1 \in DOMAIN content
        BY <1>0, <3>8, <4>1, Reads DEF ReadBlock
      <4>3. \A e \in Clients \ {c} : ~Active(e)'
        BY <1>0, <1>2, <2>1, <3>1, <3>2, <4>2 DEF AloneOK
      <4>4. CASE client[c].download # << >>
        <5>1. OwnFile(c) /\ PrefixOfFile(client[c].read)
          BY <1>0, <1>2, <3>1, <3>2, <4>1, <4>2, <4>4 DEF AloneOK, At
        <5>2. OwnFile(c)'
          BY <4>2, <5>1, OwnKept
        <5>3. PrefixOfFile(client'[c].read)
          <6> DEFINE read == client[c].read
                     next == content[Len(read) + 1]
          <6>1. read \in Seq(Blocks) /\ Len(read) + 1 \in 1 .. Len(content) /\ next \in Blocks
                /\ \A i \in 1 .. Len(read) : read[i] = content[i]
            BY <4>1, <4>2, <5>1 DEF PrefixOfFile
          <6> HIDE DEF read
          <6>2. /\ Len(Append(read, next)) = Len(read) + 1
                /\ \A i \in 1 .. Len(read) + 1 : Append(read, next)[i] = content[i]
            BY <6>1
          <6>3. QED
            BY <4>2, <6>1, <6>2 DEF PrefixOfFile, read
        <5>4. PrefixOfFile(client[c].read)'
          BY <4>2, <5>3 DEF PrefixOfFile
        <5>5. QED
          BY <3>2, <4>2, <4>3, <5>2, <5>4 DEF Writing, At
      <4>5. QED
        BY <3>2, <4>2, <4>3, <4>4 DEF Writing, At
    <3>9. QED
      BY <1>2, <2>3, <3>3, <3>4, <3>5, <3>6, <3>7, <3>8 DEF ClientAction
  <2>4. QED
    BY <2>2, <2>3
<1>3. QED
  BY <1>1, <1>2, Steps DEF AloneOK

\* Nothing of what UndisturbedOK speaks of changes, but for a writer that leaves.
LEMMA UndisturbedKept ==
    ASSUME UndisturbedOK, content' = content, undisturbed' => undisturbed,
           undisturbed' => \A d \in Clients : client'[d].pc = "writing" <=> client[d].pc = "writing",
           \A d \in Clients : client'[d].pc = "writing" =>
               /\ client'[d].download = client[d].download
               /\ client'[d].written = client[d].written
    PROVE  UndisturbedOK'
<1> SUFFICES ASSUME undisturbed', content' # NoFile
             PROVE  /\ \A d \in Clients : Writing(d)' =>
                          OwnFile(d)' /\ \A e \in Clients : Writing(e)' => e = d
                    /\ (\A d \in Clients : ~Writing(d)') => WholeDownload(content)'
  BY DEF UndisturbedOK
<1>1. \A d \in Clients : Writing(d)' <=> Writing(d)
  BY DEF Writing, At
<1>2. ASSUME NEW d \in Clients, Writing(d)'
      PROVE  OwnFile(d)' /\ \A e \in Clients : Writing(e)' => e = d
  <2>1. OwnFile(d) /\ \A e \in Clients : Writing(e) => e = d
    BY <1>1, <1>2 DEF UndisturbedOK
  <2>2. OwnFile(d)'
    BY <1>2, <2>1, OwnKept DEF Writing, At
  <2>3. QED
    BY <1>1, <2>1, <2>2
<1>3. (\A d \in Clients : ~Writing(d)') => WholeDownload(content)'
  BY <1>1 DEF UndisturbedOK, WholeDownload, Written, Block
<1>4. QED
  BY <1>2, <1>3

LEMMA StepUndisturbedOK ==
    ASSUME IInv, [Next]_vars PROVE UndisturbedOK'
<1>0. TypeOK /\ CallsOK /\ UndisturbedOK
  BY DEF IInv
<1>1. CASE Tick \/ Publish \/ UNCHANGED vars
  BY <1>0, <1>1, UndisturbedKept DEF Tick, Publish, vars
<1>2. ASSUME NEW c \in Clients, ClientAction(c) PROVE UndisturbedOK'
  <2>1. \A d \in Clients \ {c} :
           /\ Stays(d)
           /\ client'[d].pc = client[d].pc
           /\ client'[d].pc = "writing" =>
                 /\ client'[d].download = client[d].download
                 /\ client'[d].written = client[d].written
    BY <1>0, <1>2, OthersStay DEF Stays, SameCall
  <2>2. CASE Begin(c) \/ GetMetadata(c) \/ Download(c) \/ ReadBlock(c)
    <3>1. content' = content /\ undisturbed' = undisturbed
      BY <2>2 DEF Begin, GetMetadata, Download, ReadBlock
    <3>2. client[c].pc # "writing"
      BY <2>2 DEF Begin, GetMetadata, Download, ReadBlock, At, Active
    <3>3. client'[c].pc # "writing"
      <4>1. CASE Begin(c)
        BY <1>0, <4>1, Begins DEF NewCall
      <4>2. CASE GetMetadata(c)
        BY <1>0, <4>2, Offers
      <4>3. CASE Download(c)
        BY <1>0, <4>3, CallAt, Advances DEF Download, At
      <4>4. CASE ReadBlock(c)
        BY <1>0, <4>4, CallAt, Reads DEF ReadBlock, At, CallsOK, CallOK
      <4>5. QED
        BY <2>2, <4>1, <4>2, <4>3, <4>4
    <3>4. QED
      BY <1>0, <2>1, <3>1, <3>2, <3>3, UndisturbedKept
  <2>3. CASE Failing(c) \/ ReturnProvider(c) \/ Crash(c)
    <3>1. client'[c].pc # "writing"
      BY <1>0, <2>3, Leaves
    <3>2. /\ content' = content
          /\ undisturbed' => undisturbed /\ client[c].pc # "writing"
      BY <1>0, <2>3, FailsWith, Returns DEF Crash, Writing, At
    <3>3. QED
      BY <1>0, <2>1, <3>1, <3>2, UndisturbedKept
  <2>4. CASE Open(c)
    <3>1. undisturbed' = \A d \in Clients : ~Writing(d)
      BY <2>4 DEF Open
    <3>2. client'[c].pc = "writing" /\ OwnFile(c)'
      BY <1>0, <2>4, OwnAfterOpen
    <3>3. ASSUME undisturbed', NEW d \in Clients, Writing(d)' PROVE d = c
      BY <2>1, <3>1, <3>3 DEF Writing, At
    <3>4. Writing(c)'
      BY <3>2 DEF Writing, At
    <3>5. QED
      BY <3>2, <3>3, <3>4 DEF UndisturbedOK
  <2>5. CASE WriteBlock(c)
    <3>1. /\ client[c].pc = "writing" /\ client'[c].pc = "writing"
          /\ content # NoFile /\ undisturbed' = undisturbed
      BY <1>0, <2>5, Writes, CallAt DEF CallsOK, CallOK, WriteBlock
    <3>2. undisturbed' => OwnFile(c) /\ \A d \in Clients : Writing(d) => d = c
      BY <1>0, <3>1 DEF UndisturbedOK, Writing, At
    <3>3. undisturbed' => OwnFile(c)'
      BY <1>0, <2>5, <3>2, OwnAfterWrite
    <3>4. undisturbed' => \A d \in Clients : Writing(d)' => d = c
      BY <2>1, <3>2 DEF Writing, At
    <3>5. Writing(c)'
      BY <3>1 DEF Writing, At
    <3>6. QED
      BY <3>3, <3>4, <3>5 DEF UndisturbedOK
  <2>6. CASE Close(c)
    <3>1. /\ client[c].pc = "writing" /\ Advance(c, "reading") /\ content' = content
          /\ client[c].written = Size[client[c].download.release]
          /\ undisturbed' = undisturbed
      BY <2>6 DEF Close, Writing, At
    <3>2. /\ client[c] \in Calls /\ CallOK(c) /\ content # NoFile
          /\ client[c].download # << >>
      BY <1>0, <3>1, CallAt DEF CallsOK, CallOK, TypeOK, Refreshing
    <3>3. client[c].download \in Downloads
          /\ (JsonlOffered => IsJsonl(client[c].download))
      <4>1. client[c].download \in Downloads
        BY <3>2, CallFields
      <4>2. JsonlOffered => IsJsonl(client[c].download)
        BY <3>2 DEF CallOK
      <4>3. QED
        BY <4>1, <4>2
    <3>4. undisturbed => OwnFile(c) /\ \A d \in Clients : Writing(d) => d = c
      BY <1>0, <3>1, <3>2 DEF UndisturbedOK, Writing, At
    <3>5. undisturbed => WholeDownload(content)
      BY <3>1, <3>3, <3>4 DEF OwnFile, WholeDownload
    <3>6. client'[c].pc = "reading"
      BY <1>0, <3>1, <3>2, Advances
    <3>7. undisturbed => \A d \in Clients : ~Writing(d)'
      BY <2>1, <3>4, <3>6 DEF Writing, At
    <3>8. undisturbed' => WholeDownload(content)'
      BY <3>1, <3>5 DEF WholeDownload, Written, Block
    <3>9. QED
      BY <3>1, <3>7, <3>8 DEF UndisturbedOK
  <2>7. QED
    BY <1>2, <2>2, <2>3, <2>4, <2>5, <2>6 DEF ClientAction
<1>3. QED
  BY <1>1, <1>2, Steps

-----------------------------------------------------------------------------
(***************************************************************************)
(* What the calls end with.                                                *)
(***************************************************************************)

\* A whole download is a release, and what is read of it is read to its end.
LEMMA WholeWritten ==
    ASSUME NEW download \in Downloads, IsJsonl(download)
    PROVE  /\ WholeRelease(Written(download, Size[download.release]))
           /\ \A n \in 0 .. Size[download.release] : PartOfRelease(Written(download, n))
<1> DEFINE size == Size[download.release]
<1>1. size \in Nat \ {0}
  BY Assumptions DEF Downloads
<1> HIDE DEF size
<1>2. ASSUME NEW n \in 0 .. size PROVE PartOfRelease(Written(download, n))
  <2>1. n \in Nat /\ DOMAIN Written(download, n) = 1 .. n
    BY <1>1 DEF Written
  <2>2. ASSUME NEW i \in 1 .. n
        PROVE  /\ Written(download, n)[i].number = i
               /\ Written(download, n)[i].format = "gzipped JSONL"
               /\ Written(download, n)[i].release = Written(download, n)[1].release
    <3>1. 1 \in 1 .. n
      BY <2>1, <2>2
    <3>2. Written(download, n)[i] = Block(download, i) /\ Written(download, n)[1] = Block(download, 1)
      BY <2>1, <2>2, <3>1, WrittenType
    <3>3. /\ Block(download, i).number = i
          /\ Block(download, i).format = download.format
          /\ Block(download, i).release = Block(download, 1).release
      BY DEF Block
    <3>4. download.format = "gzipped JSONL"
      BY DEF IsJsonl
    <3>5. QED
      BY <3>2, <3>3, <3>4
  <2>3. QED
    BY <2>1, <2>2 DEF PartOfRelease
<1>3. size \in 0 .. size /\ 1 \in 1 .. size /\ size \in Nat
  BY <1>1
<1>4. /\ Len(Written(download, size)) = size
      /\ Written(download, size)[1] = Block(download, 1)
      /\ Written(download, size) # << >>
  <2>1. /\ Len(Written(download, size)) = size
        /\ Written(download, size)[1] = Block(download, 1)
    BY <1>3, WrittenType
  <2>2. Len(<< >>) = 0
    OBVIOUS
  <2>3. QED
    BY <1>1, <2>1, <2>2
<1>5. Written(download, size)[1].release = download.release
  BY <1>4 DEF Block
<1>6. WholeRelease(Written(download, size))
  BY <1>2, <1>3, <1>4, <1>5 DEF WholeRelease, size
<1>7. QED
  BY <1>2, <1>6 DEF size

LEMMA PrefixOfWritten ==
    ASSUME NEW download \in Downloads, NEW n \in Nat, content = Written(download, n),
           NEW read \in Seq(Blocks), PrefixOfFile(read)
    PROVE  Len(read) \in 0 .. n /\ read = Written(download, Len(read))
<1>1. /\ Len(content) = n
      /\ \A i \in 1 .. n : content[i] = Block(download, i)
  BY WrittenType
<1>2. Len(read) \in 0 .. n
  BY <1>1 DEF PrefixOfFile
<1>3. \A i \in 1 .. Len(read) : read[i] = Block(download, i)
  BY <1>1, <1>2 DEF PrefixOfFile
<1>4. read = [i \in 1 .. Len(read) |-> read[i]]
  OBVIOUS
<1>5. QED
  BY <1>2, <1>3, <1>4 DEF Written

\* What a program nobody disturbs reads of its own download goes on with it, and
\* at the end of the file is all of it.
LEMMA AloneReads ==
    ASSUME TypeOK, CallsOK, AloneOK, NEW c \in Clients, client[c].pc = "reading",
           client[c].alone, client[c].download # << >>
    PROVE  LET download == client[c].download
               read == client[c].read
           IN  /\ download \in Downloads
               /\ read = Written(download, Len(read))
               /\ AtEnd(c) => read = Written(download, Size[download.release])
               /\ ~AtEnd(c) =>
                     /\ Len(read) + 1 \in 0 .. Size[download.release]
                     /\ Append(read, content[Len(read) + 1]) = Written(download, Len(read) + 1)
<1> DEFINE download == client[c].download
           read == client[c].read
           size == Size[download.release]
<1>1. client[c] \in Calls /\ Active(c) /\ CallOK(c)
  BY CallAt DEF CallsOK
<1>2. download \in Downloads /\ read \in Seq(Blocks)
  BY <1>1, CallFields
<1>3. client[c].written = size
  BY <1>1 DEF CallOK
<1>4. size \in Nat
  BY <1>1, <1>3, CallFields
<1>5. OwnFile(c) /\ PrefixOfFile(read)
  BY <1>1 DEF AloneOK, At
<1>6. content = Written(download, size)
  BY <1>3, <1>5 DEF OwnFile
<1>7. AtEnd(c) <=> Len(read) >= Len(content)
  BY DEF AtEnd
<1> HIDE DEF download, read, size
<1>8. Len(read) \in 0 .. size /\ read = Written(download, Len(read))
  BY <1>2, <1>4, <1>5, <1>6, PrefixOfWritten
<1>9. Len(content) = size /\ \A i \in 1 .. size : content[i] = Block(download, i)
  BY <1>2, <1>4, <1>6, WrittenType
<1>10. AtEnd(c) => Len(read) = size
  BY <1>4, <1>7, <1>8, <1>9
<1>11. AtEnd(c) => read = Written(download, size)
  BY <1>8, <1>10
<1>12. ASSUME ~AtEnd(c)
       PROVE  /\ Len(read) + 1 \in 0 .. size
              /\ Append(read, content[Len(read) + 1]) = Written(download, Len(read) + 1)
  <2>1. Len(read) \in Nat /\ Len(read) + 1 \in 1 .. size /\ Len(read) + 1 \in 0 .. size
    BY <1>4, <1>7, <1>8, <1>9, <1>12
  <2>2. content[Len(read) + 1] = Block(download, Len(read) + 1)
    BY <1>9, <2>1
  <2> DEFINE n == Len(read)
             next == Block(download, n + 1)
  <2>3. n \in Nat /\ read \in Seq(Blocks) /\ Len(read) = n
        /\ \A i \in 1 .. n : read[i] = Block(download, i)
    BY <1>2, <1>8, <2>1, WrittenType
  <2>4. next \in Blocks
    BY <1>2, <2>3, BlockType
  <2> HIDE DEF n, next
  <2>5. /\ Append(read, next) = [i \in 1 .. n + 1 |-> Append(read, next)[i]]
        /\ \A i \in 1 .. n + 1 : i # n + 1 => i \in 1 .. n /\ Append(read, next)[i] = read[i]
        /\ Append(read, next)[n + 1] = next
    <3>1. Append(read, next) \in Seq(Blocks) /\ Len(Append(read, next)) = n + 1
      BY <2>3, <2>4
    <3>2. Append(read, next) = [i \in 1 .. n + 1 |-> Append(read, next)[i]]
      <4> DEFINE s == Append(read, next)
      <4>1. s \in Seq(Blocks) /\ Len(s) = n + 1
        BY <3>1
      <4> HIDE DEF s
      <4>2. s = [i \in 1 .. n + 1 |-> s[i]]
        BY <4>1
      <4>3. QED
        BY <4>2 DEF s
    <3>3. \A i \in 1 .. n + 1 : i # n + 1 => i \in 1 .. n /\ Append(read, next)[i] = read[i]
      BY <2>3, <2>4
    <3>4. Append(read, next)[n + 1] = next
      BY <2>3, <2>4
    <3>5. QED
      BY <3>2, <3>3, <3>4
  <2>6. \A i \in 1 .. n + 1 : Append(read, next)[i] = Block(download, i)
    BY <2>3, <2>5 DEF next
  <2>7. Append(read, next) = Written(download, n + 1)
    BY <2>5, <2>6 DEF Written
  <2>8. QED
    BY <2>1, <2>2, <2>7 DEF n, next
<1>13. QED
  BY <1>2, <1>8, <1>11, <1>12 DEF download, read, size

\* Only a call's own step ends it.
LEMMA StepEndsOK ==
    ASSUME IInv, [Next]_vars PROVE EndsOK'
<1>0. TypeOK /\ CallsOK /\ FileFresh /\ AloneOK /\ EndsOK /\ now \in Nat
  BY DEF IInv, TypeOK
<1>1. ASSUME WorldStep, now <= now', now' \in Nat, NEW d \in Clients, At(d, "ended"),
             client'[d] = client[d]
      PROVE  EndOK(d)' /\ client'[d].since <= now'
  <2> DEFINE release == client[d].outcome.release
             s == client[d].since
  <2>1. EndOK(d) /\ client[d].since <= now /\ client[d].since \in Int
    BY <1>0, <1>1, ClientTypes DEF EndsOK, Ends
  <2>2. \A t : t \in {s, s - MaxRefresh, s - MaxAge - 2 * MaxRefresh} =>
           /\ t \in Int /\ t <= now
           /\ CurrentSince(release, t) =>
                 /\ release \in 1 .. current'
                 /\ release < current' => replacedAt'[release] >= t
    <3> HIDE DEF release
    <3>1. \A t : t \in {s, s - MaxRefresh, s - MaxAge - 2 * MaxRefresh} => t \in Int /\ t <= now
      BY <1>0, <2>1, Assumptions
    <3>2. QED
      BY <1>0, <1>1, <3>1, SinceKept
  <2>3. EndOK(d)'
    BY <1>1, <2>1, <2>2 DEF EndOK, CurrentSince
  <2>4. client'[d].since <= now'
    BY <1>0, <1>1, <2>1
  <2>5. QED
    BY <2>3, <2>4
<1>2. CASE Tick \/ Publish \/ UNCHANGED vars
  <2>1. WorldStep /\ now <= now' /\ now' \in Nat /\ client' = client
    BY <1>0, <1>2 DEF Tick, Publish, vars, WorldStep
  <2>2. QED
    BY <1>1, <2>1 DEF EndsOK, At
<1>3. ASSUME NEW c \in Clients, ClientAction(c), NEW d \in Clients, At(d, "ended")'
      PROVE  EndOK(d)' /\ client'[d].since <= now'
  <2>1. UNCHANGED <<now, current, replacedAt>> /\ WorldStep
    BY <1>0, <1>3, ClientKeeps DEF WorldStep
  <2>2. CASE d # c
    <3>1. Stays(d)
      BY <1>0, <1>3, <2>2, OthersStay
    <3>2. ~Active(d)
      BY <1>3, <3>1 DEF Stays, SameCall, Active, At
    <3>3. QED
      BY <1>0, <1>1, <1>3, <2>1, <3>1, <3>2 DEF Stays, At
  <2>3. CASE d = c /\ Failing(c)
    <3>1. client[c] \in Calls /\ Active(c) /\ CallOK(c) /\ TypeOK
      BY <1>0, <2>3, FailsWith, ClientTypes DEF CallsOK
    <3>2. PICK outcome : Fails(c, outcome)
      BY <1>0, <2>3, FailsWith
    <3>3. EndsWith(c, outcome)
      BY <1>0, <3>1, <3>2, EndsCall DEF Fails
    <3>4. outcome.result # "provider"
      BY <3>2 DEF Fails
    <3>5. ASSUME JsonlOffered, client[c].alone, client[c].download # << >>,
                 outcome.result \in {"EOFError", "BadGzipFile"}
          PROVE  FALSE
      <4> DEFINE download == client[c].download
                 read == client[c].read
      <4>1. client[c].pc = "reading"
        BY <3>2, <3>5 DEF Fails
      <4>2. IsJsonl(download)
        BY <3>1, <3>5 DEF CallOK
      <4>3. download \in Downloads
        BY <3>1, <3>5, CallFields
      <4>4. CASE outcome.result = "EOFError"
        <5>1. AtEnd(c) /\ ~WholeRelease(read)
          BY <3>2, <4>4 DEF Fails
        <5>2. read = Written(download, Size[download.release])
          BY <1>0, <3>5, <4>1, <5>1, AloneReads
        <5>3. QED
          BY <4>2, <4>3, <5>1, <5>2, WholeWritten
      <4>5. CASE outcome.result = "BadGzipFile"
        <5>1. ~AtEnd(c) /\ ~PartOfRelease(Append(read, content[Len(read) + 1]))
          BY <3>2, <4>5 DEF Fails
        <5>2. /\ Len(read) + 1 \in 0 .. Size[download.release]
              /\ Append(read, content[Len(read) + 1]) = Written(download, Len(read) + 1)
          BY <1>0, <3>5, <4>1, <5>1, AloneReads
        <5>3. QED
          BY <4>2, <4>3, <5>1, <5>2, WholeWritten
      <4>6. QED
        BY <3>5, <4>4, <4>5
    <3>6. EndOK(c)'
      BY <3>3, <3>4, <3>5 DEF EndOK, EndsWith
    <3>7. client'[c].since <= now'
      BY <2>1, <3>1, <3>3 DEF EndsWith, CallOK
    <3>8. QED
      BY <2>3, <3>6, <3>7
  <2>4. CASE d = c /\ ReturnProvider(c)
    <3> DEFINE call == client[c]
               release == call.read[1].release
    <3>1. /\ call \in Calls /\ call.pc = "reading" /\ AtEnd(c) /\ 1 \in DOMAIN call.read
          /\ call.read[1] # Hole /\ End(c, Provider(release)) /\ Provider(release) \in Outcomes
          /\ release \in Releases
      BY <1>0, <2>4, Returns
    <3>2. EndsWith(c, Provider(release))
      BY <1>0, <3>1, EndsCall
    <3>3. /\ client'[c].force = call.force /\ client'[c].since = call.since
          /\ client'[c].alone = call.alone
          /\ client'[c].outcome.result = "provider" /\ client'[c].outcome.release = release
      BY <3>1, <3>2, ErrorsAreOutcomes DEF EndsWith
    <3>4. CallOK(c) /\ Active(c)
      BY <1>0, <3>1, CallAt DEF CallsOK
    <3>5. CurrentSince(release, Oldest(call))
      BY <1>0, <3>1 DEF FileFresh, AllSince, At
    <3>6. /\ call.since \in Int /\ call.since <= now
          /\ call.download # << >> => call.download.at \in Int
      <4>1. call.since \in Int /\ (call.download # << >> => call.download.at \in Int)
        BY <3>1, CallFields
      <4>2. call.since <= now
        BY <3>4 DEF CallOK
      <4>3. QED
        BY <4>1, <4>2
    <3>7. CurrentSince(release, call.since - MaxAge - 2 * MaxRefresh)
      <4>1. /\ call.since - MaxAge - 2 * MaxRefresh \in Int /\ Oldest(call) \in Int
            /\ call.since - MaxAge - 2 * MaxRefresh <= Oldest(call)
        <5>1. Oldest(call) \in {call.since - MaxRefresh, call.since - MaxAge - 2 * MaxRefresh}
          BY DEF Oldest
        <5> DEFINE s == call.since
                   o == Oldest(call)
        <5>2. s \in Int /\ o \in {s - MaxRefresh, s - MaxAge - 2 * MaxRefresh}
          BY <3>6, <5>1
        <5> HIDE DEF s, o
        <5>3. s - MaxAge - 2 * MaxRefresh \in Int /\ o \in Int /\ s - MaxAge - 2 * MaxRefresh <= o
          BY <5>2, Assumptions
        <5>4. QED
          BY <5>3 DEF s, o
      <4>2. QED
        BY <1>0, <3>5, <4>1, SinceWeakens
    <3>8. ASSUME call.force PROVE CurrentSince(release, call.since - MaxRefresh)
      <4>1. call.download # << >>
        BY <3>1, <3>4, <3>8 DEF CallOK
      <4>2. QED
        BY <3>5, <4>1 DEF Oldest
    <3>9. ASSUME call.force, call.alone PROVE CurrentSince(release, call.since)
      <4>1. call.download # << >>
        BY <3>1, <3>4, <3>9 DEF CallOK
      <4>2. call.download \in Downloads /\ call.read = Written(call.download, Len(call.read))
        BY <1>0, <3>1, <3>9, <4>1, AloneReads
      <4>3. release = call.download.release
        <5>1. call.read[1] = Block(call.download, 1)
          BY <3>1, <4>2, CallFields, WrittenType
        <5>2. QED
          BY <5>1 DEF Block
      <4>4. /\ CurrentSince(release, call.download.at)
            /\ call.since <= call.download.at
        BY <3>4, <4>1, <4>3 DEF CallOK
      <4>5. QED
        BY <1>0, <3>6, <4>1, <4>4, SinceWeakens
    <3> HIDE DEF call, release
    <3>10. EndOK(c)'
      BY <2>1, <3>3, <3>7, <3>8, <3>9 DEF EndOK, CurrentSince
    <3>11. QED
      BY <2>1, <2>4, <3>3, <3>6, <3>10
  <2>5. CASE d = c /\ (Crash(c) \/ Begin(c) \/ GetMetadata(c) \/ Download(c) \/ Open(c)
                       \/ WriteBlock(c) \/ Close(c) \/ ReadBlock(c))
    <3>1. CASE Crash(c)
      BY <1>0, <1>3, <2>5, <3>1, Moves DEF Crash, Idle, At
    <3>2. CASE Begin(c)
      BY <1>0, <1>3, <2>5, <3>2, Begins DEF NewCall, At
    <3>3. CASE GetMetadata(c) \/ WriteBlock(c)
      BY <1>0, <1>3, <2>5, <3>3, Offers, Writes DEF At
    <3>4. CASE Download(c) \/ Open(c) \/ Close(c)
      BY <1>0, <1>3, <2>5, <3>4, CallAt, Advances DEF Download, Open, Close, Writing, At
    <3>5. CASE ReadBlock(c)
      BY <1>0, <1>3, <2>5, <3>5, CallAt, Reads DEF ReadBlock, At, CallsOK, CallOK
    <3>6. QED
      BY <2>5, <3>1, <3>2, <3>3, <3>4, <3>5
  <2>6. QED
    BY <1>3, <2>2, <2>3, <2>4, <2>5 DEF ClientAction
<1>4. QED
  BY <1>2, <1>3, Steps DEF EndsOK

-----------------------------------------------------------------------------
(***************************************************************************)
(* The theorems.                                                           *)
(***************************************************************************)

\* The inductive invariant holds.
THEOREM Invariance == Spec => []IInv
<1>1. IInv /\ [Next]_vars => IInv'
  BY StepTypeOK, StepCallsOK, StepFileFresh, StepAloneOK, StepUndisturbedOK, StepEndsOK
     DEF IInv
<1>2. QED
  BY InitIInv, <1>1, PTL DEF Spec

\* The state of the programs that share a catalog file has its type: no writer
\* is ever past the end of its download (bulk.ensure_default_bulk_data).
THEOREM TypeCorrect == Spec => []TypeOK
<1>1. IInv => TypeOK
  BY DEF IInv
<1>2. QED
  BY Invariance, <1>1, PTL

LEMMA FreshFromIInv == IInv => CardsAreFresh /\ RefreshIsCurrent
<1> SUFFICES ASSUME IInv, NEW c \in Clients, Served(c)
             PROVE  /\ NotReplacedBefore(c, client[c].since - MaxAge - 2 * MaxRefresh)
                    /\ client[c].force =>
                          NotReplacedBefore(c, IF client[c].alone THEN client[c].since
                                               ELSE client[c].since - MaxRefresh)
  BY DEF CardsAreFresh, RefreshIsCurrent
<1>1. EndOK(c) /\ client[c].outcome.result = "provider"
  BY DEF IInv, EndsOK, Served
<1>2. QED
  BY <1>1 DEF EndOK, CurrentSince, NotReplacedBefore

\* Whatever any number of programs do to the catalog file, and wherever they
\* fail or die, a validation uses cards that were Scryfall's at most max_age and
\* twice the time of a refresh before it (bulk.ensure_default_bulk_data).
THEOREM FreshCards == Spec => []CardsAreFresh
<1>1. IInv => CardsAreFresh
  BY FreshFromIInv
<1>2. QED
  BY Invariance, <1>1, PTL

\* A forced refresh gives cards that were Scryfall's when the program was
\* started, or a refresh before when it had company (validate_deck --refresh).
THEOREM CurrentAfterRefresh == Spec => []RefreshIsCurrent
<1>1. IInv => RefreshIsCurrent
  BY FreshFromIInv
<1>2. QED
  BY Invariance, <1>1, PTL

\* While Scryfall's metadata offers gzipped JSONL, as it does, only a writer that
\* died, failed or had company leaves a file that is not a whole release
\* (bulk.download_default_bulk_data).
THEOREM WholeUnlessDisturbed ==
    ASSUME JsonlOffered PROVE Spec => []UndisturbedCatalogIsWhole
<1>1. IInv => UndisturbedCatalogIsWhole
  <2> SUFFICES ASSUME IInv, undisturbed, content # NoFile, \A c \in Clients : ~Writing(c)
               PROVE  WholeRelease(content)
    BY DEF UndisturbedCatalogIsWhole
  <2>1. PICK download \in Downloads :
           IsJsonl(download) /\ content = Written(download, Size[download.release])
    BY DEF IInv, UndisturbedOK, WholeDownload, IsJsonl
  <2>2. QED
    BY <2>1, WholeWritten
<1>2. QED
  BY Invariance, <1>1, PTL

\* While Scryfall's metadata offers gzipped JSONL, a program nobody disturbs can
\* read what it has downloaded (bulk.BulkScryfallProvider.synced).
THEOREM ReadableDownload ==
    ASSUME JsonlOffered PROVE Spec => []OwnDownloadIsReadable
<1>1. IInv => OwnDownloadIsReadable
  BY DEF IInv, EndsOK, EndOK, OwnDownloadIsReadable, At
<1>2. QED
  BY Invariance, <1>1, PTL
=============================================================================
