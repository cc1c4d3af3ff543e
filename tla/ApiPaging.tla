----------------------------- MODULE ApiPaging ------------------------------
(***************************************************************************)
(* How a sync reads a resource of a declarative API connector: page after  *)
(* page from the cursor of the page before, `since` with the first request *)
(* or as a filter on what comes back, and a checkpoint that is the newest  *)
(* stamp seen.  The source changes between the pages.  A record has a      *)
(* number, by which the source lists it, and the stamp of its last change. *)
(* A request that fails ends the sync and leaves no trace in this state.   *)
(***************************************************************************)
EXTENDS Naturals, FiniteSets, FiniteSetsExt

CONSTANTS
    MaxRecords,   \* bound: records of the source
    Initial,      \* records the source has at first
    MaxStamp,     \* bound: stamps, 1 .. MaxStamp in the order of time
    MaxChanges,   \* bound: changes of the source
    PageSize,     \* default_page_size
    MaxPages,     \* max_sync_retry
    TextRank,     \* the order of the stamps as text
    Kinds,        \* cursor types: "unix_timestamp", "iso_datetime", "string"
    Pagings       \* "offset", "record", "server", "page"

Records == 1..MaxRecords
Stamps  == 1..MaxStamp

ASSUME PagingAssumption ==
    /\ MaxRecords \in Nat /\ Initial \in 0..MaxRecords /\ MaxStamp \in Nat \ {0}
    /\ MaxChanges \in Nat
    /\ PageSize \in Nat \ {0} /\ MaxPages \in Nat \ {0}
    /\ TextRank \in [Stamps -> Nat]
    /\ \A s, t \in Stamps : TextRank[s] = TextRank[t] => s = t
    /\ Kinds \subseteq {"unix_timestamp", "iso_datetime", "string"}
    /\ Pagings \subseteq {"offset", "record", "server", "page"}

\* paging: offsets that the connector counts; the last record's number; an
\* opaque cursor of the server; page numbers of the server.  ends: how the
\* answer tells the last page ("none": by being short or empty).
Manifests ==
    {m \in [paging : Pagings, filter : {"request_param", "client_filter"},
            ends : {"is_last", "total", "none"}, kind : Kinds] :
       /\ m.paging \in {"server", "page"} => m.ends = "is_last"
       /\ m.paging = "record" => m.ends # "total"}

VARIABLES
    manifest,
    live, stamp, clock, changes,            \* the source
    pc, since, cursor, page, got, newest,   \* the sync: 0 is no since, no cursor
    last, file,                             \* stored cursor, and the records as stored
    touched, shifted,                       \* history: changes during this sync
    passed, gaps,                           \* history: what may have been missed, and why
    seen                                    \* history: stamps fetched by stored syncs

source     == <<live, stamp, clock, changes>>
syncing    == <<pc, since, cursor, page, got, newest>>
stored     == <<last, file, passed, gaps, seen>>
pagingVars == <<manifest, source, syncing, stored, touched, shifted>>

PagingTypeOK ==
    /\ manifest \in Manifests
    /\ live \subseteq Records /\ stamp \in [Records -> 0..MaxStamp]
    /\ clock \in Stamps /\ changes \in 0..MaxChanges
    /\ pc \in {"idle", "full", "incremental"}
    /\ since \in 0..MaxStamp /\ cursor \in 0..MaxRecords /\ page \in 0..MaxPages
    /\ got \in [Records -> 0..MaxStamp] /\ newest \in 0..MaxStamp
    /\ last \in 0..MaxStamp /\ file \in [Records -> 0..MaxStamp]
    /\ touched \subseteq Records /\ shifted \in BOOLEAN
    /\ passed \subseteq Records /\ gaps \subseteq {"cap", "shift", "filter"}
    /\ seen \subseteq Stamps

\* Rows by record: the stamp of the version, 0 if there is none.
NoRows == [r \in Records |-> 0]

PagingInit ==
    /\ manifest \in Manifests
    /\ live = 1..Initial /\ stamp = [r \in Records |-> IF r <= Initial THEN 1 ELSE 0]
    /\ clock = 1 /\ changes = 0
    /\ pc = "idle" /\ since = 0 /\ cursor = 0 /\ page = 0 /\ got = NoRows /\ newest = 0
    /\ last = 0 /\ file = NoRows
    /\ touched = {} /\ shifted = FALSE /\ passed = {} /\ gaps = {} /\ seen = {}

-----------------------------------------------------------------------------
(* The source (external)                                                   *)

Syncing == pc # "idle"

\* A record changes, its stamp is the time, which may not have moved since.
ChangeRecord(r, s) ==
    /\ changes < MaxChanges
    /\ r \in live \/ r = Cardinality({q \in Records : stamp[q] # 0}) + 1
    /\ s \in {clock, clock + 1} \cap Stamps
    /\ changes' = changes + 1 /\ clock' = s
    /\ live' = live \cup {r}
    /\ stamp' = [stamp EXCEPT ![r] = s]
    /\ touched' = IF Syncing THEN touched \cup {r} ELSE {}
    /\ passed' = passed \ {r}
    /\ UNCHANGED <<manifest, syncing, last, file, gaps, seen, shifted>>

\* A record is deleted: the ones after it move up.
Delete(r) ==
    /\ changes < MaxChanges
    /\ r \in live
    /\ changes' = changes + 1
    /\ live' = live \ {r}
    /\ shifted' = (Syncing /\ manifest.paging \in {"offset", "page"})
    /\ UNCHANGED <<manifest, stamp, clock, syncing, stored, touched>>

\* The list a request is about.  Of the cursors only the server's own, opaque
\* one remembers the since of the first request.
Listed(m) ==
    IF m.filter = "request_param" /\ since # 0 /\ (cursor = 0 \/ m.paging = "server")
    THEN {r \in live : stamp[r] >= since}
    ELSE live

Position(r, list) == Cardinality({q \in list : q <= r})

\* What the request returns; a page number n is kept as the cursor n * PageSize.
Answer(m, list) ==
    LET start == IF m.paging \in {"offset", "page"} THEN cursor
                 ELSE Cardinality({r \in list : r <= cursor})
    IN {r \in list : Position(r, list) \in (start + 1)..(start + PageSize)}

IsLast(answer, list) == \A r \in list : answer # {} => r <= Max(answer)

-----------------------------------------------------------------------------
(* The connector                                                           *)

\* The order of a cursor type.
AtLeast(kind, s, t) == IF kind = "string" THEN TextRank[s] >= TextRank[t] ELSE s >= t

\* Mutant of FilterIncremental: only what is newer than the checkpoint.
FilterIncrementalStrict(m, answer) ==
    IF since = 0 \/ m.filter = "request_param" THEN answer
    ELSE {r \in answer : AtLeast(m.kind, stamp[r], since) /\ stamp[r] # since}

\* _filter_incremental_records
FilterIncremental(m, answer) ==
    IF since = 0 \/ m.filter = "request_param" THEN answer
    ELSE {r \in answer : AtLeast(m.kind, stamp[r], since)}

\* Mutant of NextOffset: the offset is the number of the page.
NextOffsetOne(m, records, list, last_page) ==
    IF records = {} \/ last_page THEN 0 ELSE cursor + 1 + PageSize

\* _next_cursor for offsets: they count the rows that passed the filter.
NextOffset(m, records, list, last_page) ==
    LET n == Cardinality(records) IN
    IF \/ m.ends = "is_last" /\ last_page
       \/ m.ends = "total" /\ cursor + n >= Cardinality(list)
       \/ n = 0
       \/ n < PageSize /\ m.ends # "total"
    THEN 0
    ELSE cursor + n

\* _next_cursor
NextCursor(m, answer, records, list) ==
    LET last_page == IsLast(answer, list) IN
    CASE m.paging = "offset" -> NextOffset(m, records, list, last_page)
      [] m.paging = "record" ->
            IF (m.ends = "is_last" /\ last_page) \/ records = {} THEN 0 ELSE Max(records)
      [] m.paging = "server" -> IF answer = {} \/ last_page THEN 0 ELSE Max(answer)
      [] m.paging = "page" -> IF answer = {} \/ last_page THEN 0 ELSE cursor + PageSize

\* _checkpoint_cursor of a page, 0 if it is empty.
Checkpoint(m, records) ==
    IF records = {} THEN 0
    ELSE CHOOSE s \in {stamp[r] : r \in records} :
            \A r \in records : AtLeast(m.kind, s, stamp[r])

\* _pick_newer_cursor: digits as numbers, everything else as text.
PickNewer(m, current, candidate) ==
    CASE candidate = 0 -> current
      [] candidate # 0 /\ current = 0 -> candidate
      [] OTHER -> IF AtLeast(IF m.kind = "unix_timestamp" THEN m.kind ELSE "string",
                             current, candidate)
                  THEN current ELSE candidate

-----------------------------------------------------------------------------
(* sync_dataset                                                            *)

Begin(mode) ==
    /\ pc = "idle"
    /\ pc' = mode
    /\ since' = IF mode = "incremental" THEN last ELSE 0
    /\ cursor' = 0 /\ page' = 0 /\ got' = NoRows /\ newest' = last
    /\ touched' = {} /\ shifted' = FALSE
    /\ UNCHANGED <<manifest, source, stored>>

EndOfSync ==
    /\ pc' = "idle" /\ since' = 0 /\ cursor' = 0 /\ page' = 0 /\ got' = NoRows /\ newest' = 0
    /\ touched' = {} /\ shifted' = FALSE

\* A manifest whose client-side filter can end the paging early.
Lossy(m) == m.filter = "client_filter" /\ (m.paging \in {"offset", "record"} \/ m.kind = "string")

\* Rows and cursor are stored; a full refresh replaces what was there, and
\* keeps the cursor.
Store(rows, checkpoint, capped) ==
    LET gap == (IF capped THEN {"cap"} ELSE {}) \cup (IF shifted THEN {"shift"} ELSE {})
                  \cup (IF since # 0 /\ Lossy(manifest) THEN {"filter"} ELSE {})
    IN /\ last' = IF pc = "incremental" THEN checkpoint ELSE last
       /\ file' = [r \in Records |-> IF rows[r] = 0 /\ pc # "full" THEN file[r] ELSE rows[r]]
       /\ gaps' = IF pc = "full" THEN gap ELSE gaps \cup gap
       /\ passed' = IF pc = "full" THEN {} ELSE passed \cup touched
       /\ seen' = seen \cup ({rows[r] : r \in Records} \ {0})

LastPage(next) == next = 0 \/ page + 1 = MaxPages

\* extract_resource and the body of the page loop; without a next cursor, or
\* at the cap, the sync is stored.
Page ==
    LET list    == Listed(manifest)
        answer  == Answer(manifest, list)
        records == FilterIncremental(manifest, answer)
        next    == NextCursor(manifest, answer, records, list)
        rows    == [r \in Records |-> IF r \in records THEN stamp[r] ELSE got[r]]
        best    == PickNewer(manifest, newest, Checkpoint(manifest, records))
    IN /\ Syncing
       /\ IF ~LastPage(next)
          THEN /\ page' = page + 1 /\ cursor' = next /\ got' = rows /\ newest' = best
               /\ UNCHANGED <<pc, since, stored, touched, shifted>>
          ELSE Store(rows, best, next # 0) /\ EndOfSync
       /\ UNCHANGED <<manifest, source>>

PagingNext ==
    \/ \E r \in Records, s \in Stamps : ChangeRecord(r, s)
    \/ \E r \in Records : Delete(r)
    \/ Begin("full") \/ Begin("incremental")
    \/ Page

\* The schedule starts incremental syncs again and again, requests return.
PagingSpec ==
    /\ PagingInit /\ [][PagingNext]_pagingVars
    /\ WF_pagingVars(Begin("incremental"))
    /\ WF_pagingVars(Page)

-----------------------------------------------------------------------------
(* Properties                                                              *)

Fetched(r) == file[r] = stamp[r]

\* Nothing older than the stored cursor is missing: such a record's present
\* version was fetched, though since is not sent again with later pages and
\* the filter runs on pages.  Except after a sync that hit the page cap, had
\* records deleted under positional paging, or filtered by the client what it
\* counts or continues from; and except for records that changed while a sync
\* was reading.  A full refresh makes up for all of them.
NothingMissed ==
    ~Syncing /\ gaps = {} =>
       \A r \in live \ passed : stamp[r] < last => Fetched(r)

\* When the source rests, every record that is not excepted above is fetched
\* by the incremental syncs that follow.
CatchesUp ==
    \A r \in Records : []<>(r \in live \ passed /\ gaps = {} => Fetched(r))
=============================================================================
