---------------------------- MODULE DatasetSync ----------------------------
(***************************************************************************)
(* Materialisation of ONE synced dataset from ONE connector source, as     *)
(* done by ConnectorSyncRuntime.sync_dataset under the application's       *)
(* sync_dataset.  Sync calls ("jobs") come from the HTTP API, the CLI and  *)
(* the background scheduler and are not serialised against each other.     *)
(*                                                                         *)
(* A job reads the sync state, extracts rows page by page (an API          *)
(* resource) or with one query (a SQL table), merges them into the         *)
(* dataset's parquet file, and commits the new cursor with the dataset's   *)
(* metadata in one unit of work.  The file is written before that unit of  *)
(* work is flushed, so the two can come apart.                             *)
(*                                                                         *)
(* Data abstraction: a source row is an id with the value of its cursor    *)
(* column, a logical time; 0 stands for "no such row" and, as a cursor,    *)
(* for None.  Rows carry a primary key; rows without one are the subject   *)
(* of module RowMerge.                                                     *)
(***************************************************************************)
EXTENDS Naturals, FiniteSets

CONSTANTS
    Jobs,          \* sync calls that may be in flight at the same time
    Ids,           \* primary keys of the source's rows
    Modes,         \* sync modes requested by callers
    SourceKinds,   \* "resource" (API, paged), "table" (SQL, one query)
    Incremental,   \* the resource supports incremental / cursor_field is set
    Listing,       \* "asc" or "desc": order in which the API lists rows
    PageSize,      \* rows the API returns per page
    MaxSyncRetry,  \* max_sync_retry: the number of pages one sync reads
    Stores,        \* "sql" or "memory": the metadata stores
    MaxTs,         \* bound: last logical time of a source change
    MaxFaults      \* bound: failures and crashes in one behaviour

INCREMENTAL  == "INCREMENTAL"
FULL_REFRESH == "FULL_REFRESH"

ASSUME ModesAssumption       == Modes \subseteq {INCREMENTAL, FULL_REFRESH}
ASSUME KindAssumption        == SourceKinds \subseteq {"resource", "table"}
ASSUME ListingAssumption     == Listing \in {"asc", "desc"}
ASSUME IncrementalAssumption == Incremental \in BOOLEAN
ASSUME StoreAssumption       == Stores \subseteq {"sql", "memory"}
ASSUME PageAssumption        == /\ PageSize \in Nat \ {0}
                                /\ MaxSyncRetry \in Nat \ {0}
ASSUME BoundAssumption       == MaxTs \in Nat /\ MaxFaults \in Nat

VARIABLES
    setup,    \* kind of source and metadata store, fixed by the configuration
    source,   \* the external source: id -> cursor value of its row, 0 if none
    now,      \* the source's clock, the newest cursor value it has assigned
    file,     \* content of the parquet file: id -> version of the row, 0 if none
    fileOk,   \* the parquet file can be read (TRUE also when it is absent)
    state,    \* the ConnectorSyncState row of this source
    status,   \* status of the dataset row: "pending_sync" or "published"
    job,      \* the sync calls in flight
    faults    \* failures and crashes so far

vars == <<setup, source, now, file, fileOk, state, status, job, faults>>

SourceKind == setup.kind
Persisted  == setup.store = "sql"

Ts == Nat
Absent == [i \in Ids |-> 0]

SyncStatus == {"never_synced", "running", "succeeded", "failed"}
Phases == {"idle", "connecting", "extracting", "extracted",
           "written", "flushed", "failing"}

\* `exists' tells whether a row was found; get_or_create_state builds a new
\* one otherwise, with the values of NoState.
SyncState == [exists : BOOLEAN, status : SyncStatus, cursor : Ts]
NoState   == [exists |-> FALSE, status |-> "never_synced", cursor |-> 0]

\* A call that is not running.
IdleJob == [pc |-> "idle", mode |-> INCREMENTAL, loaded |-> NoState,
            since |-> 0, checkpoint |-> 0, pages |-> 0,
            pending |-> {}, fetched |-> Absent]

TypeOK ==
    /\ setup \in [kind : SourceKinds, store : Stores]
    /\ source \in [Ids -> Ts]
    /\ now \in Nat
    /\ file \in [Ids -> Ts]
    /\ fileOk \in BOOLEAN
    /\ state \in SyncState
    /\ status \in {"pending_sync", "published"}
    /\ job \in [Jobs -> [pc : Phases, mode : {INCREMENTAL, FULL_REFRESH},
                         loaded : SyncState, since : Ts, checkpoint : Ts,
                         pages : Nat, pending : SUBSET Ids,
                         fetched : [Ids -> Ts]]]
    /\ faults \in Nat

Init ==
    /\ setup \in [kind : SourceKinds, store : Stores]
    /\ source = Absent
    /\ now = 0
    /\ file = Absent
    /\ fileOk = TRUE
    /\ state = NoState
    /\ status = "pending_sync"
    /\ job = [j \in Jobs |-> IdleJob]
    /\ faults = 0

-----------------------------------------------------------------------------
(* Operators of the sync runtime                                           *)

\* _pick_newer_cursor, for cursors of one kind.
PickNewerCursor(current, candidate) ==
    IF candidate > current THEN candidate ELSE current

\* An incremental sync of a resource without incremental support is a full
\* refresh; a SQL source keeps the requested mode.
EffectiveMode(m) ==
    IF SourceKind = "resource" /\ ~Incremental THEN FULL_REFRESH ELSE m

UsesCursor(m) == m = INCREMENTAL /\ Incremental

\* Mutant of MergeRows: the row in the file wins.
MergeRowsExistingWins(existing, new, full) ==
    [i \in Ids |-> IF full \/ existing[i] = 0 THEN new[i] ELSE existing[i]]

\* _merge_rows for rows with a primary key: the newly read version of a row
\* replaces the one in the file; a full refresh keeps the new rows only.
MergeRows(existing, new, full) ==
    [i \in Ids |-> IF full \/ new[i] # 0 THEN new[i] ELSE existing[i]]

\* The state object the sync code holds: the unit of work's own copy of the
\* row, or in the in-memory store the one object everybody shares.
StateOf(j) == IF Persisted THEN job[j].loaded ELSE state

\* state.last_cursor when the sync succeeds.
NextCursor(j) ==
    IF UsesCursor(job[j].mode) THEN job[j].checkpoint ELSE StateOf(j).cursor

-----------------------------------------------------------------------------
(* The external source                                                     *)

\* A keyset listing in ascending order of the cursor column still delivers a
\* row that changes while it is being read (the row moves to the end); a
\* descending one never reaches it again (the row moves to the front).
RelistRow(pending, i) ==
    IF Listing = "asc" THEN pending \cup {i} ELSE pending \ {i}

\* The source inserts or updates row i; several rows may share a time.
Upsert(i) ==
    \E ts \in {now, now + 1} :
        /\ ts \in 1..MaxTs
        /\ source[i] # ts
        /\ source' = [source EXCEPT ![i] = ts]
        /\ now' = ts
        /\ job' = [j \in Jobs |->
                     IF job[j].pc = "extracting" /\ job[j].pages > 0
                     THEN [job[j] EXCEPT !.pending = RelistRow(@, i)]
                     ELSE job[j]]
        /\ UNCHANGED <<setup, file, fileOk, state, status, faults>>

\* Mutant of Matching: > instead of >=.
MatchingStrict(since) == {i \in Ids : source[i] # 0 /\ source[i] > since}

\* Rows a listing that starts now delivers: extract_resource filters with >=,
\* the SQL path with WHERE cursor >= last_cursor; None filters nothing.
Matching(since) == {i \in Ids : source[i] # 0 /\ source[i] >= since}

\* The pages the API can return: the first PageSize rows in its order.
Pages(rows) ==
    {page \in SUBSET rows :
        /\ Cardinality(page) <= PageSize
        /\ Cardinality(page) < PageSize => page = rows
        /\ \A i \in page, k \in rows \ page :
              IF Listing = "asc" THEN source[i] <= source[k]
                                 ELSE source[i] >= source[k]}

\* The newest cursor value among rows, 0 if there is none.
LatestOf(rows) ==
    CHOOSE c \in {0} \cup {source[i] : i \in rows} : \A i \in rows : c >= source[i]

\* The newest cursor value read so far after reading rows.
NewestCursor(current, rows) == PickNewerCursor(current, LatestOf(rows))

\* The rows read so far with the rows of one more page or result; a row that
\* is read twice counts in its later version.
ReadRows(fetched, rows) ==
    [i \in Ids |-> IF i \in rows THEN source[i] ELSE fetched[i]]

-----------------------------------------------------------------------------
(* One sync call                                                           *)

\* sync_dataset resolves the dataset and its sync contract, loads or creates
\* the state and marks it RUNNING.  In a unit of work nothing is visible
\* outside before it commits.
Begin(j, m) ==
    /\ job[j].pc = "idle"
    /\ job' = [job EXCEPT ![j] = [IdleJob EXCEPT !.pc = "connecting",
                                                 !.mode = EffectiveMode(m),
                                                 !.loaded = state]]
    /\ state' = IF Persisted THEN state
                ELSE [state EXCEPT !.exists = TRUE, !.status = "running"]
    /\ UNCHANGED <<setup, source, now, file, fileOk, status, faults>>

\* test_connection and discover_resources have answered: the first request is
\* built from the state's cursor.
Connect(j) ==
    /\ job[j].pc = "connecting"
    /\ LET cursor == StateOf(j).cursor IN
       job' = [job EXCEPT ![j].pc = "extracting",
                          ![j].since = IF UsesCursor(job[j].mode)
                                       THEN cursor ELSE 0,
                          ![j].checkpoint = cursor]
    /\ UNCHANGED <<setup, source, now, file, fileOk, state, status, faults>>

\* One turn of the page loop.  It ends when the API returns no next cursor or
\* after max_sync_retry pages.
ExtractPage(j) ==
    LET rows == IF job[j].pages = 0 THEN Matching(job[j].since)
                                    ELSE job[j].pending IN
    /\ job[j].pc = "extracting"
    /\ SourceKind = "resource"
    /\ \E page \in Pages(rows) :
          job' = [job EXCEPT
                    ![j].pc = IF rows = page \/ job[j].pages + 1 = MaxSyncRetry
                              THEN "extracted" ELSE "extracting",
                    ![j].pages = @ + 1,
                    ![j].pending = rows \ page,
                    ![j].fetched = ReadRows(@, page),
                    ![j].checkpoint = NewestCursor(@, page)]
    /\ UNCHANGED <<setup, source, now, file, fileOk, state, status, faults>>

\* The SQL source answers one query with every matching row.
ExecuteQuery(j) ==
    LET rows == Matching(job[j].since) IN
    /\ job[j].pc = "extracting"
    /\ SourceKind = "table"
    /\ job' = [job EXCEPT ![j].pc = "extracted",
                          ![j].fetched = ReadRows(@, rows),
                          ![j].checkpoint = NewestCursor(@, rows)]
    /\ UNCHANGED <<setup, source, now, file, fileOk, state, status, faults>>

\* Mutant of WriteFile: a file that cannot be read counts as empty.
WriteFileUnread(j) ==
    /\ Persisted
    /\ job[j].pc = "extracted"
    /\ file' = IF fileOk THEN MergeRows(file, job[j].fetched, job[j].mode = FULL_REFRESH)
               ELSE job[j].fetched
    /\ job' = [job EXCEPT ![j].pc = "written"]
    /\ UNCHANGED <<setup, source, now, fileOk, state, status, faults>>

\* _materialize_existing_dataset reads, merges and rewrites the parquet file
\* without suspending.  In a unit of work the first flush comes later.
WriteFile(j) ==
    /\ Persisted
    /\ job[j].pc = "extracted"
    /\ fileOk
    /\ file' = MergeRows(file, job[j].fetched, job[j].mode = FULL_REFRESH)
    /\ job' = [job EXCEPT ![j].pc = "written"]
    /\ UNCHANGED <<setup, source, now, fileOk, state, status, faults>>

\* With the in-memory store nothing suspends between the rewrite of the file
\* and the return of sync_dataset: one step does all of it.
MaterializeInMemory(j) ==
    /\ ~Persisted
    /\ job[j].pc = "extracted"
    /\ fileOk
    /\ file' = MergeRows(file, job[j].fetched, job[j].mode = FULL_REFRESH)
    /\ state' = [exists |-> TRUE, status |-> "succeeded", cursor |-> NextCursor(j)]
    /\ status' = "published"
    /\ job' = [job EXCEPT ![j] = IdleJob]
    /\ UNCHANGED <<setup, source, now, fileOk, faults>>

\* Two first syncs both insert a state row: the later one violates the unique
\* constraint of (workspace, connection, source_key).
StateRowConflict(j) == ~job[j].loaded.exists /\ state.exists

\* The flush in _replace_columns writes the state row.  From here to the
\* commit the row (or in SQLite the database) is locked.
Flush(j) ==
    /\ job[j].pc = "written"
    /\ \A k \in Jobs : job[k].pc # "flushed"
    /\ ~StateRowConflict(j)
    /\ job' = [job EXCEPT ![j].pc = "flushed"]
    /\ UNCHANGED <<setup, source, now, file, fileOk, state, status, faults>>

FlushConflict(j) ==
    /\ job[j].pc = "written"
    /\ \A k \in Jobs : job[k].pc # "flushed"
    /\ StateRowConflict(j)
    /\ job' = [job EXCEPT ![j] = IdleJob]
    /\ UNCHANGED <<setup, source, now, file, fileOk, state, status, faults>>

\* uow.commit().  The UPDATE sets the columns this unit of work changed: a
\* cursor equal to the loaded one leaves the committed one alone.
Commit(j) ==
    /\ job[j].pc = "flushed"
    /\ state' = [exists |-> TRUE, status |-> "succeeded",
                 cursor |-> IF NextCursor(j) = job[j].loaded.cursor
                            THEN state.cursor ELSE NextCursor(j)]
    /\ status' = "published"
    /\ job' = [job EXCEPT ![j] = IdleJob]
    /\ UNCHANGED <<setup, source, now, file, fileOk, faults>>

-----------------------------------------------------------------------------
(* Failures                                                                *)

CountFault == faults < MaxFaults /\ faults' = faults + 1

\* An exception inside the runtime's sync: active_state is still None, so the
\* state is not marked; the unit of work rolls back.  With the in-memory
\* store the state stays as it is.
Fail(j) ==
    /\ job[j].pc \in {"connecting", "extracting", "extracted", "written", "flushed",
                     "failing"}
    /\ CountFault
    /\ job' = [job EXCEPT ![j] = IdleJob]
    /\ UNCHANGED <<setup, source, now, file, fileOk, state, status>>

\* A parquet file that cannot be read fails every sync, a full refresh too.
ReadFails(j) ==
    /\ job[j].pc = "extracted"
    /\ ~fileOk
    /\ job' = [job EXCEPT ![j] = IdleJob]
    /\ UNCHANGED <<setup, source, now, file, fileOk, state, status, faults>>

\* The commit itself fails: rolled back, and active_state is set.
CommitFails(j) ==
    /\ job[j].pc = "flushed"
    /\ CountFault
    /\ job' = [job EXCEPT ![j].pc = "failing"]
    /\ UNCHANGED <<setup, source, now, file, fileOk, state, status>>

\* mark_failed merges the whole copy of the state in a new unit of work:
\* FAILED, with the cursor the failed sync had computed.
MarkFailed(j) ==
    /\ job[j].pc = "failing"
    /\ \A k \in Jobs : job[k].pc # "flushed"
    /\ state' = IF StateRowConflict(j) THEN state
                ELSE [exists |-> TRUE, status |-> "failed", cursor |-> NextCursor(j)]
    /\ job' = [job EXCEPT ![j] = IdleJob]
    /\ UNCHANGED <<setup, source, now, file, fileOk, status, faults>>

\* The process dies.  The file survives; so does what was committed; the
\* in-memory store starts again from the configuration.  A process that dies
\* inside pq.write_table leaves a file that cannot be read.
Crash ==
    /\ CountFault
    /\ job' = [j \in Jobs |-> IdleJob]
    /\ state' = IF Persisted THEN state ELSE NoState
    /\ status' = IF Persisted THEN status ELSE "pending_sync"
    /\ \/ UNCHANGED fileOk
       \/ /\ \E j \in Jobs : job[j].pc = "extracted"
          /\ fileOk' = FALSE
    /\ UNCHANGED <<setup, source, now, file>>

-----------------------------------------------------------------------------

Step(j) == Connect(j) \/ ExtractPage(j) \/ ExecuteQuery(j) \/ WriteFile(j)
           \/ MaterializeInMemory(j) \/ Flush(j) \/ FlushConflict(j) \/ Commit(j)
           \/ ReadFails(j) \/ MarkFailed(j)

Next ==
    \/ \E i \in Ids : Upsert(i)
    \/ \E j \in Jobs, m \in Modes : Begin(j, m)
    \/ \E j \in Jobs : Connect(j)
    \/ \E j \in Jobs : ExtractPage(j)
    \/ \E j \in Jobs : ExecuteQuery(j)
    \/ \E j \in Jobs : WriteFile(j)
    \/ \E j \in Jobs : MaterializeInMemory(j)
    \/ \E j \in Jobs : Flush(j)
    \/ \E j \in Jobs : FlushConflict(j)
    \/ \E j \in Jobs : Commit(j)
    \/ \E j \in Jobs : Fail(j)
    \/ \E j \in Jobs : ReadFails(j)
    \/ \E j \in Jobs : CommitFails(j)
    \/ \E j \in Jobs : MarkFailed(j)
    \/ Crash

Spec == Init /\ [][Next]_vars

\* A started call is driven by the event loop until it ends, and the cadence
\* of the dataset starts an incremental sync again and again.
Fairness == \A j \in Jobs : WF_vars(Step(j)) /\ WF_vars(Begin(j, INCREMENTAL))

FairSpec == Spec /\ Fairness

-----------------------------------------------------------------------------
(* Properties                                                              *)

\* Every row older than the committed cursor is in the file: no later
\* incremental sync will ask the source for it again.
CursorCovered ==
    fileOk => \A i \in Ids : source[i] # 0 /\ source[i] < state.cursor => file[i] # 0

\* Every row older than the committed cursor is in the file in its current
\* version, whatever mix of incremental and full syncs, failures and crashes
\* led here, as long as one call runs at a time.
RowsFresh ==
    fileOk => \A i \in Ids : source[i] # 0 /\ source[i] < state.cursor
                            => file[i] = source[i]

\* No sync succeeds on a file that a crash has torn.
TornFileNeverSucceeds ==
    [][state' # state /\ state'.status = "succeeded" => fileOk]_vars

\* Once the source is quiet and no more faults happen, the scheduled syncs
\* bring every row into the file, unless a crash has torn it.
Converges == <>[](fileOk => \A i \in Ids : file[i] = source[i])

-----------------------------------------------------------------------------
(* The inductive strengthening of CursorCovered.  It holds when callers    *)
(* only ask for incremental syncs of a source with a cursor and the API    *)
(* lists in ascending order, for any number of calls, rows and pages.      *)

IncrementalOnly ==
    Modes \subseteq {INCREMENTAL} /\ Incremental /\ Listing = "asc"

\* Every row older than c is in the file.
Below(c) == \A i \in Ids : source[i] # 0 /\ source[i] < c => file[i] # 0

\* Every cursor in use is one the source has already assigned.
RowsAssigned == \A i \in Ids : source[i] <= now

CursorsAssigned ==
    /\ RowsAssigned
    /\ state.cursor <= now
    /\ \A j \in Jobs : /\ job[j].mode = INCREMENTAL
                       /\ job[j].loaded.cursor <= now
                       /\ job[j].since <= now
                       /\ job[j].checkpoint <= now

\* What call j knows: the file covers the cursor it loaded; while it lists,
\* a row is in the file, was read or is still to come; a row older than its
\* checkpoint was read or is in the file, and after the file is written it
\* is in the file.
JobCovered(j) ==
    /\ job[j].pc # "idle" => Below(job[j].loaded.cursor)
    /\ job[j].pc = "connecting" => job[j].pages = 0
    /\ job[j].pc = "extracting" => Below(job[j].since)
    /\ job[j].pc = "extracting" /\ job[j].pages > 0 =>
          \A i \in Ids : source[i] # 0 =>
             file[i] # 0 \/ job[j].fetched[i] # 0 \/ i \in job[j].pending
    /\ job[j].pc \in {"extracting", "extracted"} =>
          \A i \in Ids : source[i] # 0 /\ source[i] < job[j].checkpoint =>
             file[i] # 0 \/ job[j].fetched[i] # 0
    /\ job[j].pc \in {"written", "flushed", "failing"} => Below(job[j].checkpoint)

CoverageInv ==
    /\ TypeOK
    /\ CursorsAssigned
    /\ fileOk => Below(state.cursor) /\ \A j \in Jobs : JobCovered(j)
=============================================================================
