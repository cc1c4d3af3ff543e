--------------------------- MODULE DatasetProofs ---------------------------
(***************************************************************************)
(* Theorems about what is stored of the datasets and how they are joined,  *)
(* for any number of rows, syncs, datasets and relationships: the file of  *)
(* a synced dataset covers the committed cursor under overlapping syncs,   *)
(* failures and crashes, and no sync succeeds on a torn file (DatasetSync);*)
(* a semantic query is refused only for what its model leaves apart, and   *)
(* its joins are well formed and multiply no row of the measure's dataset  *)
(* (SemanticQuery).                                                        *)
(***************************************************************************)
EXTENDS DatasetSync, SemanticQuery, SequenceLemmas, SequenceTheorems, FiniteSetTheorems,
        NaturalsInduction, WellFoundedInduction, TLAPS

\* A non-empty set of naturals has a least element.
LEMMA LeastNat ==
    ASSUME NEW S, S \subseteq Nat, S # {}
    PROVE  \E x \in S : \A y \in S : x <= y
<1>1. IsWellFoundedOn(OpToRel(<, Nat), Nat)
  BY NatLessThanWellFounded
<1>2. PICK x \in S : \A y \in S : ~(<<y, x>> \in OpToRel(<, Nat))
  BY <1>1, WFMin, Zenon
<1>3. \A y \in S : ~(y < x)
  BY <1>2 DEF OpToRel
<1> QED BY <1>3

\* LatestOf, the newest cursor value of a page, is a cursor value of one of
\* its rows, or 0 for an empty page, and no row of the page is newer.
LEMMA LatestOfIsLatest ==
    ASSUME TypeOK, RowsAssigned, NEW rows \in SUBSET Ids
    PROVE  /\ LatestOf(rows) \in {0} \cup {source[i] : i \in rows}
           /\ \A i \in rows : LatestOf(rows) >= source[i]
<1> DEFINE Upper == {n \in Nat : \A i \in rows : source[i] <= n}
<1>1. now \in Upper
  BY DEF TypeOK, RowsAssigned
<1>2. PICK m \in Upper : \A n \in Upper : m <= n
  BY <1>1, LeastNat
<1>3. m = 0 \/ \E i \in rows : source[i] = m
  <2> SUFFICES ASSUME m # 0 PROVE \E i \in rows : source[i] = m
    OBVIOUS
  <2>1. m - 1 \in Nat /\ m - 1 \notin Upper
    BY <1>2
  <2>2. PICK i \in rows : ~(source[i] <= m - 1)
    BY <2>1
  <2>3. source[i] \in Nat /\ source[i] <= m
    BY <1>2 DEF TypeOK, Ts
  <2> QED BY <2>1, <2>2, <2>3
<1>4. \A i \in rows : m >= source[i]
  BY <1>2 DEF TypeOK, Ts
<1>5. \E c \in {0} \cup {source[i] : i \in rows} : \A i \in rows : c >= source[i]
  BY <1>3, <1>4
<1> QED BY <1>5, Zenon DEF LatestOf

-----------------------------------------------------------------------------

(* Type correctness, for every value of the constants.  LatestOf is        *)
(* defined only because rows never run ahead of the source's clock, so     *)
(* that is proved along with it.                                           *)

\* The checkpoint after a page (checkpoint_cursor of sync_dataset) is a cursor.
LEMMA NewestCursorType ==
    ASSUME TypeOK, RowsAssigned, NEW c \in Ts, NEW rows \in SUBSET Ids
    PROVE  NewestCursor(c, rows) \in Ts
<1>1. LatestOf(rows) \in Ts
  BY LatestOfIsLatest DEF TypeOK, Ts
<1> QED BY <1>1 DEF NewestCursor, PickNewerCursor

\* The rows read so far are a version per primary key.
LEMMA ReadRowsType ==
    ASSUME TypeOK, NEW f \in [Ids -> Ts], NEW rows \in SUBSET Ids
    PROVE  ReadRows(f, rows) \in [Ids -> Ts]
BY DEF ReadRows, TypeOK

\* _merge_rows yields a version per primary key.
LEMMA MergeRowsType ==
    ASSUME NEW f \in [Ids -> Ts], NEW g \in [Ids -> Ts], NEW full \in BOOLEAN
    PROVE  MergeRows(f, g, full) \in [Ids -> Ts]
BY DEF MergeRows

JobType == [pc : Phases, mode : {INCREMENTAL, FULL_REFRESH},
            loaded : SyncState, since : Ts, checkpoint : Ts,
            pages : Nat, pending : SUBSET Ids, fetched : [Ids -> Ts]]

\* The updates of a call's record that the actions make.
LEMMA SetPcType ==
    ASSUME NEW r \in JobType, NEW p \in Phases
    PROVE  /\ [r EXCEPT !.pc = p] \in JobType
           /\ [r EXCEPT !.pc = p].pc = p
           /\ [r EXCEPT !.pc = p].mode = r.mode
           /\ [r EXCEPT !.pc = p].loaded = r.loaded
           /\ [r EXCEPT !.pc = p].since = r.since
           /\ [r EXCEPT !.pc = p].checkpoint = r.checkpoint
BY DEF JobType

\* Building the first request keeps a call's record well typed.
LEMMA ConnectType ==
    ASSUME NEW r \in JobType, NEW p \in Phases, NEW s \in Ts, NEW c \in Ts
    PROVE  [r EXCEPT !.pc = p, !.since = s, !.checkpoint = c] \in JobType
BY DEF JobType

\* Reading rows keeps a call's record well typed.
LEMMA ReadType ==
    ASSUME NEW r \in JobType, NEW p \in Phases, NEW f \in [Ids -> Ts], NEW c \in Ts
    PROVE  [r EXCEPT !.pc = p, !.fetched = f, !.checkpoint = c] \in JobType
BY DEF JobType

\* The record of a call that is not running is well typed.
LEMMA IdleJobType == IdleJob \in JobType
BY DEF IdleJob, JobType, NoState, Absent, SyncState, SyncStatus, Phases, Ts

\* The cursor a sync stores when it succeeds is a cursor.
LEMMA NextCursorType ==
    ASSUME TypeOK, NEW j \in Jobs
    PROVE  NextCursor(j) \in Ts /\ StateOf(j) \in SyncState /\ StateOf(j).cursor \in Ts
BY DEF NextCursor, StateOf, TypeOK, SyncState

\* The initial state is well typed and no row is newer than the source's clock.
LEMMA InitTypeOK == Init => TypeOK /\ RowsAssigned
BY IdleJobType DEF Init, TypeOK, RowsAssigned, JobType, NoState, Absent, SyncState, SyncStatus, Ts

\* Every step keeps the types, and no row becomes newer than the source's clock.
LEMMA NextTypeOK == TypeOK /\ RowsAssigned /\ [Next]_vars => TypeOK' /\ RowsAssigned'
<1> SUFFICES ASSUME TypeOK, RowsAssigned, [Next]_vars PROVE TypeOK' /\ RowsAssigned'
  OBVIOUS
<1> USE ModesAssumption
<1>1. ASSUME NEW i \in Ids, Upsert(i) PROVE TypeOK' /\ RowsAssigned'
  <2>1. PICK ts \in {now, now + 1} :
          /\ ts \in 1..MaxTs
          /\ source' = [source EXCEPT ![i] = ts]
          /\ now' = ts
          /\ job' = [j \in Jobs |-> IF job[j].pc = "extracting" /\ job[j].pages > 0
                       THEN [job[j] EXCEPT !.pending = RelistRow(@, i)] ELSE job[j]]
          /\ UNCHANGED <<setup, file, fileOk, state, status, faults>>
    BY <1>1, Zenon DEF Upsert
  <2>2. \A j \in Jobs : RelistRow(job[j].pending, i) \in SUBSET Ids
    BY DEF RelistRow, TypeOK
  <2>3. job' \in [Jobs -> JobType]
    <3>2. \A j \in Jobs : job[j] \in JobType
      BY DEF TypeOK, JobType
    <3>3. ASSUME NEW r \in JobType, NEW p \in SUBSET Ids PROVE [r EXCEPT !.pending = p] \in JobType
      BY DEF JobType
    <3>1. ASSUME NEW j \in Jobs PROVE [job[j] EXCEPT !.pending = RelistRow(@, i)] \in JobType
      BY <2>2, <3>2, <3>3
    <3> QED BY <2>1, <3>1, <3>2, Zenon
  <2>4. ts \in Nat /\ ts >= now
    BY <2>1 DEF TypeOK
  <2>5. source' \in [Ids -> Ts] /\ now' \in Nat
    BY <2>1, <2>4 DEF TypeOK, Ts
  <2>6. RowsAssigned'
    BY <2>1, <2>4 DEF TypeOK, RowsAssigned, Ts
  <2> QED BY <2>1, <2>3, <2>5, <2>6 DEF TypeOK, JobType
<1>2. ASSUME NEW j \in Jobs, NEW m \in Modes, Begin(j, m) PROVE TypeOK' /\ RowsAssigned'
  <2>1. EffectiveMode(m) \in {INCREMENTAL, FULL_REFRESH}
    BY DEF EffectiveMode
  <2>2. job' \in [Jobs -> JobType]
    BY <1>2, <2>1, IdleJobType DEF Begin, TypeOK, JobType, Phases
  <2>3. state' \in SyncState
    BY <1>2 DEF Begin, TypeOK, SyncState, SyncStatus
  <2> QED BY <1>2, <2>2, <2>3 DEF Begin, TypeOK, RowsAssigned, JobType
<1>3. ASSUME NEW j \in Jobs, Connect(j) PROVE TypeOK' /\ RowsAssigned'
  <2>1. job' \in [Jobs -> JobType]
    <3> DEFINE s == IF UsesCursor(job[j].mode) THEN StateOf(j).cursor ELSE 0
               c == StateOf(j).cursor
    <3>1. s \in Ts /\ c \in Ts /\ job[j] \in JobType /\ "extracting" \in Phases
      BY NextCursorType DEF TypeOK, JobType, Phases, Ts
    <3>2. [job[j] EXCEPT !.pc = "extracting", !.since = s, !.checkpoint = c] \in JobType
      BY <3>1, ConnectType
    <3> QED BY <1>3, <3>2, Zenon DEF Connect, TypeOK, JobType
  <2> QED BY <1>3, <2>1 DEF Connect, TypeOK, RowsAssigned, JobType
<1>4. ASSUME NEW j \in Jobs, ExtractPage(j) PROVE TypeOK' /\ RowsAssigned'
  <2> DEFINE rows == IF job[j].pages = 0 THEN Matching(job[j].since) ELSE job[j].pending
  <2>1. rows \in SUBSET Ids
    BY DEF Matching, TypeOK
  <2>2. PICK page \in SUBSET rows :
          job' = [job EXCEPT
                    ![j].pc = IF rows = page \/ job[j].pages + 1 = MaxSyncRetry
                              THEN "extracted" ELSE "extracting",
                    ![j].pages = @ + 1,
                    ![j].pending = rows \ page,
                    ![j].fetched = ReadRows(@, page),
                    ![j].checkpoint = NewestCursor(@, page)]
    BY <1>4, Zenon DEF ExtractPage, Pages
  <2>3. page \in SUBSET Ids
    BY <2>1, <2>2
  <2>4. /\ ReadRows(job[j].fetched, page) \in [Ids -> Ts]
        /\ NewestCursor(job[j].checkpoint, page) \in Ts
    BY <2>3, ReadRowsType, NewestCursorType DEF TypeOK
  <2>5. job' \in [Jobs -> JobType]
    BY <2>1, <2>2, <2>4 DEF TypeOK, JobType, Phases
  <2> QED BY <1>4, <2>5 DEF ExtractPage, TypeOK, RowsAssigned, JobType
<1>5. ASSUME NEW j \in Jobs, ExecuteQuery(j) PROVE TypeOK' /\ RowsAssigned'
  <2> DEFINE rows == Matching(job[j].since)
  <2>1. rows \in SUBSET Ids
    BY DEF Matching
  <2>2. /\ ReadRows(job[j].fetched, rows) \in [Ids -> Ts]
        /\ NewestCursor(job[j].checkpoint, rows) \in Ts
    BY <2>1, ReadRowsType, NewestCursorType DEF TypeOK
  <2>3. job' \in [Jobs -> JobType]
    <3> DEFINE f == ReadRows(job[j].fetched, rows)
               c == NewestCursor(job[j].checkpoint, rows)
    <3>1. job[j] \in JobType /\ "extracted" \in Phases
      BY DEF TypeOK, JobType, Phases
    <3>2. [job[j] EXCEPT !.pc = "extracted", !.fetched = f, !.checkpoint = c] \in JobType
      BY <2>2, <3>1, ReadType
    <3> QED BY <1>5, <3>2, Zenon DEF ExecuteQuery, TypeOK, JobType
  <2> QED BY <1>5, <2>3 DEF ExecuteQuery, TypeOK, RowsAssigned, JobType
<1>6. ASSUME NEW j \in Jobs, WriteFile(j) PROVE TypeOK' /\ RowsAssigned'
  <2>1. file' \in [Ids -> Ts]
    BY <1>6, MergeRowsType DEF WriteFile, TypeOK
  <2>2. job' \in [Jobs -> JobType]
    <3>1. job[j] \in JobType /\ "written" \in Phases
      BY DEF TypeOK, JobType, Phases
    <3>2. [job[j] EXCEPT !.pc = "written"] \in JobType
      BY <3>1, SetPcType
    <3> QED BY <1>6, <3>2, Zenon DEF WriteFile, TypeOK, JobType
  <2> QED BY <1>6, <2>1, <2>2 DEF WriteFile, TypeOK, RowsAssigned, JobType
<1>7. ASSUME NEW j \in Jobs, MaterializeInMemory(j) PROVE TypeOK' /\ RowsAssigned'
  <2>1. file' \in [Ids -> Ts]
    BY <1>7, MergeRowsType DEF MaterializeInMemory, TypeOK
  <2>2. state' \in SyncState
    BY <1>7, NextCursorType DEF MaterializeInMemory, SyncState, SyncStatus
  <2> QED BY <1>7, <2>1, <2>2, IdleJobType
          DEF MaterializeInMemory, TypeOK, RowsAssigned, JobType
<1>8. ASSUME NEW j \in Jobs, Commit(j) PROVE TypeOK' /\ RowsAssigned'
  <2>1. state' \in SyncState
    BY <1>8, NextCursorType DEF Commit, TypeOK, SyncState, SyncStatus
  <2> QED BY <1>8, <2>1, IdleJobType DEF Commit, TypeOK, RowsAssigned, JobType
<1>9. ASSUME NEW j \in Jobs, MarkFailed(j) PROVE TypeOK' /\ RowsAssigned'
  <2>1. state' \in SyncState
    BY <1>9, NextCursorType DEF MarkFailed, TypeOK, SyncState, SyncStatus
  <2> QED BY <1>9, <2>1, IdleJobType DEF MarkFailed, TypeOK, RowsAssigned, JobType
<1>10. ASSUME NEW j \in Jobs, Flush(j) \/ CommitFails(j) PROVE TypeOK' /\ RowsAssigned'
  <2>1. job' \in [Jobs -> JobType]
    <3>1. job[j] \in JobType /\ "flushed" \in Phases /\ "failing" \in Phases
      BY DEF TypeOK, JobType, Phases
    <3>2. /\ [job[j] EXCEPT !.pc = "flushed"] \in JobType
          /\ [job[j] EXCEPT !.pc = "failing"] \in JobType
      BY <3>1, SetPcType
    <3> QED BY <1>10, <3>2, Zenon DEF Flush, CommitFails, TypeOK, JobType
  <2> QED BY <1>10, <2>1, BoundAssumption
          DEF Flush, CommitFails, CountFault, TypeOK, RowsAssigned, JobType
<1>11. ASSUME NEW j \in Jobs, FlushConflict(j) \/ ReadFails(j) \/ Fail(j)
       PROVE  TypeOK' /\ RowsAssigned'
  BY <1>11, IdleJobType, BoundAssumption
     DEF FlushConflict, ReadFails, Fail, CountFault, TypeOK, RowsAssigned, JobType
<1>12. ASSUME Crash PROVE TypeOK' /\ RowsAssigned'
  <2>1. state' \in SyncState
    BY <1>12 DEF Crash, TypeOK, SyncState, SyncStatus, NoState, Ts
  <2>2. fileOk' \in BOOLEAN /\ status' \in {"pending_sync", "published"}
    BY <1>12 DEF Crash, TypeOK
  <2>3. faults' \in Nat /\ setup' = setup /\ source' = source /\ now' = now /\ file' = file
        /\ job' = [j \in Jobs |-> IdleJob]
    BY <1>12 DEF Crash, CountFault, TypeOK
  <2> QED BY <2>1, <2>2, <2>3, IdleJobType DEF TypeOK, RowsAssigned, JobType
<1>13. CASE UNCHANGED vars
  BY <1>13 DEF vars, TypeOK, RowsAssigned
<1> QED
  BY <1>1, <1>2, <1>3, <1>4, <1>5, <1>6, <1>7, <1>8, <1>9, <1>10, <1>11, <1>12, <1>13
  DEF Next

\* The type invariant of DatasetSync, for every value of its constants.
THEOREM TypeCorrect == Spec => []TypeOK
<1>1. Init => TypeOK /\ RowsAssigned
  BY InitTypeOK
<1>2. TypeOK /\ RowsAssigned /\ [Next]_vars => (TypeOK /\ RowsAssigned)'
  BY NextTypeOK
<1> QED BY <1>1, <1>2, PTL DEF Spec

-----------------------------------------------------------------------------
(* Coverage of the committed cursor                                        *)

\* A step that leaves the source and call k alone and removes no row from the
\* file leaves what call k knows intact.
LEMMA CoveredFrame ==
    ASSUME NEW k \in Jobs, JobCovered(k), source' = source, job'[k] = job[k],
           \A i \in Ids : file[i] # 0 => file'[i] # 0
    PROVE  JobCovered(k)'
BY DEF JobCovered, Below

\* Rows that stay in the file still cover the cursor they covered.
LEMMA BelowFrame ==
    ASSUME NEW c \in Ts, Below(c), source' = source,
           \A i \in Ids : file[i] # 0 => file'[i] # 0
    PROVE  \A i \in Ids : source'[i] # 0 /\ source'[i] < c => file'[i] # 0
BY DEF Below

\* An incremental merge keeps every row and adds the rows that were read.
LEMMA MergeKeepsRows ==
    ASSUME NEW f \in [Ids -> Ts], NEW g \in [Ids -> Ts], NEW i \in Ids,
           f[i] # 0 \/ g[i] # 0
    PROVE  MergeRows(f, g, FALSE)[i] # 0
BY DEF MergeRows

\* The coverage invariant holds initially.
LEMMA InitCoverage == IncrementalOnly /\ Init => CoverageInv
<1> SUFFICES ASSUME IncrementalOnly, Init PROVE CoverageInv
  OBVIOUS
<1>1. TypeOK /\ RowsAssigned
  BY InitTypeOK
<1>2. CursorsAssigned
  BY <1>1 DEF Init, CursorsAssigned, IdleJob, NoState
<1>3. Below(state.cursor) /\ \A j \in Jobs : JobCovered(j)
  BY DEF Init, Below, JobCovered, IdleJob, Absent
<1> QED BY <1>1, <1>2, <1>3 DEF CoverageInv

\* A change of the source keeps coverage: the new cursor value is not behind any
\* cursor in use, and an ascending listing still delivers the row.
LEMMA UpsertCoverage ==
    ASSUME IncrementalOnly, CoverageInv, TypeOK', RowsAssigned', NEW i \in Ids, Upsert(i)
    PROVE  CoverageInv'
<1>1. PICK ts \in {now, now + 1} :
        /\ ts \in 1..MaxTs
        /\ source' = [source EXCEPT ![i] = ts]
        /\ now' = ts
        /\ job' = [j \in Jobs |-> IF job[j].pc = "extracting" /\ job[j].pages > 0
                     THEN [job[j] EXCEPT !.pending = RelistRow(@, i)] ELSE job[j]]
        /\ UNCHANGED <<file, fileOk, state, status, faults>>
  BY Zenon DEF Upsert
<1>2. ts \in Nat /\ ts >= now /\ now \in Nat
  BY <1>1 DEF CoverageInv, TypeOK
<1>3. ASSUME NEW k \in Jobs
      PROVE  /\ job'[k].pc = job[k].pc /\ job'[k].mode = job[k].mode
             /\ job'[k].loaded = job[k].loaded /\ job'[k].since = job[k].since
             /\ job'[k].checkpoint = job[k].checkpoint /\ job'[k].pages = job[k].pages
             /\ job'[k].fetched = job[k].fetched
             /\ job[k].pc = "extracting" /\ job[k].pages > 0 =>
                  job'[k].pending = job[k].pending \cup {i}
  <2> DEFINE r == job[k]
             P == RelistRow(r.pending, i)
  <2>1. r \in JobType
    BY DEF CoverageInv, TypeOK, JobType
  <2>2. P = r.pending \cup {i}
    BY DEF RelistRow, IncrementalOnly
  <2>3. /\ [r EXCEPT !.pending = P].pc = r.pc /\ [r EXCEPT !.pending = P].mode = r.mode
        /\ [r EXCEPT !.pending = P].loaded = r.loaded
        /\ [r EXCEPT !.pending = P].since = r.since
        /\ [r EXCEPT !.pending = P].checkpoint = r.checkpoint
        /\ [r EXCEPT !.pending = P].pages = r.pages
        /\ [r EXCEPT !.pending = P].fetched = r.fetched
        /\ [r EXCEPT !.pending = P].pending = P
    <3> HIDE DEF r, P
    <3> QED BY <2>1 DEF JobType
  <2>4. job'[k] = IF r.pc = "extracting" /\ r.pages > 0
                  THEN [r EXCEPT !.pending = P] ELSE r
    BY <1>1, Zenon
  <2> HIDE DEF r, P
  <2>5. CASE r.pc = "extracting" /\ r.pages > 0
    BY <2>2, <2>3, <2>4, <2>5 DEF r
  <2>6. CASE ~(r.pc = "extracting" /\ r.pages > 0)
    BY <2>4, <2>6 DEF r
  <2> QED BY <2>5, <2>6
<1>4. CursorsAssigned'
  BY <1>1, <1>2, <1>3 DEF CoverageInv, CursorsAssigned, TypeOK, SyncState, Ts
<1> DEFINE BelowNext(c) ==
             \A n \in Ids : source'[n] # 0 /\ source'[n] < c => file'[n] # 0
<1>5. \A c \in Ts : c <= now /\ Below(c) => BelowNext(c)
  BY <1>1, <1>2 DEF Below, CoverageInv, TypeOK, Ts
<1>6. ASSUME fileOk', NEW k \in Jobs PROVE JobCovered(k)'
  <2>1. JobCovered(k) /\ fileOk
    BY <1>1, <1>6 DEF CoverageInv
  <2>2. /\ job[k].loaded.cursor \in Ts /\ job[k].loaded.cursor <= now
        /\ job[k].since \in Ts /\ job[k].since <= now
        /\ job[k].checkpoint \in Ts /\ job[k].checkpoint <= now
    BY DEF CoverageInv, CursorsAssigned, TypeOK, SyncState
  <2>3. job[k].pc # "idle" => BelowNext(job[k].loaded.cursor)
    BY <1>5, <2>1, <2>2 DEF JobCovered
  <2>4. job[k].pc = "extracting" => BelowNext(job[k].since)
    BY <1>5, <2>1, <2>2 DEF JobCovered
  <2>5. job[k].pc = "extracting" /\ job[k].pages > 0 =>
          \A n \in Ids : source'[n] # 0 =>
             file'[n] # 0 \/ job'[k].fetched[n] # 0 \/ n \in job'[k].pending
    <3> SUFFICES ASSUME job[k].pc = "extracting", job[k].pages > 0,
                        NEW n \in Ids, source'[n] # 0
                 PROVE  file'[n] # 0 \/ job'[k].fetched[n] # 0 \/ n \in job'[k].pending
      OBVIOUS
    <3>1. job'[k].pending = job[k].pending \cup {i} /\ job'[k].fetched = job[k].fetched
      BY <1>3
    <3>2. CASE n = i
      BY <3>1, <3>2
    <3>3. CASE n # i
      BY <1>1, <2>1, <3>1, <3>3 DEF JobCovered, CoverageInv, TypeOK
    <3> QED BY <3>2, <3>3
  <2>6. job[k].pc \in {"extracting", "extracted"} =>
          \A n \in Ids : source'[n] # 0 /\ source'[n] < job[k].checkpoint =>
             file'[n] # 0 \/ job[k].fetched[n] # 0
    BY <1>1, <1>2, <2>1, <2>2 DEF JobCovered, CoverageInv, TypeOK, Ts
  <2>7. job[k].pc \in {"written", "flushed", "failing"} => BelowNext(job[k].checkpoint)
    BY <1>5, <2>1, <2>2 DEF JobCovered
  <2>8. job[k].pc = "connecting" => job[k].pages = 0
    BY <2>1 DEF JobCovered
  <2> QED BY <1>3, <2>3, <2>4, <2>5, <2>6, <2>7, <2>8 DEF JobCovered, Below
<1>7. ASSUME fileOk' PROVE BelowNext(state'.cursor)
  BY <1>1, <1>5, <1>7 DEF CoverageInv, CursorsAssigned, TypeOK, SyncState
<1> QED BY <1>4, <1>6, <1>7 DEF CoverageInv, Below

\* A step of one call j that changes no source row and loses no row of the
\* file: it remains to show what call j and the stored cursor are left with.
LEMMA CallStep ==
    ASSUME CoverageInv, TypeOK', RowsAssigned', NEW j \in Jobs,
           source' = source, now' = now, fileOk' => fileOk,
           fileOk' => \A i \in Ids : file[i] # 0 => file'[i] # 0,
           \A k \in Jobs \ {j} : job'[k] = job[k],
           state'.cursor <= now,
           job'[j].mode = INCREMENTAL, job'[j].loaded.cursor <= now,
           job'[j].since <= now, job'[j].checkpoint <= now,
           fileOk' => JobCovered(j)',
           fileOk' => Below(state.cursor)'
    PROVE  CoverageInv'
<1>1. CursorsAssigned'
  BY DEF CoverageInv, CursorsAssigned
<1>2. ASSUME fileOk', NEW k \in Jobs PROVE JobCovered(k)'
  <2>1. CASE k = j
    BY <1>2, <2>1
  <2>2. CASE k # j
    BY <1>2, <2>2, CoveredFrame DEF CoverageInv
  <2> QED BY <2>1, <2>2
<1> QED BY <1>1, <1>2 DEF CoverageInv

\* Call j ends without touching source, file or stored cursor, or the cursor
\* it stores is covered.
LEMMA EndOfCall ==
    ASSUME CoverageInv, TypeOK', RowsAssigned', NEW j \in Jobs,
           source' = source, now' = now, fileOk' => fileOk,
           fileOk' => \A i \in Ids : file[i] # 0 => file'[i] # 0,
           job' = [job EXCEPT ![j] = IdleJob],
           state'.cursor <= now, fileOk' => Below(state.cursor)'
    PROVE  CoverageInv'
<1>1. job'[j] = IdleJob /\ \A k \in Jobs \ {j} : job'[k] = job[k]
  BY DEF CoverageInv, TypeOK
<1>2. JobCovered(j)'
  BY <1>1 DEF JobCovered, IdleJob
<1>3. /\ job'[j].mode = INCREMENTAL /\ job'[j].loaded.cursor <= now
      /\ job'[j].since <= now /\ job'[j].checkpoint <= now
  BY <1>1 DEF IdleJob, NoState, CoverageInv, TypeOK
<1> QED BY <1>1, <1>2, <1>3, CallStep

\* What a call has when it commits: its cursor is covered.
LEMMA NextCursorCovered ==
    ASSUME IncrementalOnly, CoverageInv, NEW j \in Jobs
    PROVE  NextCursor(j) = job[j].checkpoint /\ NextCursor(j) <= now
BY DEF NextCursor, UsesCursor, IncrementalOnly, CoverageInv, CursorsAssigned

\* A call that ends, in success or failure, keeps coverage.
LEMMA EndStepsCoverage ==
    ASSUME IncrementalOnly, CoverageInv, TypeOK', RowsAssigned', NEW j \in Jobs,
           FlushConflict(j) \/ ReadFails(j) \/ Fail(j) \/ Commit(j) \/ MarkFailed(j)
    PROVE  CoverageInv'
<1>1. /\ source' = source /\ now' = now /\ fileOk' = fileOk /\ file' = file
      /\ job' = [job EXCEPT ![j] = IdleJob]
  BY DEF FlushConflict, ReadFails, Fail, Commit, MarkFailed
<1>2. state'.cursor = state.cursor
      \/ /\ state'.cursor = job[j].checkpoint
         /\ job[j].pc \in {"flushed", "failing"}
  BY NextCursorCovered DEF FlushConflict, ReadFails, Fail, Commit, MarkFailed
<1>3. state'.cursor <= now
  BY <1>2 DEF CoverageInv, CursorsAssigned
<1>4. fileOk' => Below(state.cursor)'
  BY <1>1, <1>2 DEF CoverageInv, JobCovered, Below
<1> QED BY <1>1, <1>3, <1>4, EndOfCall

\* Merging and storing the cursor in one step keeps coverage.
LEMMA MaterializeInMemoryCoverage ==
    ASSUME IncrementalOnly, CoverageInv, TypeOK', RowsAssigned', NEW j \in Jobs,
           MaterializeInMemory(j)
    PROVE  CoverageInv'
<1>1. /\ source' = source /\ now' = now /\ fileOk' = fileOk /\ fileOk
      /\ job' = [job EXCEPT ![j] = IdleJob] /\ job[j].pc = "extracted"
  BY DEF MaterializeInMemory
<1>2. file' = MergeRows(file, job[j].fetched, FALSE)
  BY DEF MaterializeInMemory, CoverageInv, CursorsAssigned, INCREMENTAL, FULL_REFRESH
<1>3. \A i \in Ids : file[i] # 0 \/ job[j].fetched[i] # 0 => file'[i] # 0
  BY <1>2, MergeKeepsRows DEF CoverageInv, TypeOK
<1>4. state'.cursor = job[j].checkpoint /\ state'.cursor <= now
  BY NextCursorCovered DEF MaterializeInMemory
<1>5. Below(state.cursor)'
  BY <1>1, <1>3, <1>4 DEF CoverageInv, JobCovered, Below
<1> QED BY <1>1, <1>3, <1>4, <1>5, EndOfCall

\* Rewriting the parquet file keeps coverage for every call, not only the writer.
LEMMA WriteFileCoverage ==
    ASSUME IncrementalOnly, CoverageInv, TypeOK', RowsAssigned', NEW j \in Jobs,
           WriteFile(j)
    PROVE  CoverageInv'
<1>1. /\ source' = source /\ now' = now /\ fileOk' = fileOk /\ fileOk /\ state' = state
      /\ job[j].pc = "extracted"
      /\ job'[j] = [job[j] EXCEPT !.pc = "written"]
      /\ \A k \in Jobs \ {j} : job'[k] = job[k]
  BY DEF WriteFile, CoverageInv, TypeOK
<1>2. file' = MergeRows(file, job[j].fetched, FALSE)
  BY DEF WriteFile, CoverageInv, CursorsAssigned, INCREMENTAL, FULL_REFRESH
<1>3. \A i \in Ids : file[i] # 0 \/ job[j].fetched[i] # 0 => file'[i] # 0
  BY <1>2, MergeKeepsRows DEF CoverageInv, TypeOK
<1>4. /\ job'[j].pc = "written" /\ job'[j].mode = job[j].mode
      /\ job'[j].loaded = job[j].loaded /\ job'[j].since = job[j].since
      /\ job'[j].checkpoint = job[j].checkpoint
  <2>1. job[j] \in JobType /\ "written" \in Phases
    BY DEF CoverageInv, TypeOK, JobType, Phases
  <2> QED BY <1>1, <2>1, SetPcType
<1>5. JobCovered(j)'
  BY <1>1, <1>3, <1>4 DEF CoverageInv, JobCovered, Below
<1>6. Below(state.cursor)'
  BY <1>1, <1>3 DEF CoverageInv, Below
<1>7. /\ state'.cursor <= now /\ job'[j].mode = INCREMENTAL
      /\ job'[j].loaded.cursor <= now /\ job'[j].since <= now
      /\ job'[j].checkpoint <= now
  BY <1>1, <1>4 DEF CoverageInv, CursorsAssigned
<1> QED BY <1>1, <1>3, <1>5, <1>6, <1>7, CallStep

\* The flush and a commit that fails keep coverage.
LEMMA FlushCoverage ==
    ASSUME IncrementalOnly, CoverageInv, TypeOK', RowsAssigned', NEW j \in Jobs,
           Flush(j) \/ CommitFails(j)
    PROVE  CoverageInv'
<1>1. /\ source' = source /\ now' = now /\ fileOk' = fileOk /\ file' = file
      /\ state' = state /\ job[j].pc \in {"written", "flushed"}
      /\ \E p \in {"flushed", "failing"} : job' = [job EXCEPT ![j].pc = p]
  BY DEF Flush, CommitFails
<1>2. PICK p \in {"flushed", "failing"} : job' = [job EXCEPT ![j].pc = p]
  BY <1>1
<1>3. /\ job'[j] = [job[j] EXCEPT !.pc = p]
      /\ \A k \in Jobs \ {j} : job'[k] = job[k]
  BY <1>2, Zenon DEF CoverageInv, TypeOK
<1>4. /\ job'[j].pc = p /\ job'[j].mode = job[j].mode
      /\ job'[j].loaded = job[j].loaded /\ job'[j].since = job[j].since
      /\ job'[j].checkpoint = job[j].checkpoint
  <2>1. job[j] \in JobType /\ p \in Phases
    BY <1>2 DEF CoverageInv, TypeOK, JobType, Phases
  <2> QED BY <1>3, <2>1, SetPcType
<1>5. fileOk' => JobCovered(j)'
  BY <1>1, <1>2, <1>4 DEF CoverageInv, JobCovered, Below
<1>6. fileOk' => Below(state.cursor)'
  BY <1>1 DEF CoverageInv, Below
<1>7. /\ state'.cursor <= now /\ job'[j].mode = INCREMENTAL
      /\ job'[j].loaded.cursor <= now /\ job'[j].since <= now
      /\ job'[j].checkpoint <= now
  BY <1>1, <1>4 DEF CoverageInv, CursorsAssigned
<1> QED BY <1>1, <1>3, <1>5, <1>6, <1>7, CallStep

\* A new call loads a cursor that the file covers.
LEMMA BeginCoverage ==
    ASSUME IncrementalOnly, CoverageInv, TypeOK', RowsAssigned',
           NEW j \in Jobs, NEW m \in Modes, Begin(j, m)
    PROVE  CoverageInv'
<1>1. /\ source' = source /\ now' = now /\ fileOk' = fileOk /\ file' = file
      /\ state'.cursor = state.cursor
      /\ \A k \in Jobs \ {j} : job'[k] = job[k]
  BY DEF Begin, CoverageInv, TypeOK, SyncState
<1>2. m = INCREMENTAL /\ EffectiveMode(m) = INCREMENTAL
  BY DEF IncrementalOnly, EffectiveMode
<1>3. /\ job'[j].pc = "connecting" /\ job'[j].mode = INCREMENTAL
      /\ job'[j].loaded = state /\ job'[j].since = 0 /\ job'[j].checkpoint = 0
      /\ job'[j].pages = 0
  <2> DEFINE b == [IdleJob EXCEPT !.pc = "connecting", !.mode = EffectiveMode(m),
                                  !.loaded = state]
  <2>1. job'[j] = b
    BY Zenon DEF Begin, CoverageInv, TypeOK
  <2>2. /\ b.pc = "connecting" /\ b.mode = EffectiveMode(m) /\ b.loaded = state
        /\ b.since = 0 /\ b.checkpoint = 0 /\ b.pages = 0
    BY DEF IdleJob
  <2> QED BY <1>2, <2>1, <2>2
<1>4. fileOk' => JobCovered(j)' /\ Below(state.cursor)'
  BY <1>1, <1>3 DEF CoverageInv, JobCovered, Below
<1>5. /\ state'.cursor <= now /\ job'[j].loaded.cursor <= now
      /\ job'[j].since <= now /\ job'[j].checkpoint <= now
  BY <1>1, <1>3 DEF CoverageInv, CursorsAssigned, TypeOK
<1> QED BY <1>1, <1>3, <1>4, <1>5, CallStep

\* A call starts listing at a cursor that the file covers.
LEMMA ConnectCoverage ==
    ASSUME IncrementalOnly, CoverageInv, TypeOK', RowsAssigned', NEW j \in Jobs, Connect(j)
    PROVE  CoverageInv'
<1> DEFINE c == StateOf(j).cursor
<1>1. /\ source' = source /\ now' = now /\ fileOk' = fileOk /\ file' = file
      /\ state' = state /\ job[j].pc = "connecting"
      /\ \A k \in Jobs \ {j} : job'[k] = job[k]
  BY DEF Connect, CoverageInv, TypeOK
<1>2. UsesCursor(job[j].mode)
  BY DEF UsesCursor, IncrementalOnly, CoverageInv, CursorsAssigned
<1>3. c \in Ts /\ c <= now /\ (fileOk => Below(c))
  <2>1. CASE Persisted
    BY <1>1, <2>1 DEF StateOf, CoverageInv, CursorsAssigned, JobCovered, TypeOK, SyncState
  <2>2. CASE ~Persisted
    BY <2>2 DEF StateOf, CoverageInv, CursorsAssigned, TypeOK, SyncState
  <2> QED BY <2>1, <2>2
<1>4. /\ job'[j].pc = "extracting" /\ job'[j].mode = job[j].mode
      /\ job'[j].loaded = job[j].loaded /\ job'[j].pages = job[j].pages
      /\ job'[j].since = c /\ job'[j].checkpoint = c
  <2> DEFINE r == job[j]
             b == [r EXCEPT !.pc = "extracting", !.since = c, !.checkpoint = c]
  <2>1. job'[j] = b
    BY <1>2, Zenon DEF Connect, CoverageInv, TypeOK
  <2>2. r \in JobType
    BY DEF CoverageInv, TypeOK, JobType
  <2>3. /\ b.pc = "extracting" /\ b.mode = r.mode /\ b.loaded = r.loaded
        /\ b.pages = r.pages /\ b.since = c /\ b.checkpoint = c
    <3> HIDE DEF r, c
    <3> QED BY <2>2 DEF JobType
  <2> QED BY <2>1, <2>3
<1>5. fileOk' => JobCovered(j)'
  <2> SUFFICES ASSUME fileOk' PROVE JobCovered(j)'
    OBVIOUS
  <2>1. Below(job[j].loaded.cursor) /\ job[j].pages = 0
    BY <1>1 DEF CoverageInv, JobCovered
  <2>2. job'[j].pages = 0 /\ ~(job'[j].pages > 0)
    BY <1>4, <2>1
  <2>3. \A i \in Ids : source'[i] # 0 /\ source'[i] < c => file'[i] # 0
    BY <1>1, <1>3 DEF Below
  <2>4. \A i \in Ids : source'[i] # 0 /\ source'[i] < job'[j].loaded.cursor => file'[i] # 0
    BY <1>1, <1>4, <2>1 DEF Below
  <2> HIDE DEF c
  <2> QED BY <1>4, <2>2, <2>3, <2>4 DEF JobCovered, Below
<1>6. fileOk' => Below(state.cursor)'
  BY <1>1 DEF CoverageInv, Below
<1>7. /\ state'.cursor <= now /\ job'[j].mode = INCREMENTAL
      /\ job'[j].loaded.cursor <= now /\ job'[j].since <= now
      /\ job'[j].checkpoint <= now
  BY <1>1, <1>3, <1>4 DEF CoverageInv, CursorsAssigned
<1> QED BY <1>1, <1>5, <1>6, <1>7, CallStep

\* The checkpoint after reading `page' out of `rows': a row older than it was
\* read, was already known, or is older than the rows that are left.
LEMMA CheckpointAdvance ==
    ASSUME CoverageInv, NEW c \in Ts, c <= now,
           NEW rows \in SUBSET Ids, NEW page \in SUBSET rows,
           \A i \in page, k \in rows \ page : source[i] <= source[k]
    PROVE  /\ NewestCursor(c, page) \in Ts
           /\ NewestCursor(c, page) <= now
           /\ \A k \in rows \ page : source[k] < NewestCursor(c, page) => source[k] < c
<1>1. TypeOK /\ RowsAssigned
  BY DEF CoverageInv, CursorsAssigned
<1>2. LatestOf(page) \in {0} \cup {source[i] : i \in page}
  BY <1>1, LatestOfIsLatest
<1>3. LatestOf(page) \in Nat /\ LatestOf(page) <= now /\ now \in Nat
  BY <1>1, <1>2 DEF TypeOK, RowsAssigned, Ts
<1>4. \A k \in rows \ page : source[k] \in Nat /\ ~(source[k] < LatestOf(page))
  BY <1>1, <1>2 DEF TypeOK, Ts
<1> HIDE DEF CoverageInv
<1> QED BY <1>3, <1>4 DEF NewestCursor, PickNewerCursor, Ts

\* Reading some rows: the step of ExtractPage and of ExecuteQuery.
LEMMA ReadStepCoverage ==
    ASSUME IncrementalOnly, CoverageInv, TypeOK', RowsAssigned', NEW j \in Jobs,
           source' = source, now' = now, fileOk' = fileOk, file' = file, state' = state,
           \A k \in Jobs \ {j} : job'[k] = job[k],
           job[j].pc = "extracting",
           NEW rows \in SUBSET Ids, NEW page \in SUBSET rows,
           rows = Matching(job[j].since) \/ (job[j].pages > 0 /\ rows = job[j].pending),
           \A i \in page, k \in rows \ page : source[i] <= source[k],
           job'[j].pc \in {"extracting", "extracted"},
           job'[j].pc = "extracting" => job'[j].pending = rows \ page,
           job'[j].mode = job[j].mode, job'[j].loaded = job[j].loaded,
           job'[j].since = job[j].since,
           job'[j].fetched = ReadRows(job[j].fetched, page),
           job'[j].checkpoint = NewestCursor(job[j].checkpoint, page)
    PROVE  CoverageInv'
<1> DEFINE c == job[j].checkpoint
           n == NewestCursor(c, page)
<1>1. /\ c \in Ts /\ c <= now /\ job[j].mode = INCREMENTAL
      /\ job[j].loaded.cursor <= now /\ job[j].since <= now /\ state.cursor <= now
  BY DEF CoverageInv, CursorsAssigned, TypeOK
<1>2. /\ n \in Ts /\ n <= now
      /\ \A k \in rows \ page : source[k] < n => source[k] < c
  BY <1>1, CheckpointAdvance
<1>3. /\ \A i \in page : source[i] # 0 => job'[j].fetched[i] # 0
      /\ \A i \in Ids \ page : job'[j].fetched[i] = job[j].fetched[i]
  BY DEF ReadRows
<1>4. ASSUME fileOk, NEW i \in Ids, source[i] # 0
      PROVE  file[i] # 0 \/ job[j].fetched[i] # 0 \/ i \in rows
  <2>1. JobCovered(j)
    BY <1>4 DEF CoverageInv
  <2>2. CASE rows = Matching(job[j].since)
    <3>1. source[i] \in Nat /\ job[j].since \in Nat
      BY DEF CoverageInv, TypeOK, Ts
    <3> QED BY <1>4, <2>1, <2>2, <3>1 DEF JobCovered, Below, Matching
  <2>3. CASE job[j].pages > 0 /\ rows = job[j].pending
    BY <1>4, <2>1, <2>3 DEF JobCovered
  <2> QED BY <2>2, <2>3
<1>5. ASSUME fileOk, NEW i \in Ids, source[i] # 0
      PROVE  file[i] # 0 \/ job'[j].fetched[i] # 0 \/ i \in rows \ page
  <2>1. CASE i \in page
    BY <1>3, <1>5, <2>1
  <2>2. CASE i \notin page
    BY <1>3, <1>4, <1>5, <2>2
  <2> QED BY <2>1, <2>2
<1>6. ASSUME fileOk, NEW i \in Ids, source[i] # 0, source[i] < n
      PROVE  file[i] # 0 \/ job'[j].fetched[i] # 0
  <2>1. CASE i \in rows \ page
    <3>1. source[i] < c
      BY <1>2, <1>6, <2>1
    <3>2. file[i] # 0 \/ job[j].fetched[i] # 0
      BY <1>6, <3>1 DEF CoverageInv, JobCovered
    <3> QED BY <1>3, <2>1, <3>2
  <2>2. CASE i \notin rows \ page
    BY <1>5, <1>6, <2>2
  <2> QED BY <2>1, <2>2
<1>7. fileOk' => JobCovered(j)'
  BY <1>5, <1>6 DEF CoverageInv, JobCovered, Below
<1>8. fileOk' => Below(state.cursor)'
  BY DEF CoverageInv, Below
<1> QED BY <1>1, <1>2, <1>7, <1>8, CallStep

\* One turn of the page loop keeps coverage.
LEMMA ExtractPageCoverage ==
    ASSUME IncrementalOnly, CoverageInv, TypeOK', RowsAssigned', NEW j \in Jobs,
           ExtractPage(j)
    PROVE  CoverageInv'
<1> DEFINE r == job[j]
           rows == IF r.pages = 0 THEN Matching(r.since) ELSE r.pending
<1>1. /\ source' = source /\ now' = now /\ fileOk' = fileOk /\ file' = file
      /\ state' = state /\ r.pc = "extracting"
  BY DEF ExtractPage
<1>2. rows \in SUBSET Ids
  BY DEF Matching, CoverageInv, TypeOK
<1>3. PICK page \in Pages(rows) :
        job' = [job EXCEPT
                  ![j].pc = IF rows = page \/ job[j].pages + 1 = MaxSyncRetry
                            THEN "extracted" ELSE "extracting",
                  ![j].pages = @ + 1,
                  ![j].pending = rows \ page,
                  ![j].fetched = ReadRows(@, page),
                  ![j].checkpoint = NewestCursor(@, page)]
  BY Zenon DEF ExtractPage
<1> DEFINE p == IF rows = page \/ r.pages + 1 = MaxSyncRetry
                THEN "extracted" ELSE "extracting"
           f == ReadRows(r.fetched, page)
           c == NewestCursor(r.checkpoint, page)
           b == [r EXCEPT !.pc = p, !.pages = @ + 1, !.pending = rows \ page,
                          !.fetched = f, !.checkpoint = c]
<1>4. job'[j] = b /\ \A k \in Jobs \ {j} : job'[k] = job[k]
  BY <1>3, Zenon DEF CoverageInv, TypeOK
<1>5. /\ page \in SUBSET rows
      /\ \A i \in page, k \in rows \ page : source[i] <= source[k]
  BY <1>3 DEF Pages, IncrementalOnly
<1>6. r \in JobType
  BY DEF CoverageInv, TypeOK, JobType
<1>7. /\ b.pc = p /\ b.pending = rows \ page /\ b.fetched = f /\ b.checkpoint = c
      /\ b.mode = r.mode /\ b.loaded = r.loaded /\ b.since = r.since
  <2> HIDE DEF r, p, f, c, rows
  <2> QED BY <1>6 DEF JobType
<1>8. p \in {"extracting", "extracted"}
  OBVIOUS
<1>9. rows = Matching(r.since) \/ (r.pages > 0 /\ rows = r.pending)
  BY DEF CoverageInv, TypeOK
<1> HIDE DEF rows, p, b
<1> QED BY <1>1, <1>2, <1>4, <1>5, <1>7, <1>8, <1>9, ReadStepCoverage

\* The query of a SQL source keeps coverage.
LEMMA ExecuteQueryCoverage ==
    ASSUME IncrementalOnly, CoverageInv, TypeOK', RowsAssigned', NEW j \in Jobs,
           ExecuteQuery(j)
    PROVE  CoverageInv'
<1> DEFINE r == job[j]
           rows == Matching(r.since)
           f == ReadRows(r.fetched, rows)
           c == NewestCursor(r.checkpoint, rows)
           b == [r EXCEPT !.pc = "extracted", !.fetched = f, !.checkpoint = c]
<1>1. /\ source' = source /\ now' = now /\ fileOk' = fileOk /\ file' = file
      /\ state' = state /\ r.pc = "extracting"
  BY DEF ExecuteQuery
<1>2. rows \in SUBSET Ids
  BY DEF Matching
<1>3. job'[j] = b /\ \A k \in Jobs \ {j} : job'[k] = job[k]
  BY Zenon DEF ExecuteQuery, CoverageInv, TypeOK
<1>4. r \in JobType
  BY DEF CoverageInv, TypeOK, JobType
<1>5. /\ b.pc = "extracted" /\ b.fetched = f /\ b.checkpoint = c
      /\ b.mode = r.mode /\ b.loaded = r.loaded /\ b.since = r.since
  <2> HIDE DEF r, f, c
  <2> QED BY <1>4 DEF JobType
<1>6. \A i \in rows, k \in rows \ rows : source[i] <= source[k]
  OBVIOUS
<1> HIDE DEF b
<1> QED BY <1>1, <1>2, <1>3, <1>5, <1>6, ReadStepCoverage

\* A crash keeps coverage: what it forgets is a cursor, never a row.
LEMMA CrashCoverage ==
    ASSUME CoverageInv, TypeOK', RowsAssigned', Crash
    PROVE  CoverageInv'
<1>1. /\ source' = source /\ now' = now /\ file' = file
      /\ fileOk' => fileOk
      /\ job' = [k \in Jobs |-> IdleJob]
      /\ state'.cursor = state.cursor \/ state'.cursor = 0
  BY DEF Crash, NoState, CoverageInv, TypeOK
<1>2. CursorsAssigned'
  BY <1>1 DEF CoverageInv, CursorsAssigned, IdleJob, NoState, TypeOK
<1>3. \A k \in Jobs : JobCovered(k)'
  BY <1>1 DEF JobCovered, IdleJob
<1>4. fileOk' => Below(state.cursor)'
  BY <1>1 DEF CoverageInv, Below, TypeOK, Ts
<1> QED BY <1>2, <1>3, <1>4 DEF CoverageInv

\* Every step keeps the coverage invariant.
LEMMA NextCoverage == IncrementalOnly /\ CoverageInv /\ [Next]_vars => CoverageInv'
<1> SUFFICES ASSUME IncrementalOnly, CoverageInv, [Next]_vars PROVE CoverageInv'
  OBVIOUS
<1>1. TypeOK' /\ RowsAssigned'
  BY NextTypeOK DEF CoverageInv, CursorsAssigned
<1>2. CASE UNCHANGED vars
  BY <1>2 DEF vars, CoverageInv, TypeOK, CursorsAssigned, RowsAssigned, JobCovered, Below
<1> QED
  BY <1>1, <1>2, UpsertCoverage, BeginCoverage, ConnectCoverage, ExtractPageCoverage,
     ExecuteQueryCoverage, WriteFileCoverage, MaterializeInMemoryCoverage,
     FlushCoverage, EndStepsCoverage, CrashCoverage, Zenon
  DEF Next

\* Overlapping incremental syncs never lose a row: whatever calls fail, crash
\* or conflict, every source row older than the stored cursor is in the
\* readable parquet file.  For every number of calls, rows, pages and page
\* budget, both kinds of source and both metadata stores.
THEOREM CursorCoverage == IncrementalOnly => (Spec => []CursorCovered)
<1> SUFFICES ASSUME IncrementalOnly PROVE Spec => []CursorCovered
  OBVIOUS
<1>1. Init => CoverageInv
  BY InitCoverage
<1>2. CoverageInv /\ [Next]_vars => CoverageInv'
  BY NextCoverage
<1>3. CoverageInv => CursorCovered
  BY DEF CoverageInv, CursorCovered, Below
<1> QED BY <1>1, <1>2, <1>3, PTL DEF Spec

-----------------------------------------------------------------------------
(* Torn files                                                              *)

\* A call that has written the file and not yet committed wrote a file that
\* is still readable: only a crash tears a file, and a crash ends every call.
WrittenIsReadable ==
    \A j \in Jobs : job[j].pc \in {"written", "flushed"} => fileOk

\* How a step may move a call into the phases after the file is written.
LEMMA PhaseAdvance ==
    ASSUME TypeOK, [Next]_vars, WrittenIsReadable
    PROVE  WrittenIsReadable'
<1>1. ASSUME NEW j \in Jobs,
             Connect(j) \/ ExtractPage(j) \/ ExecuteQuery(j) \/ WriteFile(j)
             \/ Flush(j) \/ CommitFails(j)
      PROVE  WrittenIsReadable'
  <2>1. /\ fileOk' = fileOk
        /\ \A k \in Jobs \ {j} : job'[k] = job[k]
        /\ job'[j].pc \in {"written", "flushed"} => fileOk
    <3> USE DEF TypeOK, WrittenIsReadable
    <3>1. CASE Connect(j)
      BY <3>1 DEF Connect
    <3>2. CASE ExtractPage(j)
      BY <3>2 DEF ExtractPage
    <3>3. CASE ExecuteQuery(j)
      BY <3>3 DEF ExecuteQuery
    <3>4. CASE WriteFile(j)
      BY <3>4 DEF WriteFile
    <3>5. CASE Flush(j)
      BY <3>5 DEF Flush
    <3>6. CASE CommitFails(j)
      BY <3>6 DEF CommitFails
    <3> QED BY <1>1, <3>1, <3>2, <3>3, <3>4, <3>5, <3>6
  <2> QED BY <2>1 DEF WrittenIsReadable
<1>2. ASSUME NEW j \in Jobs,
             FlushConflict(j) \/ ReadFails(j) \/ Fail(j) \/ Commit(j) \/ MarkFailed(j)
             \/ MaterializeInMemory(j)
      PROVE  WrittenIsReadable'
  <2>1. fileOk' = fileOk /\ job' = [job EXCEPT ![j] = IdleJob]
    BY <1>2 DEF FlushConflict, ReadFails, Fail, Commit, MarkFailed, MaterializeInMemory
  <2> QED BY <2>1 DEF WrittenIsReadable, IdleJob, TypeOK
<1>3. ASSUME NEW j \in Jobs, NEW m \in Modes, Begin(j, m) PROVE WrittenIsReadable'
  BY <1>3 DEF Begin, WrittenIsReadable, IdleJob, TypeOK
<1>4. ASSUME NEW i \in Ids, Upsert(i) PROVE WrittenIsReadable'
  <2>1. fileOk' = fileOk /\ \A k \in Jobs : job'[k].pc = job[k].pc
    <3>1. ASSUME NEW k \in Jobs, NEW P PROVE [job[k] EXCEPT !.pending = P].pc = job[k].pc
      <4> DEFINE r == job[k]
      <4>1. r \in JobType
        BY DEF TypeOK, JobType
      <4> HIDE DEF r
      <4>2. [r EXCEPT !.pending = P].pc = r.pc
        BY <4>1 DEF JobType
      <4> QED BY <4>2 DEF r
    <3>2. /\ fileOk' = fileOk
          /\ job' = [k \in Jobs |-> IF job[k].pc = "extracting" /\ job[k].pages > 0
                       THEN [job[k] EXCEPT !.pending = RelistRow(job[k].pending, i)]
                       ELSE job[k]]
      BY <1>4, Zenon DEF Upsert
    <3>3. ASSUME NEW k \in Jobs PROVE job'[k].pc = job[k].pc
      <4>1. [job[k] EXCEPT !.pending = RelistRow(job[k].pending, i)].pc = job[k].pc
        BY <3>1
      <4>2. \/ job'[k] = [job[k] EXCEPT !.pending = RelistRow(job[k].pending, i)]
            \/ job'[k] = job[k]
        BY <3>2, Zenon
      <4> QED BY <4>1, <4>2, Zenon
    <3> QED BY <3>2, <3>3
  <2> QED BY <2>1 DEF WrittenIsReadable
<1>5. ASSUME Crash PROVE WrittenIsReadable'
  BY <1>5 DEF Crash, WrittenIsReadable, IdleJob
<1>6. CASE UNCHANGED vars
  BY <1>6 DEF vars, WrittenIsReadable
<1> QED BY <1>1, <1>2, <1>3, <1>4, <1>5, <1>6 DEF Next

\* No sync succeeds on a parquet file that a crash in the middle of a write
\* has left unreadable, for every value of the constants.
THEOREM TornFiles == Spec => TornFileNeverSucceeds
<1>1. Init => TypeOK /\ RowsAssigned /\ WrittenIsReadable
  BY InitTypeOK DEF Init, WrittenIsReadable, IdleJob
<1>2. TypeOK /\ RowsAssigned /\ WrittenIsReadable /\ [Next]_vars
        => (TypeOK /\ RowsAssigned /\ WrittenIsReadable)'
  BY NextTypeOK, PhaseAdvance
<1>3. TypeOK /\ WrittenIsReadable /\ [Next]_vars
        => [state' # state /\ state'.status = "succeeded" => fileOk]_vars
  <2> SUFFICES ASSUME TypeOK, WrittenIsReadable, Next,
                      state' # state, state'.status = "succeeded"
               PROVE  fileOk
    BY DEF vars
  <2>1. \E j \in Jobs : Commit(j) \/ MaterializeInMemory(j)
    <3>1. ASSUME NEW j \in Jobs, NEW m \in Modes, Begin(j, m) PROVE FALSE
      BY <3>1 DEF Begin, TypeOK, SyncState
    <3>2. ASSUME NEW j \in Jobs, MarkFailed(j) PROVE FALSE
      BY <3>2 DEF MarkFailed
    <3>3. ASSUME Crash PROVE FALSE
      BY <3>3 DEF Crash, NoState
    <3> QED BY <3>1, <3>2, <3>3
            DEF Next, Upsert, Connect, ExtractPage, ExecuteQuery, WriteFile, Flush,
                FlushConflict, Fail, ReadFails, CommitFails
  <2> QED BY <2>1 DEF Commit, MaterializeInMemory, WrittenIsReadable
<1> QED BY <1>1, <1>2, <1>3, PTL DEF Spec, TornFileNeverSucceeds

-----------------------------------------------------------------------------
(* One call at a time: the rows are fresh                                  *)

OneCall == \A j, k \in Jobs : j = k

\* An API that lists the newest rows first, and pages enough for all rows.
WholeListing ==
    /\ Listing = "desc"
    /\ IsFiniteSet(Ids) /\ Cardinality(Ids) <= MaxSyncRetry * PageSize

\* Every row older than c is in the file in its current version.
FreshBelow(c) == \A i \in Ids : source[i] # 0 /\ source[i] < c => file[i] = source[i]

\* What is true of a call, if it is the only one.  The rows that it asked for
\* and that are older than its checkpoint were read in their current version
\* or, while it lists, are still to come, and the pages left are enough for
\* those; once the file is written, the file has them.
CallFresh(r) ==
    /\ r.checkpoint <= now
    /\ r.pc # "idle" /\ Persisted => r.loaded.cursor = state.cursor
    /\ r.pc = "connecting" \/ (r.pc = "extracting" /\ r.pages = 0)
         => r.fetched = Absent /\ r.pages = 0
    /\ r.pc = "extracting" /\ r.pages = 0 => r.checkpoint = state.cursor
    /\ r.pc \in {"extracting", "extracted"} =>
          /\ r.since <= state.cursor /\ state.cursor <= r.checkpoint
          /\ r.mode = FULL_REFRESH => r.since = 0
          /\ \A i \in Ids : r.fetched[i] # 0 => source[i] >= r.since
    /\ r.pc = "extracting" /\ r.pages > 0 =>
          /\ \A i \in r.pending : source[i] <= r.checkpoint /\ source[i] >= r.since
          /\ r.pages < MaxSyncRetry
          /\ Cardinality(r.pending) <= (MaxSyncRetry - r.pages) * PageSize
          /\ \A i \in Ids : source[i] # 0 /\ source[i] >= r.since /\ source[i] < r.checkpoint
                => r.fetched[i] = source[i] \/ i \in r.pending
    /\ r.pc = "extracted" =>
          \A i \in Ids : source[i] # 0 /\ source[i] >= r.since /\ source[i] < r.checkpoint
             => r.fetched[i] = source[i]
    /\ r.pc \in {"written", "flushed", "failing"} =>
          state.cursor <= r.checkpoint /\ FreshBelow(r.checkpoint)

FreshInv ==
    /\ TypeOK /\ RowsAssigned
    /\ state.cursor <= now /\ FreshBelow(state.cursor)
    /\ \A j \in Jobs : CallFresh(job[j])

(* A step of the only call, that leaves the source alone.                  *)
LEMMA OnlyStep ==
    ASSUME OneCall, FreshInv, TypeOK', NEW j \in Jobs, NEW r,
           job'[j] = r, CallFresh(r)', UNCHANGED <<source, now>>,
           state'.cursor <= now, FreshBelow(state.cursor)'
    PROVE  FreshInv'
<1>1. RowsAssigned'
  BY DEF FreshInv, RowsAssigned
<1>2. \A k \in Jobs : job'[k] = r
  BY DEF OneCall
<1>3. \A k \in Jobs : CallFresh(job[k])'
  BY <1>2
<1> QED BY <1>1, <1>3 DEF FreshInv

(* A call that is over knows nothing. *)
LEMMA IdleFresh == TypeOK => CallFresh(IdleJob)
BY DEF TypeOK, CallFresh, IdleJob

(* What a call's step needs to know of it. *)
LEMMA CallFacts ==
    ASSUME FreshInv, NEW j \in Jobs
    PROVE  /\ job[j] \in JobType /\ CallFresh(job[j])
           /\ state.cursor \in Nat /\ now \in Nat /\ source \in [Ids -> Nat] /\ file \in [Ids -> Nat]
           /\ job[j].loaded.cursor \in Nat
           /\ job[j].pc # "idle" => StateOf(j).cursor = state.cursor
BY DEF FreshInv, TypeOK, JobType, SyncState, Ts, CallFresh, StateOf

(* The cursor stays where it is, and so do the file and the source. *)
LEMMA StillBelow ==
    ASSUME FreshInv, UNCHANGED <<source, file>>, state'.cursor = state.cursor
    PROVE  FreshBelow(state.cursor)'
BY DEF FreshInv, FreshBelow

LEMMA InitFresh == Init => FreshInv
<1> SUFFICES ASSUME Init PROVE FreshInv
  OBVIOUS
<1>1. TypeOK /\ RowsAssigned
  BY InitTypeOK
<1>2. state.cursor <= now /\ FreshBelow(state.cursor)
  BY DEF Init, NoState, FreshBelow, Absent
<1>3. \A j \in Jobs : CallFresh(job[j])
  BY <1>1, IdleFresh DEF Init
<1> QED BY <1>1, <1>2, <1>3 DEF FreshInv

(* A row that changes is as new as the clock, so it is not older than any  *)
(* cursor or checkpoint; a listing under way will not reach it again.      *)
LEMMA UpsertFresh ==
    ASSUME WholeListing, FreshInv, TypeOK', RowsAssigned', NEW i \in Ids, Upsert(i)
    PROVE  FreshInv'
<1>1. PICK ts \in {now, now + 1} :
        /\ source' = [source EXCEPT ![i] = ts] /\ now' = ts
        /\ job' = [j \in Jobs |-> IF job[j].pc = "extracting" /\ job[j].pages > 0
                     THEN [job[j] EXCEPT !.pending = RelistRow(@, i)] ELSE job[j]]
        /\ UNCHANGED <<setup, file, fileOk, state, status, faults>>
  BY Zenon DEF Upsert
<1>2. /\ now \in Nat /\ ts \in Nat /\ ts >= now /\ state.cursor \in Nat
      /\ \A n \in Ids : source[n] \in Nat
  BY <1>1 DEF FreshInv, TypeOK, SyncState, Ts
<1>3. \A n \in Ids : source'[n] = IF n = i THEN ts ELSE source[n]
  BY <1>1 DEF FreshInv, TypeOK
<1>4. ASSUME NEW c \in Nat, c <= now, FreshBelow(c) PROVE FreshBelow(c)'
  BY <1>1, <1>2, <1>3, <1>4 DEF FreshBelow
<1>5. state'.cursor <= now' /\ FreshBelow(state.cursor)'
  <2>1. PICK c : c = state.cursor
    OBVIOUS
  <2>2. FreshBelow(c)'
    BY <1>2, <1>4, <2>1 DEF FreshInv
  <2> QED BY <1>1, <1>2, <2>1, <2>2 DEF FreshInv
<1>6. ASSUME NEW j \in Jobs PROVE CallFresh(job[j])'
  <2>1. PICK q : q = job[j]
    OBVIOUS
  <2>2. q \in JobType /\ CallFresh(q)
    BY <2>1, CallFacts
  <2>3. PICK r : r = IF q.pc = "extracting" /\ q.pages > 0
                     THEN [q EXCEPT !.pending = q.pending \ {i}] ELSE q
    OBVIOUS
  <2>4. job'[j] = r
    BY <1>1, <2>1, <2>3 DEF WholeListing, RelistRow
  <2>5. /\ r.pc = q.pc /\ r.mode = q.mode /\ r.loaded = q.loaded /\ r.since = q.since
        /\ r.checkpoint = q.checkpoint /\ r.pages = q.pages /\ r.fetched = q.fetched
        /\ r.pending \subseteq q.pending
        /\ q.pc = "extracting" /\ q.pages > 0 => r.pending = q.pending \ {i}
    BY <2>2, <2>3 DEF JobType
  <2>6. /\ q.since \in Nat /\ q.checkpoint \in Nat /\ q.pages \in Nat /\ q.pending \subseteq Ids
        /\ q.fetched \in [Ids -> Nat]
    BY <2>2 DEF JobType, Ts
  <2>7. IsFiniteSet(q.pending) /\ Cardinality(r.pending) <= Cardinality(q.pending)
    BY <2>5, <2>6, FS_Subset DEF WholeListing
  <2>8. Cardinality(r.pending) \in Nat /\ Cardinality(q.pending) \in Nat
    BY <2>5, <2>6, <2>7, FS_Subset, FS_CardinalityType
  <2>9. CallFresh(r)'
    <3>1. r.checkpoint <= now'
      BY <1>1, <1>2, <2>2, <2>5, <2>6 DEF CallFresh
    <3>2. (r.pc # "idle" /\ Persisted => r.loaded.cursor = state.cursor)'
      BY <1>1, <2>2, <2>5 DEF CallFresh, Persisted
    <3>3. /\ r.pc = "connecting" \/ (r.pc = "extracting" /\ r.pages = 0)
               => r.fetched = Absent /\ r.pages = 0
          /\ r.pc = "extracting" /\ r.pages = 0 => r.checkpoint = state'.cursor
      BY <1>1, <2>2, <2>5 DEF CallFresh
    <3>4. r.pc \in {"extracting", "extracted"} =>
            /\ r.since <= state'.cursor /\ state'.cursor <= r.checkpoint
            /\ r.mode = FULL_REFRESH => r.since = 0
            /\ \A n \in Ids : r.fetched[n] # 0 => source'[n] >= r.since
      BY <1>1, <1>2, <1>3, <2>2, <2>5, <2>6 DEF CallFresh, FreshInv
    <3>5. r.pc = "extracting" /\ r.pages > 0 =>
            /\ \A n \in r.pending : source'[n] <= r.checkpoint /\ source'[n] >= r.since
            /\ r.pages < MaxSyncRetry
            /\ Cardinality(r.pending) <= (MaxSyncRetry - r.pages) * PageSize
            /\ \A n \in Ids : source'[n] # 0 /\ source'[n] >= r.since /\ source'[n] < r.checkpoint
                  => r.fetched[n] = source'[n] \/ n \in r.pending
      <4> SUFFICES ASSUME r.pc = "extracting", r.pages > 0
                   PROVE  <3>5!2
        OBVIOUS
      <4>1. \A n \in r.pending : source'[n] <= r.checkpoint /\ source'[n] >= r.since
        BY <1>3, <2>2, <2>5, <2>6 DEF CallFresh
      <4>2. r.pages < MaxSyncRetry /\ Cardinality(q.pending) <= (MaxSyncRetry - r.pages) * PageSize
        BY <2>2, <2>5 DEF CallFresh
      <4>3. (MaxSyncRetry - r.pages) * PageSize \in Int
        BY <2>5, <2>6, PageAssumption
      <4>4. Cardinality(r.pending) <= (MaxSyncRetry - r.pages) * PageSize
        BY <2>7, <2>8, <4>2, <4>3
      <4>5. \A n \in Ids : source'[n] # 0 /\ source'[n] >= r.since /\ source'[n] < r.checkpoint
                  => r.fetched[n] = source'[n] \/ n \in r.pending
        BY <1>2, <1>3, <2>2, <2>5, <2>6 DEF CallFresh
      <4> QED BY <4>1, <4>2, <4>4, <4>5
    <3>6. r.pc = "extracted" =>
            \A n \in Ids : source'[n] # 0 /\ source'[n] >= r.since /\ source'[n] < r.checkpoint
               => r.fetched[n] = source'[n]
      BY <1>2, <1>3, <2>2, <2>5, <2>6 DEF CallFresh
    <3>7. r.pc \in {"written", "flushed", "failing"} =>
            state'.cursor <= r.checkpoint /\ FreshBelow(r.checkpoint)'
      BY <1>1, <1>4, <2>2, <2>5, <2>6 DEF CallFresh
    <3> QED BY <3>1, <3>2, <3>3, <3>4, <3>5, <3>6, <3>7 DEF CallFresh
  <2> QED BY <2>4, <2>9
<1> QED BY <1>5, <1>6 DEF FreshInv

LEMMA BeginFresh ==
    ASSUME OneCall, FreshInv, TypeOK', NEW j \in Jobs, NEW m \in Modes, Begin(j, m)
    PROVE  FreshInv'
<1>1. PICK r : r = [IdleJob EXCEPT !.pc = "connecting", !.mode = EffectiveMode(m), !.loaded = state]
  OBVIOUS
<1>2. job'[j] = r /\ UNCHANGED <<setup, source, now, file>>
  BY <1>1 DEF Begin, FreshInv, TypeOK
<1>3. /\ r.pc = "connecting" /\ r.loaded = state /\ r.checkpoint = 0 /\ r.pages = 0
      /\ r.fetched = Absent
  BY <1>1 DEF IdleJob
<1>4. state'.cursor = state.cursor
  BY DEF Begin, FreshInv, TypeOK, SyncState
<1>5. CallFresh(r)'
  BY <1>2, <1>3, <1>4 DEF CallFresh, FreshInv, TypeOK
<1> QED BY <1>2, <1>4, <1>5, OnlyStep, StillBelow DEF FreshInv

LEMMA ConnectFresh ==
    ASSUME OneCall, FreshInv, TypeOK', NEW j \in Jobs, Connect(j)
    PROVE  FreshInv'
<1>1. PICK q : q = job[j]
  OBVIOUS
<1>2. /\ q \in JobType /\ CallFresh(q) /\ q.pc = "connecting" /\ q.loaded.cursor \in Nat
      /\ state.cursor \in Nat /\ StateOf(j).cursor = state.cursor
  BY <1>1, CallFacts DEF Connect
<1>3. PICK s : s = IF UsesCursor(q.mode) THEN state.cursor ELSE 0
  OBVIOUS
<1>4. PICK r : r = [q EXCEPT !.pc = "extracting", !.since = s, !.checkpoint = state.cursor]
  OBVIOUS
<1>5. job'[j] = r /\ UNCHANGED <<setup, source, now, file, state>>
  BY <1>1, <1>2, <1>3, <1>4 DEF Connect, FreshInv, TypeOK
<1>6. /\ r.pc = "extracting" /\ r.since = s /\ r.checkpoint = state.cursor
      /\ r.mode = q.mode /\ r.loaded = q.loaded /\ r.pages = 0 /\ r.fetched = Absent
  BY <1>2, <1>4 DEF JobType, CallFresh
<1>7. s <= state.cursor /\ (q.mode = FULL_REFRESH => s = 0)
  BY <1>2, <1>3 DEF UsesCursor, FULL_REFRESH, INCREMENTAL
<1>8. CallFresh(r)'
  BY <1>2, <1>5, <1>6, <1>7 DEF CallFresh, FreshInv, Absent, Persisted
<1> QED BY <1>5, <1>8, OnlyStep, StillBelow DEF FreshInv

\* A page is what remains, or has PageSize rows of it.
LEMMA PageFills ==
    ASSUME IsFiniteSet(Ids), NEW rows \in SUBSET Ids, NEW page \in Pages(rows), NEW k \in Nat,
           Cardinality(rows) <= (k + 1) * PageSize
    PROVE  Cardinality(rows \ page) <= k * PageSize
<1>1. /\ IsFiniteSet(rows) /\ IsFiniteSet(page) /\ page \subseteq rows
      /\ IsFiniteSet(rows \ page) /\ rows \cap page = page
  BY FS_Subset DEF Pages
<1>2. /\ Cardinality(rows) \in Nat /\ Cardinality(page) \in Nat
      /\ Cardinality(rows \ page) = Cardinality(rows) - Cardinality(page)
  BY <1>1, FS_CardinalityType, FS_Difference
<1>3. k * PageSize \in Nat /\ (k + 1) * PageSize = k * PageSize + PageSize
  BY PageAssumption
<1>4. CASE Cardinality(page) < PageSize
  <2>1. rows \ page = {}
    BY <1>4 DEF Pages
  <2>2. Cardinality(rows \ page) = 0
    BY <2>1, FS_EmptySet
  <2> QED BY <1>3, <2>2
<1>5. CASE ~(Cardinality(page) < PageSize)
  BY <1>2, <1>3, <1>5, PageAssumption
<1> QED BY <1>4, <1>5

\* The checkpoint after a page or a result is that of one of its rows or what
\* it was, and none of the rows is newer.
LEMMA NewestOf ==
    ASSUME FreshInv, NEW c \in Nat, NEW rows \in SUBSET Ids
    PROVE  /\ NewestCursor(c, rows) \in Nat /\ c <= NewestCursor(c, rows)
           /\ \A n \in rows : source[n] <= NewestCursor(c, rows)
           /\ NewestCursor(c, rows) = c \/ \E n \in rows : NewestCursor(c, rows) = source[n]
           /\ c <= now => NewestCursor(c, rows) <= now
<1>1. PICK l : l = LatestOf(rows)
  OBVIOUS
<1>2. /\ l \in {0} \cup {source[i] : i \in rows}
      /\ \A n \in rows : l >= source[n]
  BY <1>1, LatestOfIsLatest DEF FreshInv
<1>3. \A n \in Ids : source[n] \in Nat /\ source[n] <= now
  BY DEF FreshInv, TypeOK, RowsAssigned, Ts
<1>4. l \in Nat /\ (l = 0 \/ \E n \in rows : l = source[n])
  BY <1>2, <1>3
<1>5. NewestCursor(c, rows) = IF l > c THEN l ELSE c
  BY <1>1 DEF NewestCursor, PickNewerCursor
<1> QED BY <1>2, <1>3, <1>4, <1>5

(* One page: the first fixes the checkpoint, the others are older, and the *)
(* last leaves nothing to read.                                            *)
LEMMA ExtractPageFresh ==
    ASSUME OneCall, WholeListing, FreshInv, TypeOK', NEW j \in Jobs, ExtractPage(j)
    PROVE  FreshInv'
<1>1. PICK q : q = job[j]
  OBVIOUS
<1>2. /\ q \in JobType /\ CallFresh(q) /\ q.pc = "extracting" /\ q.loaded.cursor \in Nat
      /\ state.cursor \in Nat /\ now \in Nat /\ source \in [Ids -> Nat]
  BY <1>1, CallFacts DEF ExtractPage
<1>3. /\ q.since \in Nat /\ q.checkpoint \in Nat /\ q.pages \in Nat /\ q.pending \subseteq Ids
      /\ q.fetched \in [Ids -> Nat]
  BY <1>2 DEF JobType, Ts
<1>4. PICK rows : rows = IF q.pages = 0 THEN Matching(q.since) ELSE q.pending
  OBVIOUS
<1>5. rows \in SUBSET Ids
  BY <1>3, <1>4 DEF Matching
<1>6. PICK page \in Pages(rows) :
        job' = [job EXCEPT
                  ![j].pc = IF rows = page \/ job[j].pages + 1 = MaxSyncRetry
                            THEN "extracted" ELSE "extracting",
                  ![j].pages = @ + 1,
                  ![j].pending = rows \ page,
                  ![j].fetched = ReadRows(@, page),
                  ![j].checkpoint = NewestCursor(@, page)]
  BY <1>1, <1>4, Zenon DEF ExtractPage
<1>7. PICK c : c = NewestCursor(q.checkpoint, page)
  OBVIOUS
<1>8. PICK r : r = [q EXCEPT !.pc = IF rows = page \/ q.pages + 1 = MaxSyncRetry
                                    THEN "extracted" ELSE "extracting",
                             !.pages = q.pages + 1, !.pending = rows \ page,
                             !.fetched = ReadRows(q.fetched, page), !.checkpoint = c]
  OBVIOUS
<1>9. job'[j] = r
  BY <1>1, <1>6, <1>7, <1>8 DEF FreshInv, TypeOK
<1>10. UNCHANGED <<setup, source, now, file, state>>
  BY DEF ExtractPage
<1>11. /\ r.pc = IF rows = page \/ q.pages + 1 = MaxSyncRetry THEN "extracted" ELSE "extracting"
       /\ r.pages = q.pages + 1 /\ r.pending = rows \ page /\ r.checkpoint = c
       /\ r.mode = q.mode /\ r.loaded = q.loaded /\ r.since = q.since
       /\ r.fetched = ReadRows(q.fetched, page)
  BY <1>2, <1>8 DEF JobType
<1>12. \A n \in Ids : r.fetched[n] = IF n \in page THEN source[n] ELSE q.fetched[n]
  BY <1>11 DEF ReadRows
<1>13. page \subseteq rows /\ \A n \in page, k \in rows \ page : source[n] >= source[k]
  BY DEF Pages, WholeListing
<1>14. /\ c \in Nat /\ q.checkpoint <= c /\ c <= now
       /\ \A n \in page : source[n] <= c
       /\ c = q.checkpoint \/ \E n \in page : c = source[n]
  BY <1>2, <1>3, <1>5, <1>7, <1>13, NewestOf DEF CallFresh
\* What was asked for: rows not older than `since'.
<1>15. \A n \in rows : source[n] >= q.since
  <2>1. CASE q.pages = 0
    BY <1>4, <2>1 DEF Matching
  <2>2. CASE q.pages > 0
    BY <1>2, <1>4, <2>2 DEF CallFresh
  <2> QED BY <1>3, <2>1, <2>2
\* After the first page no page has a row newer than the checkpoint.
<1>16. q.pages > 0 => c = q.checkpoint
  BY <1>2, <1>3, <1>4, <1>5, <1>13, <1>14 DEF CallFresh
<1>17. \A n \in rows \ page : source[n] <= c
  <2>1. CASE q.pages > 0
    BY <1>2, <1>3, <1>4, <1>16, <2>1 DEF CallFresh
  <2>2. CASE q.pages = 0 /\ page # {}
    BY <1>2, <1>5, <1>13, <1>14, <2>2
  <2>3. CASE q.pages = 0 /\ page = {}
    <3>1. IsFiniteSet({}) /\ Cardinality({}) = 0
      BY FS_EmptySet
    <3> QED BY <2>3, <3>1, PageAssumption DEF Pages
  <2> QED BY <1>3, <2>1, <2>2, <2>3
\* Everything that was asked for and is older than the checkpoint.
<1>18. \A n \in Ids : source[n] # 0 /\ source[n] >= q.since /\ source[n] < c
          => r.fetched[n] = source[n] \/ n \in rows \ page
  <2>1. CASE q.pages > 0
    BY <1>2, <1>4, <1>12, <1>16, <2>1 DEF CallFresh
  <2>2. CASE q.pages = 0
    BY <1>4, <1>12, <2>2 DEF Matching
  <2> QED BY <1>3, <2>1, <2>2
\* The pages left are enough for the rows left.
<1>19. q.pages < MaxSyncRetry /\ Cardinality(rows) <= (MaxSyncRetry - q.pages) * PageSize
  <2>1. CASE q.pages > 0
    BY <1>2, <1>4, <2>1 DEF CallFresh
  <2>2. CASE q.pages = 0
    <3>1. /\ IsFiniteSet(rows) /\ Cardinality(rows) <= Cardinality(Ids)
          /\ Cardinality(rows) \in Nat /\ Cardinality(Ids) \in Nat
      BY <1>5, FS_Subset, FS_CardinalityType DEF WholeListing
    <3>2. MaxSyncRetry * PageSize \in Nat /\ MaxSyncRetry - 0 = MaxSyncRetry /\ 0 < MaxSyncRetry
      BY PageAssumption
    <3> QED BY <2>2, <3>1, <3>2 DEF WholeListing
  <2> QED BY <1>3, <2>1, <2>2
<1>20. Cardinality(rows \ page) <= (MaxSyncRetry - r.pages) * PageSize
  <2>1. PICK k : k = MaxSyncRetry - r.pages
    OBVIOUS
  <2>2. k \in Nat /\ k + 1 = MaxSyncRetry - q.pages
    BY <1>3, <1>11, <1>19, <2>1, PageAssumption
  <2>3. Cardinality(rows) <= (k + 1) * PageSize
    BY <1>19, <2>2
  <2> QED BY <1>5, <2>1, <2>2, <2>3, PageFills DEF WholeListing
<1>21. r.pc = "extracted" => rows \ page = {}
  <2> SUFFICES ASSUME q.pages + 1 = MaxSyncRetry PROVE rows \ page = {}
    BY <1>11
  <2>1. (MaxSyncRetry - r.pages) * PageSize = 0
    BY <1>3, <1>11, PageAssumption
  <2>2. IsFiniteSet(rows \ page)
    BY <1>5, FS_Subset DEF WholeListing
  <2> QED BY <1>20, <2>1, <2>2, FS_EmptySet, FS_CardinalityType
<1>22. CallFresh(r)'
  <2>1. r.checkpoint <= now'
    BY <1>10, <1>11, <1>14
  <2>2. r.pc # "idle" /\ Persisted' => r.loaded.cursor = state'.cursor
    BY <1>2, <1>10, <1>11 DEF CallFresh, Persisted
  <2>3. r.pages > 0 /\ r.pc \in {"extracting", "extracted"}
    BY <1>3, <1>11
  <2>4. /\ r.since <= state.cursor /\ state.cursor <= r.checkpoint
        /\ r.mode = FULL_REFRESH => r.since = 0
    BY <1>2, <1>3, <1>11, <1>14 DEF CallFresh
  <2>5. \A n \in Ids : r.fetched[n] # 0 => source[n] >= r.since
    BY <1>2, <1>11, <1>12, <1>13, <1>15 DEF CallFresh
  <2>6. r.pc = "extracting" =>
          /\ \A n \in r.pending : source[n] <= r.checkpoint /\ source[n] >= r.since
          /\ r.pages < MaxSyncRetry
    <3>1. \A n \in r.pending : source[n] <= r.checkpoint /\ source[n] >= r.since
      BY <1>11, <1>15, <1>17
    <3>2. r.pc = "extracting" => r.pages < MaxSyncRetry
      BY <1>3, <1>11, <1>19, PageAssumption
    <3> QED BY <3>1, <3>2
  <2> QED BY <1>10, <1>11, <1>18, <1>20, <1>21, <2>1, <2>2, <2>3, <2>4, <2>5, <2>6 DEF CallFresh
<1> QED BY <1>9, <1>10, <1>22, OnlyStep, StillBelow DEF FreshInv

LEMMA ExecuteQueryFresh ==
    ASSUME OneCall, FreshInv, TypeOK', NEW j \in Jobs, ExecuteQuery(j), job[j].pages = 0
    PROVE  FreshInv'
<1>1. PICK q : q = job[j]
  OBVIOUS
<1>2. /\ q \in JobType /\ CallFresh(q) /\ q.pc = "extracting" /\ q.pages = 0
      /\ state.cursor \in Nat /\ now \in Nat /\ source \in [Ids -> Nat]
  BY <1>1, CallFacts DEF ExecuteQuery
<1>3. q.since \in Nat /\ q.checkpoint \in Nat /\ q.fetched = Absent /\ q.checkpoint = state.cursor
  BY <1>2 DEF JobType, Ts, CallFresh
<1>4. PICK rows : rows = Matching(q.since)
  OBVIOUS
<1>5. rows \in SUBSET Ids
  BY <1>4 DEF Matching
<1>6. PICK c : c = NewestCursor(q.checkpoint, rows)
  OBVIOUS
<1>7. PICK r : r = [q EXCEPT !.pc = "extracted", !.fetched = ReadRows(q.fetched, rows), !.checkpoint = c]
  OBVIOUS
<1>8. job'[j] = r /\ UNCHANGED <<setup, source, now, file, state>>
  BY <1>1, <1>4, <1>6, <1>7 DEF ExecuteQuery, FreshInv, TypeOK
<1>9. /\ r.pc = "extracted" /\ r.mode = q.mode /\ r.loaded = q.loaded /\ r.since = q.since
      /\ r.checkpoint = c /\ r.fetched = ReadRows(q.fetched, rows)
  BY <1>2, <1>7 DEF JobType
<1>10. \A n \in Ids : r.fetched[n] = IF n \in rows THEN source[n] ELSE 0
  BY <1>3, <1>9 DEF ReadRows, Absent
<1>11. c \in Nat /\ q.checkpoint <= c /\ c <= now
  BY <1>2, <1>3, <1>5, <1>6, NewestOf DEF CallFresh
<1>12. CallFresh(r)'
  <2>1. r.pc # "idle" /\ Persisted' => r.loaded.cursor = state'.cursor
    BY <1>2, <1>8, <1>9 DEF CallFresh, Persisted
  <2>2. /\ r.since <= state.cursor /\ state.cursor <= r.checkpoint
        /\ r.mode = FULL_REFRESH => r.since = 0
    BY <1>2, <1>3, <1>9, <1>11 DEF CallFresh
  <2>3. \A n \in Ids : r.fetched[n] # 0 => source[n] >= r.since
    BY <1>4, <1>9, <1>10 DEF Matching
  <2>4. \A n \in Ids : source[n] # 0 /\ source[n] >= r.since => r.fetched[n] = source[n]
    BY <1>4, <1>9, <1>10 DEF Matching
  <2> QED BY <1>8, <1>9, <1>11, <2>1, <2>2, <2>3, <2>4 DEF CallFresh
<1> QED BY <1>8, <1>12, OnlyStep, StillBelow DEF FreshInv

\* The merged file is fresh up to the checkpoint: what is older than `since'
\* was not read and is fresh in the file, and everything else was read.
LEMMA MergedFresh ==
    ASSUME FreshInv, NEW j \in Jobs, job[j].pc = "extracted",
           file' = MergeRows(file, job[j].fetched, job[j].mode = FULL_REFRESH), source' = source
    PROVE  /\ state.cursor <= job[j].checkpoint /\ job[j].checkpoint <= now
           /\ \A c \in Nat : c <= job[j].checkpoint => FreshBelow(c)'
<1>1. PICK q : q = job[j]
  OBVIOUS
<1>2. /\ q \in JobType /\ CallFresh(q) /\ q.pc = "extracted"
      /\ state.cursor \in Nat /\ source \in [Ids -> Nat]
  BY <1>1, CallFacts
<1>3. q.since \in Nat /\ q.checkpoint \in Nat /\ q.fetched \in [Ids -> Nat]
  BY <1>2 DEF JobType, Ts
<1>4. ASSUME NEW n \in Ids, source[n] # 0, source[n] < q.checkpoint PROVE file'[n] = source[n]
  <2>1. file'[n] = IF q.mode = FULL_REFRESH \/ q.fetched[n] # 0 THEN q.fetched[n] ELSE file[n]
    BY <1>1 DEF MergeRows
  <2>2. CASE source[n] >= q.since
    BY <1>2, <1>4, <2>1, <2>2 DEF CallFresh
  <2>3. CASE source[n] < q.since
    <3>1. q.fetched[n] = 0 /\ q.mode # FULL_REFRESH
      BY <1>2, <1>3, <2>3 DEF CallFresh
    <3>2. source[n] < state.cursor
      BY <1>2, <1>3, <2>3 DEF CallFresh
    <3> QED BY <1>4, <2>1, <3>1, <3>2 DEF FreshInv, FreshBelow
  <2> QED BY <1>2, <1>3, <2>2, <2>3
<1>5. ASSUME NEW c \in Nat, c <= q.checkpoint PROVE FreshBelow(c)'
  BY <1>2, <1>3, <1>4, <1>5 DEF FreshBelow
<1> QED BY <1>1, <1>2, <1>5 DEF CallFresh

LEMMA WriteFileFresh ==
    ASSUME OneCall, FreshInv, TypeOK', NEW j \in Jobs, WriteFile(j)
    PROVE  FreshInv'
<1>1. PICK q : q = job[j]
  OBVIOUS
<1>2. q \in JobType /\ CallFresh(q) /\ q.pc = "extracted" /\ state.cursor \in Nat
  BY <1>1, CallFacts DEF WriteFile
<1>3. /\ q.checkpoint \in Nat /\ state.cursor <= q.checkpoint /\ q.checkpoint <= now
      /\ \A c \in Nat : c <= q.checkpoint => FreshBelow(c)'
  BY <1>1, <1>2, MergedFresh DEF WriteFile, JobType, Ts
<1>4. PICK r : r = [q EXCEPT !.pc = "written"]
  OBVIOUS
<1>5. job'[j] = r /\ UNCHANGED <<setup, source, now, state>>
  BY <1>1, <1>4 DEF WriteFile, FreshInv, TypeOK
<1>6. r.pc = "written" /\ r.checkpoint = q.checkpoint /\ r.loaded = q.loaded
  BY <1>2, <1>4, SetPcType DEF Phases
<1>7. FreshBelow(r.checkpoint)'
  <2>1. PICK c : c = r.checkpoint
    OBVIOUS
  <2> QED BY <1>3, <1>6, <2>1
<1>8. CallFresh(r)'
  BY <1>2, <1>3, <1>5, <1>6, <1>7 DEF CallFresh, Persisted
<1>9. FreshBelow(state.cursor)'
  <2>1. PICK c : c = state.cursor
    OBVIOUS
  <2>2. FreshBelow(c)'
    BY <1>2, <1>3, <2>1
  <2> QED BY <1>5, <2>1, <2>2
<1> QED BY <1>5, <1>8, <1>9, OnlyStep DEF FreshInv

(* A call ends: what it stores is covered, if it stores anything. *)
LEMMA EndFresh ==
    ASSUME OneCall, FreshInv, TypeOK', NEW j \in Jobs, job' = [job EXCEPT ![j] = IdleJob],
           UNCHANGED <<source, now>>, NEW c \in Nat, state'.cursor = c, c <= now, FreshBelow(c)'
    PROVE  FreshInv'
<1>1. PICK r : r = IdleJob
  OBVIOUS
<1>2. job'[j] = r
  BY <1>1 DEF FreshInv, TypeOK
<1>3. CallFresh(r)'
  BY <1>1 DEF FreshInv, TypeOK, CallFresh, IdleJob
<1>4. FreshBelow(state.cursor)'
  OBVIOUS
<1> QED BY <1>2, <1>3, <1>4, OnlyStep

\* The cursor of a call that was successful is between the one it found and
\* its checkpoint.
LEMMA NextCursorBounds ==
    ASSUME FreshInv, NEW j \in Jobs, job[j].pc # "idle", state.cursor <= job[j].checkpoint
    PROVE  NextCursor(j) \in Nat /\ NextCursor(j) <= job[j].checkpoint
<1>1. job[j].checkpoint \in Nat
  BY CallFacts DEF JobType, Ts
<1> QED BY <1>1, CallFacts DEF NextCursor

LEMMA EndsFresh ==
    ASSUME OneCall, FreshInv, TypeOK', NEW j \in Jobs,
           \/ MaterializeInMemory(j) \/ FlushConflict(j) \/ ReadFails(j) \/ Fail(j)
           \/ Commit(j) \/ MarkFailed(j)
    PROVE  FreshInv'
<1>1. /\ state.cursor \in Nat /\ job[j].checkpoint \in Nat
      /\ job[j].pc # "idle"
      /\ job' = [job EXCEPT ![j] = IdleJob] /\ UNCHANGED <<source, now>>
  BY CallFacts DEF JobType, Ts, MaterializeInMemory, FlushConflict, ReadFails, Fail, Commit, MarkFailed
<1>2. CASE state'.cursor = state.cursor /\ file' = file
  BY <1>1, <1>2, EndFresh, StillBelow DEF FreshInv
<1>3. CASE MaterializeInMemory(j)
  <2>1. PICK c : c = NextCursor(j)
    OBVIOUS
  <2>2. state'.cursor = c
    BY <1>3, <2>1 DEF MaterializeInMemory
  <2>3. /\ state.cursor <= job[j].checkpoint /\ job[j].checkpoint <= now
        /\ \A d \in Nat : d <= job[j].checkpoint => FreshBelow(d)'
    BY <1>3, MergedFresh DEF MaterializeInMemory
  <2>4. c \in Nat /\ c <= job[j].checkpoint
    BY <1>1, <2>1, <2>3, NextCursorBounds
  <2>5. c <= now
    BY <1>1, <2>3, <2>4 DEF FreshInv, TypeOK
  <2> QED BY <1>1, <2>2, <2>3, <2>4, <2>5, EndFresh
<1>4. CASE (Commit(j) \/ MarkFailed(j)) /\ state'.cursor # state.cursor
  <2>1. PICK c : c = NextCursor(j)
    OBVIOUS
  <2>2. state'.cursor = c /\ job[j].pc \in {"flushed", "failing"} /\ file' = file
    BY <1>4, <2>1 DEF Commit, MarkFailed
  <2>3. /\ state.cursor <= job[j].checkpoint /\ job[j].checkpoint <= now
        /\ FreshBelow(job[j].checkpoint)
    BY <2>2, CallFacts DEF CallFresh
  <2>4. c \in Nat /\ c <= job[j].checkpoint
    BY <1>1, <2>1, <2>3, NextCursorBounds
  <2>5. c <= now
    BY <1>1, <2>3, <2>4 DEF FreshInv, TypeOK
  <2>6. FreshBelow(c)'
    BY <1>1, <2>2, <2>3, <2>4 DEF FreshBelow, FreshInv, TypeOK, Ts
  <2> QED BY <1>1, <2>2, <2>4, <2>5, <2>6, EndFresh
<1> QED
  BY <1>2, <1>3, <1>4 DEF FlushConflict, ReadFails, Fail, Commit, MarkFailed

LEMMA PhaseFresh ==
    ASSUME OneCall, FreshInv, TypeOK', NEW j \in Jobs, Flush(j) \/ CommitFails(j)
    PROVE  FreshInv'
<1>1. PICK q : q = job[j]
  OBVIOUS
<1>2. q \in JobType /\ CallFresh(q) /\ q.pc \in {"written", "flushed"}
  BY <1>1, CallFacts DEF Flush, CommitFails
<1>3. PICK p \in {"flushed", "failing"} : job' = [job EXCEPT ![j].pc = p]
  BY DEF Flush, CommitFails
<1>4. PICK r : r = [q EXCEPT !.pc = p]
  OBVIOUS
<1>5. job'[j] = r /\ UNCHANGED <<setup, source, now, state, file>>
  BY <1>1, <1>3, <1>4 DEF Flush, CommitFails, FreshInv, TypeOK
<1>6. r.pc = p /\ r.checkpoint = q.checkpoint /\ r.loaded = q.loaded
  BY <1>2, <1>4, SetPcType DEF Phases
<1>7. CallFresh(r)'
  <2>1. PICK c : c = r.checkpoint
    OBVIOUS
  <2>2. FreshBelow(c)'
    BY <1>2, <1>5, <1>6, <2>1 DEF CallFresh, FreshBelow
  <2> QED BY <1>2, <1>5, <1>6, <2>1, <2>2 DEF CallFresh, Persisted
<1> QED BY <1>5, <1>7, OnlyStep, StillBelow DEF FreshInv

LEMMA CrashFresh ==
    ASSUME FreshInv, TypeOK', RowsAssigned', Crash
    PROVE  FreshInv'
<1>1. /\ UNCHANGED <<source, now, file>> /\ state'.cursor \in {state.cursor, 0}
      /\ \A j \in Jobs : job'[j] = IdleJob
  BY DEF Crash, NoState
<1>2. state'.cursor <= now' /\ FreshBelow(state.cursor)'
  BY <1>1 DEF FreshInv, FreshBelow, TypeOK, Ts
<1>3. \A j \in Jobs : CallFresh(job[j])'
  BY <1>1 DEF CallFresh, IdleJob, TypeOK
<1> QED BY <1>2, <1>3 DEF FreshInv

\* A table is read with one query: its call never has pages.
NoPages == SourceKind = "table" => \A j \in Jobs : job[j].pages = 0

LEMMA NextNoPages == TypeOK /\ NoPages /\ [Next]_vars => NoPages'
<1> SUFFICES ASSUME TypeOK, NoPages, [Next]_vars, SourceKind' = "table", NEW k \in Jobs
             PROVE  job'[k].pages = 0
  BY DEF NoPages
<1>1. SourceKind = "table"
  BY DEF SourceKind, Next, Upsert, Begin, Connect, ExtractPage, ExecuteQuery, WriteFile,
         MaterializeInMemory, Flush, FlushConflict, Commit, Fail, ReadFails, CommitFails,
         MarkFailed, Crash, vars
<1>2. PICK q : q = job[k]
  OBVIOUS
<1>3. q \in JobType /\ q.pages = 0
  BY <1>1, <1>2 DEF NoPages, TypeOK, JobType
<1>4. ASSUME NEW j \in Jobs, NEW r, job' = [job EXCEPT ![j] = r], r.pages = 0
      PROVE  job'[k].pages = 0
  BY <1>2, <1>3, <1>4 DEF TypeOK
<1>5. IdleJob.pages = 0
  BY DEF IdleJob
<1>6. ASSUME NEW i \in Ids, Upsert(i) PROVE job'[k].pages = 0
  <2>1. ~(job[k].pages > 0)
    BY <1>2, <1>3
  <2>2. job' = [j \in Jobs |-> IF job[j].pc = "extracting" /\ job[j].pages > 0
                  THEN [job[j] EXCEPT !.pending = RelistRow(@, i)] ELSE job[j]]
    BY <1>6, Zenon DEF Upsert
  <2>3. job'[k] = q
    BY <1>2, <2>1, <2>2, Zenon
  <2> QED BY <1>3, <2>3
<1>7. ASSUME NEW j \in Jobs, NEW m \in Modes, Begin(j, m) PROVE job'[k].pages = 0
  BY <1>3, <1>2, <1>7 DEF Begin, IdleJob, TypeOK
<1>8. ASSUME NEW j \in Jobs, Connect(j) \/ ExecuteQuery(j) \/ WriteFile(j) \/ Flush(j) \/ CommitFails(j)
      PROVE  job'[k].pages = 0
  <2>1. CASE j # k
    BY <1>2, <1>3, <1>8, <2>1 DEF Connect, ExecuteQuery, WriteFile, Flush, CommitFails, TypeOK
  <2>2. CASE j = k
    <3>1. CASE Connect(j)
      BY <1>2, <1>3, <2>2, <3>1 DEF Connect, TypeOK, JobType
    <3>2. CASE ExecuteQuery(j)
      BY <1>2, <1>3, <2>2, <3>2 DEF ExecuteQuery, TypeOK, JobType
    <3>3. CASE WriteFile(j) \/ Flush(j) \/ CommitFails(j)
      BY <1>2, <1>3, <2>2, <3>3 DEF WriteFile, Flush, CommitFails, TypeOK, JobType
    <3> QED BY <1>8, <3>1, <3>2, <3>3
  <2> QED BY <2>1, <2>2
<1>9. ASSUME NEW j \in Jobs, MaterializeInMemory(j) \/ FlushConflict(j) \/ ReadFails(j) \/ Fail(j)
                             \/ Commit(j) \/ MarkFailed(j)
      PROVE  job'[k].pages = 0
  BY <1>4, <1>5, <1>9 DEF MaterializeInMemory, FlushConflict, ReadFails, Fail, Commit, MarkFailed
<1>10. ASSUME Crash PROVE job'[k].pages = 0
  BY <1>5, <1>10 DEF Crash
<1>11. CASE UNCHANGED vars
  BY <1>2, <1>3, <1>11 DEF vars
<1> QED
  BY <1>1, <1>6, <1>7, <1>8, <1>9, <1>10, <1>11 DEF Next, ExtractPage

LEMMA NextFresh == OneCall /\ WholeListing /\ FreshInv /\ NoPages /\ [Next]_vars => FreshInv'
<1> SUFFICES ASSUME OneCall, WholeListing, FreshInv, NoPages, [Next]_vars PROVE FreshInv'
  OBVIOUS
<1>1. TypeOK' /\ RowsAssigned'
  BY NextTypeOK DEF FreshInv
<1>2. CASE UNCHANGED vars
  BY <1>1, <1>2 DEF vars, FreshInv, FreshBelow, CallFresh, Persisted
<1>3. ASSUME NEW j \in Jobs, ExecuteQuery(j) PROVE FreshInv'
  BY <1>1, <1>3, ExecuteQueryFresh DEF ExecuteQuery, NoPages
<1> QED
  BY <1>1, <1>2, <1>3, UpsertFresh, BeginFresh, ConnectFresh, ExtractPageFresh, WriteFileFresh,
     PhaseFresh, EndsFresh, CrashFresh, Zenon
  DEF Next

\* As long as calls do not overlap, every source row older than the stored
\* cursor is in the file in its current version, whatever mix of incremental
\* and full syncs, changes of the source, failures and crashes led there
\* (ConnectorSyncRuntime.sync_dataset).  It is stated for an API that lists the
\* newest rows first, with a page budget (max_sync_retry) that is enough for
\* all rows; the source may as well be a SQL table, which one query reads, and
\* the metadata store is either one.
THEOREM SyncedRowsAreFresh == OneCall /\ WholeListing => (Spec => []RowsFresh)
<1> SUFFICES ASSUME OneCall, WholeListing PROVE Spec => []RowsFresh
  OBVIOUS
<1>1. Init => FreshInv /\ NoPages
  BY InitFresh DEF Init, NoPages, IdleJob
<1>2. FreshInv /\ NoPages /\ [Next]_vars => (FreshInv /\ NoPages)'
  BY NextFresh, NextNoPages DEF FreshInv
<1>3. FreshInv => RowsFresh
  BY DEF FreshInv, RowsFresh, FreshBelow
<1> QED BY <1>1, <1>2, <1>3, PTL DEF Spec

-----------------------------------------------------------------------------
(* The join planner: paths                                                 *)

RelationsTyped == relations \in Seq(Range(relations))

\* The names that a search from a dataset can meet.
Names(a) == {a} \cup UNION {Ends(i) : i \in DOMAIN relations}

\* The relationships of p lead from a to b, one after the other.
IsPath(a, p, b) ==
    /\ p \in Seq(DOMAIN relations)
    /\ \E w : /\ w[1] = a /\ w[Len(p) + 1] = b
              /\ \A k \in 1..Len(p) : Ends(p[k]) = {w[k], w[k + 1]}

LEMMA EndsAreNames ==
    ASSUME NEW a, NEW i \in DOMAIN relations
    PROVE  Ends(i) \subseteq Names(a) /\ a \in Names(a)
  BY DEF Names

LEMMA OtherEnd ==
    ASSUME NEW i \in DOMAIN relations, NEW x \in Ends(i)
    PROVE  Ends(i) = {x, Other(x, i)}
  BY DEF Ends, Other

LEMMA NoPath == ASSUME NEW a PROVE IsPath(a, <<>>, a)
<1>1. <<>> \in Seq(DOMAIN relations) /\ Len(<<>>) = 0
  OBVIOUS
<1>2. PICK w : w = [k \in {1} |-> a]
  OBVIOUS
<1>3. w[1] = a /\ w[Len(<<>>) + 1] = a /\ \A k \in 1..Len(<<>>) : Ends((<<>>)[k]) = {w[k], w[k + 1]}
  BY <1>1, <1>2
<1> QED BY <1>1, <1>3 DEF IsPath

LEMMA PathGrows ==
    ASSUME NEW a, NEW p, NEW x, IsPath(a, p, x), NEW i \in DOMAIN relations, x \in Ends(i)
    PROVE  IsPath(a, Append(p, i), Other(x, i))
<1>1. PICK q \in Seq(DOMAIN relations) : q = p
  BY DEF IsPath
<1>2. PICK w : /\ w[1] = a /\ w[Len(q) + 1] = x
               /\ \A k \in 1..Len(q) : Ends(q[k]) = {w[k], w[k + 1]}
  BY <1>1 DEF IsPath
<1>3. PICK n \in Nat : n = Len(q)
  OBVIOUS
<1>4. PICK y : y = Other(x, i)
  OBVIOUS
<1>5. PICK v : v = [k \in 1..(n + 2) |-> IF k = n + 2 THEN y ELSE w[k]]
  OBVIOUS
<1>6. PICK r \in Seq(DOMAIN relations) : r = Append(q, i)
  BY AppendProperties
<1>7. Len(r) = n + 1 /\ r[n + 1] = i /\ \A k \in 1..n : r[k] = q[k]
  BY <1>3, <1>6
<1>8. v[1] = a /\ v[n + 1] = x /\ v[n + 2] = y
  BY <1>2, <1>3, <1>5
<1>9. ASSUME NEW k \in 1..(n + 1)
      PROVE  Ends(r[k]) = {v[k], v[k + 1]}
  <2>1. CASE k = n + 1
    <3>1. Ends(i) = {x, y}
      BY <1>4, OtherEnd
    <3> QED BY <1>7, <1>8, <2>1, <3>1
  <2>2. CASE k # n + 1
    <3>1. k \in 1..n /\ k + 1 \in 1..(n + 2) /\ k + 1 # n + 2 /\ k # n + 2 /\ k \in 1..(n + 2)
      BY <2>2
    <3>2. v[k] = w[k] /\ v[k + 1] = w[k + 1]
      BY <1>5, <3>1
    <3> QED BY <1>2, <1>3, <1>7, <3>1, <3>2
  <2> QED BY <2>1, <2>2
<1>10. v[1] = a /\ v[Len(r) + 1] = y /\ \A k \in 1..Len(r) : Ends(r[k]) = {v[k], v[k + 1]}
  BY <1>7, <1>8, <1>9
<1>11. IsPath(a, r, y)
  BY <1>10 DEF IsPath
<1> QED BY <1>1, <1>4, <1>6, <1>11

-----------------------------------------------------------------------------
(* The join planner: one turn of the search                                *)

Turn(a)     == [at : Names(a), path : Seq(DOMAIN relations)]
Searches(a) == [queue : Seq(Turn(a)), visited : SUBSET Names(a), found : BOOLEAN,
                path : Seq(DOMAIN relations)]

\* The datasets that wait in the queue, and those that were taken from it.
Waiting(s) == {s.queue[k].at : k \in DOMAIN s.queue}
Done(s)    == s.visited \ Waiting(s)

\* What the search has found is right: paths from a, each dataset queued once.
PathsRight(a, g, s) ==
    /\ s \in Searches(a) /\ a \in s.visited /\ g \notin s.visited
    /\ \A k \in DOMAIN s.queue : s.queue[k].at \in s.visited /\ IsPath(a, s.queue[k].path, s.queue[k].at)
    /\ \A k, l \in DOMAIN s.queue : s.queue[k].at = s.queue[l].at => k = l
    /\ s.found => IsPath(a, s.path, g)

\* Nothing was overlooked: of the datasets of D, their relationships were followed;
\* of the dataset h only the first k of them.
Followed(s, D, h, k) ==
    s.found \/ \A v \in D, i \in DOMAIN relations :
                  v \in Ends(i) /\ (v # h \/ i <= k) => Other(v, i) \in s.visited

SearchRight(a, g, s) ==
    /\ PathsRight(a, g, s)
    /\ s.found \/ \A v \in Done(s), i \in DOMAIN relations : v \in Ends(i) => Other(v, i) \in s.visited

\* In the middle of a turn for the dataset of here.
Amid(a, g, D, here, k, s) ==
    /\ PathsRight(a, g, s) /\ Done(s) = D
    /\ Followed(s, D, here.at, k)

LEMMA LookTyped ==
    ASSUME NEW a, NEW g, NEW s \in Searches(a), NEW here \in Turn(a), NEW i \in DOMAIN relations
    PROVE  Look(s, here, g, i) \in Searches(a)
<1>1. PICK there : there = Other(here.at, i)
  OBVIOUS
<1>2. PICK path \in Seq(DOMAIN relations) : path = Append(here.path, i)
  <2>1. here.path \in Seq(DOMAIN relations)
    BY DEF Turn
  <2> QED BY <2>1, AppendProperties
<1>3. CASE s.found \/ here.at \notin Ends(i) \/ there \in s.visited
  BY <1>1, <1>3 DEF Look
<1>4. CASE ~(s.found \/ here.at \notin Ends(i) \/ there \in s.visited)
  <2>1. there \in Names(a)
    BY <1>1, <1>4, OtherEnd, EndsAreNames
  <2>2. CASE there = g
    <3>1. Look(s, here, g, i) = [s EXCEPT !.found = TRUE, !.path = path]
      BY <1>1, <1>2, <1>4, <2>2 DEF Look
    <3> QED BY <3>1 DEF Searches
  <2>3. CASE there # g
    <3>1. Look(s, here, g, i) = [s EXCEPT !.visited = @ \cup {there},
                                          !.queue = Append(@, [at |-> there, path |-> path])]
      BY <1>1, <1>2, <1>4, <2>3 DEF Look
    <3>2. PICK t \in Turn(a) : t = [at |-> there, path |-> path]
      BY <2>1 DEF Turn
    <3>3. s.queue \in Seq(Turn(a)) /\ s.visited \subseteq Names(a)
      BY DEF Searches
    <3>4. Append(s.queue, t) \in Seq(Turn(a)) /\ s.visited \cup {there} \subseteq Names(a)
      BY <2>1, <3>3
    <3> QED BY <3>1, <3>2, <3>4 DEF Searches
  <2> QED BY <2>2, <2>3
<1> QED BY <1>3, <1>4

LEMMA LookKeeps ==
    ASSUME NEW a, NEW g, NEW D, NEW here \in Turn(a), IsPath(a, here.path, here.at), here.at \in D,
           RelationsTyped, NEW i \in DOMAIN relations, NEW s, Amid(a, g, D, here, i - 1, s)
    PROVE  Amid(a, g, D, here, i, Look(s, here, g, i))
<1>0. i \in Nat /\ \A j \in DOMAIN relations : j \in Nat
  BY DEF RelationsTyped
<1>1. PICK there : there = Other(here.at, i)
  OBVIOUS
<1>2. PICK path : path = Append(here.path, i)
  OBVIOUS
<1>3. s \in Searches(a) /\ Done(s) = D /\ Followed(s, D, here.at, i - 1) /\ PathsRight(a, g, s)
  BY DEF Amid, PathsRight
<1>4. CASE s.found \/ here.at \notin Ends(i) \/ there \in s.visited
  <2>1. Look(s, here, g, i) = s
    BY <1>1, <1>4 DEF Look
  <2>2. Followed(s, D, here.at, i)
    <3>1. \A j \in DOMAIN relations : j <= i => j <= i - 1 \/ j = i
      BY <1>0
    <3> QED BY <1>1, <1>3, <1>4, <3>1 DEF Followed
  <2> QED BY <1>3, <2>1, <2>2 DEF Amid
<1>5. CASE ~(s.found \/ here.at \notin Ends(i) \/ there \in s.visited)
  <2>1. there \in Names(a) /\ IsPath(a, path, there)
    BY <1>1, <1>2, <1>5, OtherEnd, EndsAreNames, PathGrows
  <2>2. PICK q \in Seq(Turn(a)) : q = s.queue
    BY <1>3 DEF Searches
  <2>3. CASE there = g
    <3>1. PICK new : new = [s EXCEPT !.found = TRUE, !.path = path]
      OBVIOUS
    <3>2. Look(s, here, g, i) = new
      BY <1>1, <1>2, <1>5, <2>3, <3>1 DEF Look
    <3>3. new.queue = s.queue /\ new.visited = s.visited /\ new.found = TRUE /\ new.path = path
      BY <1>3, <3>1 DEF Searches
    <3>4. new \in Searches(a)
      BY <1>3, <3>2, LookTyped
    <3>5. PathsRight(a, g, new)
      BY <1>3, <2>1, <2>3, <3>3, <3>4 DEF PathsRight
    <3>6. Done(new) = D
      BY <1>3, <3>3 DEF Done, Waiting
    <3> QED BY <3>2, <3>3, <3>5, <3>6 DEF Amid, Followed
  <2>4. CASE there # g
    <3>1. PICK t : t = [at |-> there, path |-> path]
      OBVIOUS
    <3>2. PICK new : new = [s EXCEPT !.visited = @ \cup {there}, !.queue = Append(@, t)]
      OBVIOUS
    <3>3. Look(s, here, g, i) = new
      BY <1>1, <1>2, <1>5, <2>4, <3>1, <3>2 DEF Look
    <3>4. /\ new.queue = Append(q, t) /\ new.visited = s.visited \cup {there}
          /\ new.found = s.found /\ new.path = s.path
      BY <1>3, <2>2, <3>2 DEF Searches
    <3>5. new \in Searches(a)
      BY <1>3, <3>3, LookTyped
    <3>6. PICK r : r = new.queue
      OBVIOUS
    <3>7. PICK n \in Nat : n = Len(q)
      OBVIOUS
    <3>8. /\ DOMAIN q = 1..n /\ DOMAIN r = 1..(n + 1) /\ r[n + 1] = t /\ \A k \in 1..n : r[k] = q[k]
      <4>1. t \in Turn(a)
        BY <1>2, <2>1, <3>1 DEF Turn, IsPath
      <4> QED BY <3>4, <3>6, <3>7, <4>1
    <3>9. t.at = there /\ t.path = path
      BY <3>1
    <3>10. \A k \in 1..n : q[k].at \in s.visited /\ IsPath(a, q[k].path, q[k].at)
      BY <1>3, <2>2, <3>8 DEF PathsRight
    <3>11. \A k, l \in 1..n : q[k].at = q[l].at => k = l
      BY <1>3, <2>2, <3>8 DEF PathsRight
    <3>12. \A k \in 1..(n + 1) : k \in 1..n \/ k = n + 1
      OBVIOUS
    <3>13. \A k \in 1..(n + 1) : r[k].at \in new.visited /\ IsPath(a, r[k].path, r[k].at)
      <4>1. ASSUME NEW k \in 1..(n + 1) PROVE r[k].at \in new.visited /\ IsPath(a, r[k].path, r[k].at)
        <5>1. CASE k \in 1..n
          BY <3>4, <3>8, <3>10, <5>1
        <5>2. CASE k = n + 1
          BY <2>1, <3>4, <3>8, <3>9, <5>2
        <5> QED BY <3>12, <5>1, <5>2
      <4> QED BY <4>1
    <3>14. \A k, l \in 1..(n + 1) : r[k].at = r[l].at => k = l
      BY <1>5, <3>8, <3>9, <3>10, <3>11, <3>12
    <3>15. a \in new.visited /\ g \notin new.visited /\ ~new.found
      BY <1>3, <1>5, <2>4, <3>4 DEF PathsRight
    <3>16. PathsRight(a, g, new)
      BY <3>5, <3>6, <3>8, <3>13, <3>14, <3>15 DEF PathsRight
    <3>17. Waiting(new) = Waiting(s) \cup {there}
      <4>1. Waiting(s) = {q[k].at : k \in 1..n} /\ Waiting(new) = {r[k].at : k \in 1..(n + 1)}
        BY <2>2, <3>6, <3>8 DEF Waiting
      <4>2. \A k \in 1..n : r[k].at = q[k].at
        BY <3>8
      <4>3. r[n + 1].at = there /\ n + 1 \in 1..(n + 1) /\ 1..n \subseteq 1..(n + 1)
        BY <3>8, <3>9
      <4> QED BY <3>12, <4>1, <4>2, <4>3
    <3>18. Done(new) = D
      BY <1>3, <1>5, <3>4, <3>17 DEF Done
    <3>19. Followed(new, D, here.at, i)
      <4>1. ASSUME NEW v \in D, NEW j \in DOMAIN relations, v \in Ends(j), v # here.at \/ j <= i
            PROVE  Other(v, j) \in new.visited
        <5>1. CASE v = here.at /\ j = i
          BY <1>1, <3>4, <5>1
        <5>2. CASE ~(v = here.at /\ j = i)
          <6>1. v # here.at \/ j <= i - 1
            <7>1. j <= i /\ j # i => j <= i - 1
              BY <1>0
            <7> QED BY <4>1, <5>2, <7>1
          <6> QED BY <1>3, <1>5, <3>4, <4>1, <6>1 DEF Followed
        <5> QED BY <5>1, <5>2
      <4> QED BY <4>1 DEF Followed
    <3> QED BY <3>3, <3>16, <3>18, <3>19 DEF Amid
  <2> QED BY <2>3, <2>4
<1> QED BY <1>4, <1>5

\* A turn takes a dataset from the queue, and follows all its relationships.
LEMMA ExpandKeeps ==
    ASSUME RelationsTyped, NEW a, NEW g, NEW s, SearchRight(a, g, s), ~s.found, s.queue # <<>>
    PROVE  /\ SearchRight(a, g, Expand(s, g))
           /\ Done(Expand(s, g)) = Done(s) \cup {Head(s.queue).at}
           /\ Head(s.queue).at \in s.visited \ Done(s)
<1> DEFINE n == Len(relations)
           here == Head(s.queue)
           start == [s EXCEPT !.queue = Tail(@)]
           A == Searches(a)
           order == [i \in DOMAIN relations |-> i]
           G == [p \in (1..n) \X A |-> Look(p[2], here, g, p[1])]
           Eq(it) == it = [t \in SUBSET DOMAIN order |->
                           IF t = {} THEN start ELSE Look(it[t \ {Max(t)}], here, g, order[Max(t)])]
           c == CHOOSE it : Eq(it)
<1>1. n \in Nat /\ DOMAIN relations = 1..n /\ DOMAIN order = 1..n /\ \A k \in 1..n : order[k] = k
  BY DEF RelationsTyped
<1> HIDE DEF n
<1>2. s \in Searches(a) /\ PathsRight(a, g, s)
  BY DEF SearchRight, PathsRight
<1>3. PICK q \in Seq(Turn(a)) : q = s.queue
  BY <1>2 DEF Searches
<1>4. PICK m \in Nat : m = Len(q) /\ m # 0
  BY <1>3
<1>5. /\ here = q[1] /\ here \in Turn(a) /\ DOMAIN q = 1..m /\ 1 \in 1..m
      /\ Tail(q) \in Seq(Turn(a)) /\ DOMAIN Tail(q) = 1..(m - 1)
      /\ \A k \in 1..(m - 1) : Tail(q)[k] = q[k + 1] /\ k + 1 \in 1..m
  BY <1>3, <1>4
<1>6. /\ \A k \in 1..m : q[k].at \in s.visited /\ IsPath(a, q[k].path, q[k].at)
      /\ \A k, l \in 1..m : q[k].at = q[l].at => k = l
  BY <1>2, <1>3, <1>5 DEF PathsRight
<1>7. PICK b : b = start
  OBVIOUS
<1>8. b.queue = Tail(q) /\ b.visited = s.visited /\ b.found = s.found /\ b.path = s.path /\ b \in Searches(a)
  BY <1>2, <1>3, <1>5, <1>7 DEF Searches
<1>9. Waiting(s) = Waiting(b) \cup {here.at} /\ here.at \notin Waiting(b)
  <2>1. Waiting(s) = {q[k].at : k \in 1..m} /\ Waiting(b) = {Tail(q)[k].at : k \in 1..(m - 1)}
    BY <1>3, <1>5, <1>8 DEF Waiting
  <2>2. \A k \in 1..m : k = 1 \/ (k - 1 \in 1..(m - 1) /\ q[k] = Tail(q)[k - 1])
    <3>1. ASSUME NEW k \in 1..m, k # 1
          PROVE  k - 1 \in 1..(m - 1) /\ q[k] = Tail(q)[k - 1]
      <4>1. PICK j : j = k - 1
        OBVIOUS
      <4>2. j \in 1..(m - 1) /\ j + 1 = k
        BY <3>1, <4>1
      <4> QED BY <1>5, <4>1, <4>2
    <3> QED BY <3>1
  <2>3. \A x : x \in Waiting(s) => x \in Waiting(b) \cup {here.at}
    BY <1>5, <2>1, <2>2
  <2>4. \A x : x \in Waiting(b) \cup {here.at} => x \in Waiting(s)
    BY <1>5, <2>1
  <2>5. here.at \notin Waiting(b)
    <3>1. ASSUME NEW k \in 1..(m - 1), here.at = Tail(q)[k].at PROVE FALSE
      <4>1. q[1].at = q[k + 1].at /\ k + 1 \in 1..m
        BY <1>5, <3>1
      <4>2. 1 = k + 1
        BY <1>5, <1>6, <4>1
      <4> QED BY <4>2
    <3> QED BY <2>1, <3>1
  <2> QED BY <2>3, <2>4, <2>5
<1>10. here.at \in s.visited /\ IsPath(a, here.path, here.at)
  BY <1>5, <1>6
<1>11. here.at \in s.visited \ Done(s)
  BY <1>9, <1>10 DEF Done
<1> DEFINE D == Done(s) \cup {here.at}
<1>12. Done(b) = D
  BY <1>8, <1>9, <1>10 DEF Done
<1>13. PathsRight(a, g, b)
  <2>1. /\ \A k \in 1..(m - 1) : Tail(q)[k].at \in s.visited /\ IsPath(a, Tail(q)[k].path, Tail(q)[k].at)
        /\ \A k, l \in 1..(m - 1) : Tail(q)[k].at = Tail(q)[l].at => k = l
    <3>1. \A k \in 1..(m - 1) : Tail(q)[k].at \in s.visited /\ IsPath(a, Tail(q)[k].path, Tail(q)[k].at)
      BY <1>5, <1>6
    <3>2. ASSUME NEW k \in 1..(m - 1), NEW l \in 1..(m - 1), Tail(q)[k].at = Tail(q)[l].at
          PROVE  k = l
      <4>1. k + 1 = l + 1
        BY <1>5, <1>6, <3>2
      <4> QED BY <4>1
    <3> QED BY <3>1, <3>2
  <2>2. a \in b.visited /\ g \notin b.visited /\ ~b.found
    BY <1>2, <1>8 DEF PathsRight
  <2>3. PICK r : r = b.queue /\ r = Tail(q)
    BY <1>8
  <2>4. /\ \A k \in DOMAIN r : r[k].at \in b.visited /\ IsPath(a, r[k].path, r[k].at)
        /\ \A k, l \in DOMAIN r : r[k].at = r[l].at => k = l
    BY <1>5, <1>8, <2>1, <2>3
  <2> QED BY <1>8, <2>2, <2>3, <2>4 DEF PathsRight
<1>14. Amid(a, g, D, here, 0, b)
  <2>1. ASSUME NEW v \in D, NEW i \in DOMAIN relations, v \in Ends(i), v # here.at \/ i <= 0
        PROVE  Other(v, i) \in b.visited
    <3>1. v \in Done(s)
      BY <1>1, <2>1
    <3> QED BY <1>8, <2>1, <3>1 DEF SearchRight
  <2>2. Followed(b, D, here.at, 0)
    <3> HIDE DEF D, here
    <3> QED BY <2>1 DEF Followed
  <2> QED BY <1>12, <1>13, <2>2 DEF Amid
<1>15. start \in A
  BY <1>7, <1>8
<1> HIDE DEF start, here, D
<1>16. G \in [(1..n) \X A -> A]
  <2>1. ASSUME NEW k \in 1..n, NEW x \in A
        PROVE  Look(x, here, g, k) \in A
    BY <1>1, <1>5, LookTyped
  <2> HIDE DEF A
  <2> QED BY <2>1
<1>17. PICK it : IsFoldTable(it, A, start, n, G)
  <2> HIDE DEF G, A
  <2> QED BY <1>1, <1>15, <1>16, FoldTableExists, Zenon
<1>18. ASSUME NEW t \in SUBSET (1..n), t # {}
       PROVE  it[t] = Look(it[t \ {Max(t)}], here, g, order[Max(t)])
  <2>1. PICK top : top = Max(t)
    OBVIOUS
  <2>2. top \in 1..n /\ order[top] = top
    BY <1>1, <1>18, <2>1, GreatestUpTo
  <2>3. it[t \ {top}] \in A /\ it[t] = G[<<top, it[t \ {top}]>>]
    <3> HIDE DEF G, A, order
    <3> QED BY <1>17, <1>18, <2>1 DEF IsFoldTable
  <2> HIDE DEF A, order
  <2> QED BY <2>1, <2>2, <2>3
<1>19. it \in [SUBSET (1..n) -> A] /\ it[{}] = start
  BY <1>17 DEF IsFoldTable
<1>20. Eq(it)
  <2> HIDE DEF A, order
  <2> QED BY <1>1, <1>18, <1>19
<1>21. Eq(c)
  <2> HIDE DEF Eq
  <2> QED BY <1>20, Zenon
<1>22. Expand(s, g) = c[DOMAIN order]
  BY Zenon DEF Expand, FoldLeftDomain, FoldLeft, MapThenFoldSet, start, here
<1> HIDE DEF c
<1>23. c[{}] = start /\ \A k \in 1..n : c[1..k] = Look(c[1..(k - 1)], here, g, k)
  <2>1. \A t \in SUBSET (1..n) :
           c[t] = IF t = {} THEN start ELSE Look(c[t \ {Max(t)}], here, g, order[Max(t)])
    <3> HIDE DEF order
    <3> QED BY <1>1, <1>21
  <2>2. ASSUME NEW k \in 1..n
        PROVE  c[1..k] = Look(c[1..(k - 1)], here, g, k)
    <3>1. Max(1..k) = k /\ (1..k) \ {k} = 1..(k - 1) /\ 1..k # {}
      <4>1. k \in Nat /\ k # 0
        BY <1>1
      <4> QED BY <4>1, LastOfInterval
    <3>2. 1..k \in SUBSET (1..n) /\ order[k] = k
      BY <1>1
    <3> QED BY <2>1, <3>1, <3>2
  <2> QED BY <2>1, <2>2
<1> DEFINE Good == {k \in Nat : k <= n => Amid(a, g, D, here, k, c[1..k])}
<1>24. 0 \in Good
  <2>1. 1..0 = {}
    OBVIOUS
  <2> QED BY <1>7, <1>14, <1>23, <2>1
<1>25. ASSUME NEW k \in Nat, k \in Good
       PROVE  k + 1 \in Good
  <2>1. SUFFICES ASSUME k + 1 <= n PROVE Amid(a, g, D, here, k + 1, c[1..(k + 1)])
    OBVIOUS
  <2>2. PICK i : i = k + 1
    OBVIOUS
  <2>3. i \in 1..n /\ i - 1 = k /\ k <= n
    BY <1>1, <2>1, <2>2
  <2>4. Amid(a, g, D, here, i - 1, c[1..(i - 1)])
    BY <1>25, <2>3
  <2>5. here.at \in D
    BY DEF D
  <2>6. Amid(a, g, D, here, i, Look(c[1..(i - 1)], here, g, i))
    BY <1>1, <1>5, <1>10, <2>3, <2>4, <2>5, LookKeeps
  <2> QED BY <1>23, <2>2, <2>3, <2>6
<1>26. n \in Good
  <2> HIDE DEF Good
  <2> QED BY <1>1, <1>24, <1>25, SetInduction
<1>27. Amid(a, g, D, here, n, c[1..n])
  BY <1>1, <1>26
<1>28. PICK e : e = c[1..n]
  OBVIOUS
<1>29. Expand(s, g) = e
  BY <1>1, <1>22, <1>28
<1>30. SearchRight(a, g, e)
  <2>1. PathsRight(a, g, e) /\ Done(e) = D /\ Followed(e, D, here.at, n)
    BY <1>27, <1>28 DEF Amid
  <2>2. \A v \in D, i \in DOMAIN relations : v \in Ends(i) => e.found \/ Other(v, i) \in e.visited
    BY <1>1, <2>1 DEF Followed
  <2> QED BY <2>1, <2>2 DEF SearchRight
<1>31. Done(e) = D
  BY <1>27, <1>28 DEF Amid
<1> QED BY <1>11, <1>29, <1>30, <1>31 DEF D, here

-----------------------------------------------------------------------------
(* The join planner: the whole search                                      *)

LEMMA KeysFinite ==
    /\ IsFiniteSet(DatasetKeys) /\ Cardinality(DatasetKeys) \in Nat
    /\ Len(DatasetOrder) \in Nat /\ Cardinality(DatasetKeys) <= Len(DatasetOrder)
<1>1. DatasetOrder \in Seq(DatasetKeys)
  BY SemanticAssumption
<1>2. PICK n \in Nat : n = Len(DatasetOrder)
  BY <1>1
<1>3. DatasetOrder \in [1..n -> DatasetKeys] /\ DOMAIN DatasetOrder = 1..n
  BY <1>1, <1>2
<1>4. DatasetOrder \in Surjection(1..n, DatasetKeys)
  BY <1>3 DEF Surjection, DatasetKeys, Range
<1>5. IsFiniteSet(1..n) /\ Cardinality(1..n) = n
  <2>1. n \in Int /\ 1 \in Int
    BY <1>2
  <2>2. IsFiniteSet(1..n) /\ Cardinality(1..n) = IF 1 > n THEN 0 ELSE n - 1 + 1
    BY <2>1, FS_Interval
  <2> QED BY <1>2, <2>2
<1>6. IsFiniteSet(DatasetKeys) /\ Cardinality(DatasetKeys) <= n
  BY <1>4, <1>5, FS_Surjection
<1>7. Cardinality(DatasetKeys) \in Nat
  BY <1>6, FS_CardinalityType
<1> QED BY <1>2, <1>6, <1>7

LEMMA SearchStarts ==
    ASSUME NEW a, NEW g, a # g
    PROVE  SearchRight(a, g, [queue |-> <<[at |-> a, path |-> <<>>]>>, visited |-> {a},
                              found |-> FALSE, path |-> <<>>])
<1>1. PICK t : t = [at |-> a, path |-> <<>>]
  OBVIOUS
<1>2. t \in Turn(a) /\ t.at = a /\ t.path = <<>>
  BY <1>1 DEF Turn, Names
<1>3. PICK q : q = <<t>>
  OBVIOUS
<1>4. q \in Seq(Turn(a)) /\ DOMAIN q = {1} /\ q[1] = t
  BY <1>2, <1>3
<1>5. PICK s : s = [queue |-> q, visited |-> {a}, found |-> FALSE, path |-> <<>>]
  OBVIOUS
<1>6. s.queue = q /\ s.visited = {a} /\ s.found = FALSE /\ s.path = <<>>
  BY <1>5
<1>7. s \in Searches(a)
  BY <1>4, <1>5 DEF Searches, Names
<1>8. PathsRight(a, g, s)
  BY <1>2, <1>4, <1>6, <1>7, NoPath DEF PathsRight
<1>9. Done(s) = {}
  BY <1>2, <1>4, <1>6 DEF Done, Waiting
<1>10. SearchRight(a, g, s)
  BY <1>8, <1>9 DEF SearchRight
<1> QED BY <1>1, <1>3, <1>5, <1>10

\* A search finds a path or, between datasets of the model, meets everything.
LEMMA FindPathRight ==
    ASSUME RelationsTyped, NEW a, NEW g, a # g
    PROVE  /\ SearchRight(a, g, FindPath(a, g))
           /\ a \in DatasetKeys /\ (\A i \in DOMAIN relations : Ends(i) \subseteq DatasetKeys)
                => FindPath(a, g).found \/ FindPath(a, g).queue = <<>>
<1> DEFINE names == <<a>> \o DatasetOrder \o relations \o relations
           n == Len(names)
           base == [queue |-> <<[at |-> a, path |-> <<>>]>>, visited |-> {a},
                    found |-> FALSE, path |-> <<>>]
           A == {s \in Searches(a) : SearchRight(a, g, s)}
           G == [p \in (1..n) \X A |-> Expand(p[2], g)]
           Eq(it) == it = [t \in SUBSET DOMAIN names |->
                           IF t = {} THEN base ELSE Expand(it[t \ {Max(t)}], g)]
           c == CHOOSE it : Eq(it)
<1>1. n \in Nat /\ DOMAIN names = 1..n /\ Len(DatasetOrder) \in Nat /\ Len(DatasetOrder) <= n
  <2> DEFINE U == {a} \cup DatasetKeys \cup Range(relations)
  <2>1. <<a>> \in Seq(U)
    OBVIOUS
  <2>2. DatasetOrder \in Seq(U)
    BY SemanticAssumption
  <2>3. relations \in Seq(U)
    BY DEF RelationsTyped
  <2> HIDE DEF U
  <2>4. PICK x \in Seq(U) : x = <<a>> \o DatasetOrder /\ Len(x) = 1 + Len(DatasetOrder)
    <3>1. <<a>> \o DatasetOrder \in Seq(U) /\ Len(<<a>> \o DatasetOrder) = Len(<<a>>) + Len(DatasetOrder)
      BY <2>1, <2>2, ConcatProperties
    <3>2. Len(<<a>>) = 1
      OBVIOUS
    <3> QED BY <3>1, <3>2
  <2>5. PICK y \in Seq(U) : y = x \o relations /\ Len(y) = Len(x) + Len(relations)
    BY <2>3, <2>4, ConcatProperties
  <2>6. PICK z \in Seq(U) : z = y \o relations /\ Len(z) = Len(y) + Len(relations)
    BY <2>3, <2>5, ConcatProperties
  <2>7. z = names
    BY <2>4, <2>5, <2>6
  <2>8. Len(DatasetOrder) \in Nat /\ Len(relations) \in Nat
    BY <2>2, <2>3
  <2>9. Len(z) \in Nat /\ DOMAIN z = 1..Len(z) /\ Len(DatasetOrder) <= Len(z)
    BY <2>4, <2>5, <2>6, <2>8
  <2> HIDE DEF names
  <2> QED BY <2>7, <2>8, <2>9 DEF n
<1>2. base \in A
  BY SearchStarts DEF SearchRight, PathsRight
<1> HIDE DEF names, n, base
<1>3. ASSUME NEW s \in A
      PROVE  Expand(s, g) \in A
  <2>1. CASE s.found \/ s.queue = <<>>
    BY <2>1 DEF Expand
  <2>2. CASE ~(s.found \/ s.queue = <<>>)
    <3>1. SearchRight(a, g, Expand(s, g))
      BY <2>2, ExpandKeeps
    <3> QED BY <3>1 DEF SearchRight, PathsRight
  <2> QED BY <2>1, <2>2
<1>4. G \in [(1..n) \X A -> A]
  <2> HIDE DEF A
  <2> QED BY <1>3
<1>5. PICK it : IsFoldTable(it, A, base, n, G)
  <2> HIDE DEF G, A
  <2> QED BY <1>1, <1>2, <1>4, FoldTableExists, Zenon
<1>6. ASSUME NEW t \in SUBSET (1..n), t # {}
      PROVE  it[t] = Expand(it[t \ {Max(t)}], g)
  <2>1. PICK top : top = Max(t)
    OBVIOUS
  <2>2. top \in 1..n
    BY <1>1, <1>6, <2>1, GreatestUpTo
  <2>3. it[t \ {top}] \in A /\ it[t] = G[<<top, it[t \ {top}]>>]
    <3> HIDE DEF G, A
    <3> QED BY <1>5, <1>6, <2>1 DEF IsFoldTable
  <2> HIDE DEF A
  <2> QED BY <2>1, <2>2, <2>3
<1>7. it \in [SUBSET (1..n) -> A] /\ it[{}] = base
  BY <1>5 DEF IsFoldTable
<1>8. Eq(it)
  <2> HIDE DEF A
  <2> QED BY <1>1, <1>6, <1>7
<1>9. Eq(c)
  <2> HIDE DEF Eq
  <2> QED BY <1>8, Zenon
<1>10. FindPath(a, g) = c[DOMAIN names]
  BY Zenon DEF FindPath, FoldLeft, MapThenFoldSet, names, base
<1> HIDE DEF c
<1>11. c[{}] = base /\ \A k \in 1..n : c[1..k] = Expand(c[1..(k - 1)], g)
  <2>1. \A t \in SUBSET (1..n) : c[t] = IF t = {} THEN base ELSE Expand(c[t \ {Max(t)}], g)
    BY <1>1, <1>9
  <2>2. ASSUME NEW k \in 1..n
        PROVE  c[1..k] = Expand(c[1..(k - 1)], g)
    <3>1. Max(1..k) = k /\ (1..k) \ {k} = 1..(k - 1) /\ 1..k # {}
      <4>1. k \in Nat /\ k # 0
        BY <1>1
      <4> QED BY <4>1, LastOfInterval
    <3>2. 1..k \in SUBSET (1..n)
      BY <1>1
    <3> QED BY <2>1, <3>1, <3>2
  <2> QED BY <2>1, <2>2
<1>12. ASSUME NEW k \in Nat, k <= n
       PROVE  c[1..k] \in A
  <2>1. c[{}] \in A
    BY <1>2, <1>11
  <2>2. \A j \in 1..k : c[1..(j - 1)] \in A => c[1..j] \in A
    BY <1>1, <1>3, <1>11, <1>12
  <2> HIDE DEF A
  <2> QED BY <2>1, <2>2, FoldStays
<1>13. FindPath(a, g) = c[1..n] /\ c[1..n] \in A
  BY <1>1, <1>10, <1>12
<1>14. ASSUME a \in DatasetKeys, \A i \in DOMAIN relations : Ends(i) \subseteq DatasetKeys,
              ~c[1..n].found, c[1..n].queue # <<>>
       PROVE  FALSE
  <2>1. \A s \in A : s.visited \subseteq DatasetKeys /\ IsFiniteSet(Done(s)) /\ Cardinality(Done(s)) \in Nat
    <3>1. Names(a) \subseteq DatasetKeys
      BY <1>14 DEF Names
    <3>2. ASSUME NEW s \in A
          PROVE  s.visited \subseteq DatasetKeys /\ IsFiniteSet(Done(s)) /\ Cardinality(Done(s)) \in Nat
      <4>1. s.visited \subseteq DatasetKeys
        BY <3>1 DEF Searches
      <4>2. PICK D \in SUBSET DatasetKeys : D = Done(s)
        BY <4>1 DEF Done
      <4>3. IsFiniteSet(D)
        BY KeysFinite, FS_Subset
      <4> QED BY <4>1, <4>2, <4>3, FS_CardinalityType
    <3> QED BY <3>2
  <2> DEFINE Over(s) == s.found \/ s.queue = <<>>
             Good == {k \in Nat : k <= n => Over(c[1..k]) \/ Cardinality(Done(c[1..k])) >= k}
  <2>2. 0 \in Good
    <3>1. c[1..0] \in A
      BY <1>1, <1>12
    <3>2. Cardinality(Done(c[1..0])) \in Nat
      BY <2>1, <3>1
    <3> QED BY <3>2
  <2>3. ASSUME NEW k \in Nat, k \in Good
        PROVE  k + 1 \in Good
    <3>1. SUFFICES ASSUME k + 1 <= n
                   PROVE  Over(c[1..(k + 1)]) \/ Cardinality(Done(c[1..(k + 1)])) >= k + 1
      OBVIOUS
    <3>2. PICK j : j = k + 1
      OBVIOUS
    <3>3. j \in 1..n /\ j - 1 = k /\ k <= n
      BY <1>1, <3>1, <3>2
    <3>4. PICK s : s = c[1..k]
      OBVIOUS
    <3>5. s \in A /\ (Over(s) \/ Cardinality(Done(s)) >= k)
      BY <1>12, <2>3, <3>3, <3>4
    <3>6. c[1..(k + 1)] = Expand(s, g)
      BY <1>11, <3>2, <3>3, <3>4
    <3>7. CASE Over(s)
      <4>1. Expand(s, g) = s
        BY <3>7 DEF Expand
      <4> QED BY <3>6, <3>7, <4>1
    <3>8. CASE ~Over(s)
      <4>1. PICK h : h = Head(s.queue).at
        OBVIOUS
      <4>2. Done(Expand(s, g)) = Done(s) \cup {h} /\ h \notin Done(s)
        BY <3>5, <3>8, <4>1, ExpandKeeps
      <4>3. IsFiniteSet(Done(s)) /\ Cardinality(Done(s)) \in Nat
        BY <2>1, <3>5
      <4>4. Cardinality(Done(s) \cup {h}) = Cardinality(Done(s)) + 1
        BY <4>2, <4>3, FS_AddElement
      <4> QED BY <3>5, <3>6, <3>8, <4>2, <4>3, <4>4
    <3> QED BY <3>7, <3>8
  <2>4. n \in Good
    <3> HIDE DEF Good
    <3> QED BY <1>1, <2>2, <2>3, SetInduction
  <2>5. PICK s : s = c[1..n]
    OBVIOUS
  <2>6. s \in A /\ ~s.found /\ s.queue # <<>> /\ Cardinality(Done(s)) >= n
    BY <1>1, <1>13, <1>14, <2>4, <2>5
  <2>7. PICK h : h = Head(s.queue).at
    OBVIOUS
  <2>8. h \in s.visited /\ h \notin Done(s)
    BY <2>6, <2>7, ExpandKeeps
  <2>9. s.visited \subseteq DatasetKeys /\ Cardinality(Done(s)) \in Nat
    BY <2>1, <2>6
  <2>10. PICK K : K = DatasetKeys \ {h}
    OBVIOUS
  <2>11. IsFiniteSet(K) /\ Cardinality(K) = Cardinality(DatasetKeys) - 1
    BY <2>8, <2>9, <2>10, KeysFinite, FS_RemoveElement
  <2>12. Done(s) \in SUBSET K
    BY <2>8, <2>9, <2>10 DEF Done
  <2>13. Cardinality(Done(s)) <= Cardinality(K)
    BY <2>11, <2>12, FS_Subset
  <2> QED BY <1>1, <2>6, <2>9, <2>11, <2>13, KeysFinite
<1> QED BY <1>13, <1>14

\* A set of datasets that no relationship leaves.
Closed(C) == \A i \in DOMAIN relations : Ends(i) \cap C # {} => Ends(i) \subseteq C

\* Where no path is found, there is none.
LEMMA NotFoundIsApart ==
    ASSUME RelationsTyped, NEW a \in DatasetKeys, NEW g, a # g,
           \A i \in DOMAIN relations : Ends(i) \subseteq DatasetKeys, ~FindPath(a, g).found
    PROVE  \E C : Closed(C) /\ a \in C /\ g \notin C
<1>1. PICK s : s = FindPath(a, g)
  OBVIOUS
<1>2. SearchRight(a, g, s) /\ ~s.found /\ s.queue = <<>>
  BY <1>1, FindPathRight
<1>3. Done(s) = s.visited
  BY <1>2 DEF Done, Waiting
<1>4. ASSUME NEW i \in DOMAIN relations, NEW v \in Ends(i), v \in s.visited
      PROVE  Ends(i) \subseteq s.visited
  <2>1. Other(v, i) \in s.visited
    BY <1>2, <1>3, <1>4 DEF SearchRight
  <2> QED BY <1>4, <2>1, OtherEnd
<1>5. Closed(s.visited)
  BY <1>4 DEF Closed
<1> QED BY <1>2, <1>5 DEF SearchRight, PathsRight

\* What is connected to a member of a closed set is in it.
LEMMA ConnectedWithin ==
    ASSUME NEW C, Closed(C), NEW d \in C, NEW e, Connected(d, e)
    PROVE  e \in C
<1> DEFINE n == Len(DatasetOrder)
           A == SUBSET C
           G == [p \in (1..n) \X A |-> WithNeighbours(p[2])]
           Eq(it) == it = [t \in SUBSET DOMAIN DatasetOrder |->
                           IF t = {} THEN {d} ELSE WithNeighbours(it[t \ {Max(t)}])]
           c == CHOOSE it : Eq(it)
<1>1. n \in Nat /\ DOMAIN DatasetOrder = 1..n
  BY SemanticAssumption
<1> HIDE DEF n
<1>2. {d} \in A
  OBVIOUS
<1>3. ASSUME NEW s \in A
      PROVE  WithNeighbours(s) \in A
  BY DEF WithNeighbours, Closed
<1>4. G \in [(1..n) \X A -> A]
  BY <1>3
<1>5. PICK it : IsFoldTable(it, A, {d}, n, G)
  <2> HIDE DEF G, A
  <2> QED BY <1>1, <1>2, <1>4, FoldTableExists, Zenon
<1>6. ASSUME NEW t \in SUBSET (1..n), t # {}
      PROVE  it[t] = WithNeighbours(it[t \ {Max(t)}])
  <2>1. PICK top : top = Max(t)
    OBVIOUS
  <2>2. top \in 1..n
    BY <1>1, <1>6, <2>1, GreatestUpTo
  <2>3. it[t \ {top}] \in A /\ it[t] = G[<<top, it[t \ {top}]>>]
    <3> HIDE DEF G, A
    <3> QED BY <1>5, <1>6, <2>1 DEF IsFoldTable
  <2> HIDE DEF A
  <2> QED BY <2>1, <2>2, <2>3
<1>7. it \in [SUBSET (1..n) -> A] /\ it[{}] = {d}
  BY <1>5 DEF IsFoldTable
<1>8. Eq(it)
  <2> HIDE DEF A
  <2> QED BY <1>1, <1>6, <1>7
<1>9. Eq(c)
  <2> HIDE DEF Eq
  <2> QED BY <1>8, Zenon
<1>10. e \in c[DOMAIN DatasetOrder]
  BY Zenon DEF Connected, FoldLeft, MapThenFoldSet
<1> HIDE DEF c
<1>11. \A k \in 1..n : c[1..(k - 1)] \in A => c[1..k] \in A
  <2>1. \A t \in SUBSET (1..n) : c[t] = IF t = {} THEN {d} ELSE WithNeighbours(c[t \ {Max(t)}])
    BY <1>1, <1>9
  <2>2. ASSUME NEW k \in 1..n
        PROVE  c[1..k] = WithNeighbours(c[1..(k - 1)])
    <3>1. Max(1..k) = k /\ (1..k) \ {k} = 1..(k - 1) /\ 1..k # {}
      <4>1. k \in Nat /\ k # 0
        BY <1>1
      <4> QED BY <4>1, LastOfInterval
    <3>2. 1..k \in SUBSET (1..n)
      BY <1>1
    <3> QED BY <2>1, <3>1, <3>2
  <2> QED BY <1>3, <2>2
<1>12. c[{}] = {d}
  BY <1>1, <1>9
<1>13. c[1..n] \in A
  <2>1. c[{}] \in A
    BY <1>2, <1>12
  <2> HIDE DEF A
  <2> QED BY <1>1, <1>11, <2>1, FoldStays
<1> QED BY <1>1, <1>10, <1>13

-----------------------------------------------------------------------------
(* The join planner: the plan                                              *)

Steps(a) == [by : DOMAIN relations, left : Names(a), right : Names(a)]

\* The datasets that are joined after the first k steps.
JoinedBy(a, steps, k) == {a} \cup {steps[j].right : j \in 1..k}

\* Each step joins one dataset that was not, to one that was.
StepsSound(a, steps) ==
    \A k \in 1..Len(steps) : /\ Ends(steps[k].by) = {steps[k].left, steps[k].right}
                             /\ steps[k].left \in JoinedBy(a, steps, k - 1)
                             /\ steps[k].right \notin JoinedBy(a, steps, k - 1)

PlanRecords(a) == [failed : BOOLEAN, joined : SUBSET Names(a), steps : Seq(Steps(a))]
Plans(a) == {p \in PlanRecords(a) : /\ StepsSound(a, p.steps)
                                    /\ p.joined = JoinedBy(a, p.steps, Len(p.steps))}

LEMMA StepJoins ==
    ASSUME NEW a, NEW p \in Plans(a), NEW s \in Steps(a),
           Ends(s.by) = {s.left, s.right}, s.left \in p.joined, s.right \notin p.joined
    PROVE  [p EXCEPT !.joined = @ \cup {s.right}, !.steps = Append(@, s)] \in Plans(a)
<1>1. PICK old \in Seq(Steps(a)) : old = p.steps
  BY DEF Plans, PlanRecords
<1>2. PICK n \in Nat : n = Len(old)
  OBVIOUS
<1>3. PICK steps \in Seq(Steps(a)) : steps = Append(old, s)
  BY AppendProperties
<1>4. Len(steps) = n + 1 /\ steps[n + 1] = s /\ \A k \in 1..n : steps[k] = old[k]
  BY <1>2, <1>3, AppendProperties
<1>5. ASSUME NEW k \in 0..n
      PROVE  JoinedBy(a, steps, k) = JoinedBy(a, old, k)
  <2>1. \A j \in 1..k : steps[j] = old[j]
    BY <1>4
  <2> QED BY <2>1 DEF JoinedBy
<1>6. p.joined = JoinedBy(a, old, n) /\ StepsSound(a, old)
  BY <1>1, <1>2 DEF Plans
<1>7. StepsSound(a, steps)
  <2>1. ASSUME NEW k \in 1..(n + 1)
        PROVE  /\ Ends(steps[k].by) = {steps[k].left, steps[k].right}
               /\ steps[k].left \in JoinedBy(a, steps, k - 1)
               /\ steps[k].right \notin JoinedBy(a, steps, k - 1)
    <3>1. PICK j \in 0..n : j = k - 1
      OBVIOUS
    <3>2. JoinedBy(a, steps, k - 1) = JoinedBy(a, old, k - 1)
      BY <1>5, <3>1
    <3>3. CASE k = n + 1
      <4>1. j = n
        BY <3>1, <3>3
      <4> QED BY <1>4, <1>6, <3>1, <3>2, <3>3, <4>1
    <3>4. CASE k # n + 1
      <4>1. k \in 1..n
        BY <3>4
      <4> QED BY <1>2, <1>4, <1>6, <3>2, <4>1 DEF StepsSound
    <3> QED BY <3>3, <3>4
  <2> QED BY <1>4, <2>1 DEF StepsSound
<1>8. JoinedBy(a, steps, n + 1) = p.joined \cup {s.right}
  <2>1. JoinedBy(a, steps, n + 1) = JoinedBy(a, steps, n) \cup {steps[n + 1].right}
    <3>1. 1..(n + 1) = 1..n \cup {n + 1}
      OBVIOUS
    <3>2. {steps[j].right : j \in 1..(n + 1)} = {steps[j].right : j \in 1..n} \cup {steps[n + 1].right}
      BY <3>1
    <3> QED BY <3>2 DEF JoinedBy
  <2>2. JoinedBy(a, steps, n) = JoinedBy(a, old, n)
    BY <1>5
  <2> QED BY <1>4, <1>6, <2>1, <2>2
<1>9. PICK new : new = [p EXCEPT !.joined = @ \cup {s.right}, !.steps = Append(@, s)]
  OBVIOUS
<1>10. /\ new.steps = steps /\ new.joined = p.joined \cup {s.right} /\ new.failed = p.failed
       /\ new \in PlanRecords(a)
  <2>1. s.right \in Names(a)
    BY DEF Steps
  <2>2. p \in PlanRecords(a)
    BY DEF Plans
  <2> QED BY <1>1, <1>3, <1>9, <2>1, <2>2 DEF PlanRecords
<1>11. new \in Plans(a)
  BY <1>4, <1>7, <1>8, <1>10 DEF Plans
<1> QED BY <1>9, <1>11

\* One relationship of a path that has reached a joined dataset.
LEMMA JoinOneKeeps ==
    ASSUME NEW a, NEW p \in Plans(a), NEW i \in DOMAIN relations
    PROVE  /\ JoinOne(p, i) \in Plans(a)
           /\ p.joined \subseteq JoinOne(p, i).joined
           /\ ~p.failed /\ Ends(i) \cap p.joined # {}
                => ~JoinOne(p, i).failed /\ Ends(i) \subseteq JoinOne(p, i).joined
<1>1. PICK r : r = relations[i]
  OBVIOUS
<1>2. Ends(i) = {r.from, r.to} /\ Ends(i) \subseteq Names(a)
  BY <1>1, EndsAreNames DEF Ends
<1>3. p \in PlanRecords(a)
  BY DEF Plans
<1>4. CASE p.failed \/ BothJoined(p, i)
  <2>1. JoinOne(p, i) = p
    BY <1>4 DEF JoinOne
  <2> QED BY <1>4, <2>1 DEF BothJoined
<1>5. CASE ~(p.failed \/ BothJoined(p, i)) /\ r.from \in p.joined
  <2>1. PICK s : s = [by |-> i, left |-> r.from, right |-> r.to]
    OBVIOUS
  <2>2. s \in Steps(a) /\ s.by = i /\ s.left = r.from /\ s.right = r.to
    BY <1>2, <2>1 DEF Steps
  <2>3. s.right \notin p.joined
    BY <1>2, <1>5, <2>2 DEF BothJoined
  <2>4. PICK new : new = [p EXCEPT !.joined = @ \cup {s.right}, !.steps = Append(@, s)]
    OBVIOUS
  <2>5. JoinOne(p, i) = new
    BY <1>1, <1>5, <2>1, <2>2, <2>4 DEF JoinOne
  <2>6. new \in Plans(a)
    BY <1>2, <1>5, <2>2, <2>3, <2>4, StepJoins
  <2>7. new.joined = p.joined \cup {r.to} /\ new.failed = p.failed
    BY <1>3, <2>2, <2>4 DEF PlanRecords
  <2> QED BY <1>2, <1>5, <2>5, <2>6, <2>7
<1>6. CASE ~(p.failed \/ BothJoined(p, i)) /\ r.from \notin p.joined /\ r.to \in p.joined
  <2>1. PICK s : s = [by |-> i, left |-> r.to, right |-> r.from]
    OBVIOUS
  <2>2. s \in Steps(a) /\ s.by = i /\ s.left = r.to /\ s.right = r.from
    BY <1>2, <2>1 DEF Steps
  <2>3. PICK new : new = [p EXCEPT !.joined = @ \cup {s.right}, !.steps = Append(@, s)]
    OBVIOUS
  <2>4. JoinOne(p, i) = new
    BY <1>1, <1>6, <2>1, <2>2, <2>3 DEF JoinOne
  <2>5. new \in Plans(a)
    BY <1>2, <1>6, <2>2, <2>3, StepJoins
  <2>6. new.joined = p.joined \cup {r.from} /\ new.failed = p.failed
    BY <1>3, <2>2, <2>3 DEF PlanRecords
  <2> QED BY <1>2, <1>6, <2>4, <2>5, <2>6
<1>7. CASE ~(p.failed \/ BothJoined(p, i)) /\ r.from \notin p.joined /\ r.to \notin p.joined
  <2>1. PICK new : new = [p EXCEPT !.failed = TRUE]
    OBVIOUS
  <2>2. JoinOne(p, i) = new
    BY <1>1, <1>7, <2>1 DEF JoinOne
  <2>3. new.joined = p.joined /\ new.steps = p.steps /\ new \in PlanRecords(a)
    BY <1>3, <2>1 DEF PlanRecords
  <2> QED BY <1>2, <1>7, <2>2, <2>3 DEF Plans
<1> QED BY <1>4, <1>5, <1>6, <1>7

\* The relationships of a path from the base join all that they lead to.
LEMMA FollowPath ==
    ASSUME NEW a, NEW plan \in Plans(a), ~plan.failed, NEW path, NEW d, IsPath(a, path, d)
    PROVE  /\ FoldLeft(JoinOne, plan, path) \in Plans(a) /\ ~FoldLeft(JoinOne, plan, path).failed
           /\ plan.joined \cup {d} \subseteq FoldLeft(JoinOne, plan, path).joined
<1> DEFINE n == Len(path)
           A == Plans(a)
           G == [p \in (1..n) \X A |-> JoinOne(p[2], path[p[1]])]
           Eq(it) == it = [t \in SUBSET DOMAIN path |->
                           IF t = {} THEN plan ELSE JoinOne(it[t \ {Max(t)}], path[Max(t)])]
           c == CHOOSE it : Eq(it)
<1>1. n \in Nat /\ DOMAIN path = 1..n /\ \A k \in 1..n : path[k] \in DOMAIN relations
  BY DEF IsPath
<1>2. PICK w : w[1] = a /\ w[n + 1] = d /\ \A k \in 1..n : Ends(path[k]) = {w[k], w[k + 1]}
  BY DEF IsPath
<1> HIDE DEF n
<1>3. G \in [(1..n) \X A -> A]
  <2>1. ASSUME NEW k \in 1..n, NEW x \in A
        PROVE  JoinOne(x, path[k]) \in A
    BY <1>1, JoinOneKeeps
  <2> HIDE DEF A
  <2> QED BY <2>1
<1>4. PICK it : IsFoldTable(it, A, plan, n, G)
  <2> HIDE DEF G, A
  <2>1. plan \in A
    BY DEF A
  <2> QED BY <1>1, <1>3, <2>1, FoldTableExists, Zenon
<1>5. ASSUME NEW t \in SUBSET (1..n), t # {}
      PROVE  it[t] = JoinOne(it[t \ {Max(t)}], path[Max(t)])
  <2>1. PICK top : top = Max(t)
    OBVIOUS
  <2>2. top \in 1..n
    BY <1>1, <1>5, <2>1, GreatestUpTo
  <2>3. it[t \ {top}] \in A /\ it[t] = G[<<top, it[t \ {top}]>>]
    <3> HIDE DEF G, A
    <3> QED BY <1>4, <1>5, <2>1 DEF IsFoldTable
  <2> HIDE DEF A
  <2> QED BY <2>1, <2>2, <2>3
<1>6. it \in [SUBSET (1..n) -> A] /\ it[{}] = plan
  BY <1>4 DEF IsFoldTable
<1>7. Eq(it)
  <2> HIDE DEF A
  <2> QED BY <1>1, <1>5, <1>6
<1>8. Eq(c)
  <2> HIDE DEF Eq
  <2> QED BY <1>7, Zenon
<1>9. FoldLeft(JoinOne, plan, path) = c[DOMAIN path]
  BY Zenon DEF FoldLeft, MapThenFoldSet
<1> HIDE DEF c
<1>10. c[{}] = plan /\ \A k \in 1..n : c[1..k] = JoinOne(c[1..(k - 1)], path[k])
  <2>1. \A t \in SUBSET (1..n) : c[t] = IF t = {} THEN plan ELSE JoinOne(c[t \ {Max(t)}], path[Max(t)])
    BY <1>1, <1>8
  <2>2. ASSUME NEW k \in 1..n
        PROVE  c[1..k] = JoinOne(c[1..(k - 1)], path[k])
    <3>1. Max(1..k) = k /\ (1..k) \ {k} = 1..(k - 1) /\ 1..k # {}
      <4>1. k \in Nat /\ k # 0
        BY <1>1
      <4> QED BY <4>1, LastOfInterval
    <3>2. 1..k \in SUBSET (1..n)
      BY <1>1
    <3> QED BY <2>1, <3>1, <3>2
  <2> QED BY <2>1, <2>2
<1> DEFINE Right(p, k) == p \in A /\ ~p.failed /\ plan.joined \subseteq p.joined /\ w[k + 1] \in p.joined
           Good == {k \in Nat : k <= n => Right(c[1..k], k)}
<1>11. 0 \in Good
  <2>1. 1..0 = {}
    OBVIOUS
  <2>2. a \in plan.joined
    BY DEF Plans, JoinedBy
  <2> QED BY <1>2, <1>10, <2>1, <2>2
<1>12. ASSUME NEW k \in Nat, k \in Good
       PROVE  k + 1 \in Good
  <2>1. SUFFICES ASSUME k + 1 <= n PROVE Right(c[1..(k + 1)], k + 1)
    OBVIOUS
  <2>2. PICK j : j = k + 1
    OBVIOUS
  <2>3. j \in 1..n /\ j - 1 = k /\ k <= n
    BY <1>1, <2>1, <2>2
  <2>4. PICK p : p = c[1..k]
    OBVIOUS
  <2>5. p \in A /\ ~p.failed /\ plan.joined \subseteq p.joined /\ w[j] \in p.joined
    BY <1>12, <2>2, <2>3, <2>4
  <2>6. c[1..j] = JoinOne(p, path[j])
    BY <1>10, <2>3, <2>4
  <2>7. path[j] \in DOMAIN relations /\ Ends(path[j]) = {w[j], w[j + 1]}
    BY <1>1, <1>2, <2>3
  <2>8. PICK new : new = JoinOne(p, path[j])
    OBVIOUS
  <2>9. new \in A /\ ~new.failed /\ p.joined \subseteq new.joined /\ w[j + 1] \in new.joined
    <3>1. Ends(path[j]) \cap p.joined # {}
      BY <2>5, <2>7
    <3>2. /\ new \in A /\ p.joined \subseteq new.joined
          /\ ~new.failed /\ Ends(path[j]) \subseteq new.joined
      BY <2>5, <2>7, <2>8, <3>1, JoinOneKeeps
    <3> QED BY <2>7, <3>2
  <2>10. plan.joined \subseteq new.joined
    BY <2>5, <2>9
  <2> HIDE DEF A
  <2> QED BY <2>2, <2>6, <2>8, <2>9, <2>10
<1>13. n \in Good
  <2> HIDE DEF Good
  <2> QED BY <1>1, <1>11, <1>12, SetInduction
<1>14. Right(c[1..n], n)
  BY <1>1, <1>13
<1> QED BY <1>1, <1>2, <1>9, <1>14

\* One of the required datasets.
LEMMA ReachKeeps ==
    ASSUME RelationsTyped, NEW a, NEW p \in Plans(a), NEW required, NEW d
    PROVE  /\ Reach(p, a, required, d) \in Plans(a)
           /\ p.joined \subseteq Reach(p, a, required, d).joined
           /\ ~Reach(p, a, required, d).failed /\ d \in required => d \in Reach(p, a, required, d).joined
           /\ p.failed => Reach(p, a, required, d).failed
           /\ Reach(p, a, required, d).failed /\ ~p.failed
                => d \in required \ {a} /\ ~FindPath(a, d).found
<1>1. PICK search : search = FindPath(a, d)
  OBVIOUS
<1>2. p \in PlanRecords(a) /\ a \in p.joined
  BY DEF Plans, JoinedBy
<1>3. CASE p.failed \/ d \notin required \ {a}
  <2>1. Reach(p, a, required, d) = p
    BY <1>3 DEF Reach
  <2> QED BY <1>2, <1>3, <2>1
<1>4. CASE ~(p.failed \/ d \notin required \ {a}) /\ search.found
  <2>1. PICK new : new = FoldLeft(JoinOne, p, search.path)
    OBVIOUS
  <2>2. Reach(p, a, required, d) = new
    BY <1>1, <1>4, <2>1 DEF Reach
  <2>3. IsPath(a, search.path, d)
    BY <1>1, <1>4, FindPathRight DEF SearchRight, PathsRight
  <2>4. new \in Plans(a) /\ ~new.failed /\ p.joined \cup {d} \subseteq new.joined
    BY <1>4, <2>1, <2>3, FollowPath
  <2> QED BY <1>4, <2>2, <2>4
<1>5. CASE ~(p.failed \/ d \notin required \ {a}) /\ ~search.found
  <2>1. PICK new : new = [p EXCEPT !.failed = TRUE]
    OBVIOUS
  <2>2. Reach(p, a, required, d) = new
    BY <1>1, <1>5, <2>1 DEF Reach
  <2>3. new.joined = p.joined /\ new.steps = p.steps /\ new.failed = TRUE /\ new \in PlanRecords(a)
    BY <1>2, <2>1 DEF PlanRecords
  <2>4. new \in Plans(a)
    BY <2>3 DEF Plans
  <2> QED BY <1>1, <1>5, <2>2, <2>3, <2>4
<1> QED BY <1>3, <1>4, <1>5

\* The plan joins all that is required of the model's datasets, or fails for one
\* that no path was found to.
LEMMA JoinPlanRight ==
    ASSUME RelationsTyped, NEW a, NEW required
    PROVE  /\ JoinPlan(a, required) \in Plans(a)
           /\ ~JoinPlan(a, required).failed => required \cap DatasetKeys \subseteq JoinPlan(a, required).joined
           /\ JoinPlan(a, required).failed
                => \E d \in required : d # a /\ d \in DatasetKeys /\ ~FindPath(a, d).found
<1> DEFINE n == Len(DatasetOrder)
           A == Plans(a)
           base == [failed |-> FALSE, joined |-> {a}, steps |-> <<>>]
           G == [p \in (1..n) \X A |-> Reach(p[2], a, required, DatasetOrder[p[1]])]
           Eq(it) == it = [t \in SUBSET DOMAIN DatasetOrder |->
                           IF t = {} THEN base ELSE Reach(it[t \ {Max(t)}], a, required, DatasetOrder[Max(t)])]
           c == CHOOSE it : Eq(it)
<1>1. n \in Nat /\ DOMAIN DatasetOrder = 1..n /\ \A k \in 1..n : DatasetOrder[k] \in DatasetKeys
  BY SemanticAssumption
<1> HIDE DEF n
<1>2. base \in A
  <2>1. PICK b : b = base
    OBVIOUS
  <2>2. <<>> \in Seq(Steps(a)) /\ Len(<<>>) = 0
    OBVIOUS
  <2>3. b \in PlanRecords(a) /\ b.steps = <<>> /\ b.joined = {a}
    BY <2>1, <2>2, EndsAreNames DEF PlanRecords, Names
  <2>4. StepsSound(a, b.steps) /\ b.joined = JoinedBy(a, b.steps, Len(b.steps))
    BY <2>2, <2>3 DEF StepsSound, JoinedBy
  <2> QED BY <2>1, <2>3, <2>4 DEF Plans
<1>3. ~base.failed /\ a \in base.joined
  OBVIOUS
<1> HIDE DEF base
<1>4. G \in [(1..n) \X A -> A]
  <2>1. ASSUME NEW k \in 1..n, NEW x \in A
        PROVE  Reach(x, a, required, DatasetOrder[k]) \in A
    BY ReachKeeps
  <2> HIDE DEF A
  <2> QED BY <2>1
<1>5. PICK it : IsFoldTable(it, A, base, n, G)
  <2> HIDE DEF G, A
  <2> QED BY <1>1, <1>2, <1>4, FoldTableExists, Zenon
<1>6. ASSUME NEW t \in SUBSET (1..n), t # {}
      PROVE  it[t] = Reach(it[t \ {Max(t)}], a, required, DatasetOrder[Max(t)])
  <2>1. PICK top : top = Max(t)
    OBVIOUS
  <2>2. top \in 1..n
    BY <1>1, <1>6, <2>1, GreatestUpTo
  <2>3. it[t \ {top}] \in A /\ it[t] = G[<<top, it[t \ {top}]>>]
    <3> HIDE DEF G, A
    <3> QED BY <1>5, <1>6, <2>1 DEF IsFoldTable
  <2> HIDE DEF A
  <2> QED BY <2>1, <2>2, <2>3
<1>7. it \in [SUBSET (1..n) -> A] /\ it[{}] = base
  BY <1>5 DEF IsFoldTable
<1>8. Eq(it)
  <2> HIDE DEF A
  <2> QED BY <1>1, <1>6, <1>7
<1>9. Eq(c)
  <2> HIDE DEF Eq
  <2> QED BY <1>8, Zenon
<1>10. JoinPlan(a, required) = c[DOMAIN DatasetOrder]
  BY Zenon DEF JoinPlan, FoldLeft, MapThenFoldSet, base
<1> HIDE DEF c
<1>11. c[{}] = base /\ \A k \in 1..n : c[1..k] = Reach(c[1..(k - 1)], a, required, DatasetOrder[k])
  <2>1. \A t \in SUBSET (1..n) :
           c[t] = IF t = {} THEN base ELSE Reach(c[t \ {Max(t)}], a, required, DatasetOrder[Max(t)])
    BY <1>1, <1>9
  <2>2. ASSUME NEW k \in 1..n
        PROVE  c[1..k] = Reach(c[1..(k - 1)], a, required, DatasetOrder[k])
    <3>1. Max(1..k) = k /\ (1..k) \ {k} = 1..(k - 1) /\ 1..k # {}
      <4>1. k \in Nat /\ k # 0
        BY <1>1
      <4> QED BY <4>1, LastOfInterval
    <3>2. 1..k \in SUBSET (1..n)
      BY <1>1
    <3> QED BY <2>1, <3>1, <3>2
  <2> QED BY <2>1, <2>2
<1> DEFINE Right(p, k) ==
               /\ p \in A
               /\ ~p.failed => \A j \in 1..k : DatasetOrder[j] \in required => DatasetOrder[j] \in p.joined
               /\ p.failed => \E d \in required : d # a /\ d \in DatasetKeys /\ ~FindPath(a, d).found
           Good == {k \in Nat : k <= n => Right(c[1..k], k)}
<1>12. 0 \in Good
  <2>1. 1..0 = {}
    OBVIOUS
  <2> HIDE DEF A
  <2> QED BY <1>2, <1>3, <1>11, <2>1
<1>13. ASSUME NEW k \in Nat, k \in Good
       PROVE  k + 1 \in Good
  <2>1. SUFFICES ASSUME k + 1 <= n PROVE Right(c[1..(k + 1)], k + 1)
    OBVIOUS
  <2>2. PICK j : j = k + 1
    OBVIOUS
  <2>3. j \in 1..n /\ j - 1 = k /\ k <= n
    BY <1>1, <2>1, <2>2
  <2>4. PICK p : p = c[1..k]
    OBVIOUS
  <2>5. Right(p, k)
    BY <1>13, <2>3, <2>4
  <2>6. PICK d \in DatasetKeys : d = DatasetOrder[j]
    BY <1>1, <2>3
  <2>7. PICK new : new = Reach(p, a, required, d)
    OBVIOUS
  <2>8. c[1..j] = new
    BY <1>11, <2>3, <2>4, <2>6, <2>7
  <2>9. /\ new \in A /\ p.joined \subseteq new.joined
        /\ ~new.failed /\ d \in required => d \in new.joined
        /\ p.failed => new.failed
        /\ new.failed /\ ~p.failed => d \in required /\ d # a /\ ~FindPath(a, d).found
    <3>1. p \in Plans(a)
      BY <2>5
    <3> QED BY <2>7, <3>1, ReachKeeps
  <2>10. \A l \in 1..j : l \in 1..k \/ l = j
    BY <2>2
  <2> HIDE DEF A
  <2>11. ~new.failed => \A l \in 1..j : DatasetOrder[l] \in required => DatasetOrder[l] \in new.joined
    BY <2>5, <2>6, <2>9, <2>10
  <2>12. new.failed => \E e \in required : e # a /\ e \in DatasetKeys /\ ~FindPath(a, e).found
    BY <2>5, <2>6, <2>9
  <2> QED BY <2>2, <2>8, <2>9, <2>11, <2>12
<1>14. n \in Good
  <2> HIDE DEF Good
  <2> QED BY <1>1, <1>12, <1>13, SetInduction
<1>15. PICK p : p = c[1..n]
  OBVIOUS
<1>16. Right(p, n) /\ JoinPlan(a, required) = p
  BY <1>1, <1>10, <1>14, <1>15
<1>17. ~p.failed => required \cap DatasetKeys \subseteq p.joined
  <2>1. \A d \in DatasetKeys : \E j \in 1..n : DatasetOrder[j] = d
    BY <1>1 DEF DatasetKeys, Range
  <2> QED BY <1>16, <2>1
<1> QED BY <1>16, <1>17

LEMMA NoneBelowOne == 1..0 = {}
  OBVIOUS

\* The aliases are the base's and, in their order, those of the datasets joined.
LEMMA AliasesFollowSteps ==
    ASSUME NEW a, NEW steps \in Seq(Steps(a)), StepsSound(a, steps)
    PROVE  /\ AliasMap(a, steps) \in Seq(Names(a))
           /\ Len(AliasMap(a, steps)) = Len(steps) + 1
           /\ AliasMap(a, steps)[1] = a
           /\ \A k \in 1..Len(steps) : AliasMap(a, steps)[k + 1] = steps[k].right
<1> DEFINE n == Len(steps)
           A == Seq(Names(a))
           base == <<a>>
           Turned(order, s) == WithAlias(WithAlias(order, s.right), s.left)
           G == [p \in (1..n) \X A |-> Turned(p[2], steps[p[1]])]
           Eq(it) == it = [t \in SUBSET DOMAIN steps |->
                           IF t = {} THEN base ELSE Turned(it[t \ {Max(t)}], steps[Max(t)])]
           c == CHOOSE it : Eq(it)
<1>1. n \in Nat /\ DOMAIN steps = 1..n /\ \A k \in 1..n : steps[k] \in Steps(a)
  OBVIOUS
<1> HIDE DEF n
<1>2. base \in A /\ Len(base) = 1 /\ base[1] = a
  BY EndsAreNames DEF Names
<1> HIDE DEF base
<1>3. ASSUME NEW order \in A, NEW d \in Names(a)
      PROVE  WithAlias(order, d) \in A
  BY AppendProperties DEF WithAlias
<1>4. ASSUME NEW order \in A, NEW s \in Steps(a)
      PROVE  Turned(order, s) \in A
  <2>1. s.left \in Names(a) /\ s.right \in Names(a)
    BY DEF Steps
  <2> HIDE DEF A
  <2> QED BY <1>3, <2>1
<1>5. G \in [(1..n) \X A -> A]
  <2> HIDE DEF A, Turned
  <2> QED BY <1>1, <1>4
<1>6. PICK it : IsFoldTable(it, A, base, n, G)
  <2> HIDE DEF G, A
  <2> QED BY <1>1, <1>2, <1>5, FoldTableExists, Zenon
<1>7. ASSUME NEW t \in SUBSET (1..n), t # {}
      PROVE  it[t] = Turned(it[t \ {Max(t)}], steps[Max(t)])
  <2>1. PICK top : top = Max(t)
    OBVIOUS
  <2>2. top \in 1..n
    BY <1>1, <1>7, <2>1, GreatestUpTo
  <2>3. it[t \ {top}] \in A /\ it[t] = G[<<top, it[t \ {top}]>>]
    <3> HIDE DEF G, A
    <3> QED BY <1>6, <1>7, <2>1 DEF IsFoldTable
  <2> HIDE DEF A, Turned
  <2> QED BY <2>1, <2>2, <2>3
<1>8. it \in [SUBSET (1..n) -> A] /\ it[{}] = base
  BY <1>6 DEF IsFoldTable
<1>9. Eq(it)
  <2> HIDE DEF A, Turned
  <2> QED BY <1>1, <1>7, <1>8
<1>10. Eq(c)
  <2> HIDE DEF Eq
  <2> QED BY <1>9, Zenon
<1>11. AliasMap(a, steps) = c[DOMAIN steps]
  BY Zenon DEF AliasMap, FoldLeft, MapThenFoldSet, base
<1> HIDE DEF c
<1>12. c[{}] = base /\ \A k \in 1..n : c[1..k] = Turned(c[1..(k - 1)], steps[k])
  <2> HIDE DEF Turned
  <2>1. \A t \in SUBSET (1..n) : c[t] = IF t = {} THEN base ELSE Turned(c[t \ {Max(t)}], steps[Max(t)])
    BY <1>1, <1>10
  <2>2. ASSUME NEW k \in 1..n
        PROVE  c[1..k] = Turned(c[1..(k - 1)], steps[k])
    <3>1. Max(1..k) = k /\ (1..k) \ {k} = 1..(k - 1) /\ 1..k # {}
      <4>1. k \in Nat /\ k # 0
        BY <1>1
      <4> QED BY <4>1, LastOfInterval
    <3>2. 1..k \in SUBSET (1..n)
      BY <1>1
    <3> QED BY <2>1, <3>1, <3>2
  <2> QED BY <2>1, <2>2
<1> DEFINE Right(x, k) == /\ x \in A /\ Len(x) = k + 1 /\ x[1] = a
                          /\ \A j \in 1..k : x[j + 1] = steps[j].right
           Good == {k \in Nat : k <= n => Right(c[1..k], k)}
<1>13. 0 \in Good
  <2>1. 1..0 = {}
    BY NoneBelowOne
  <2> HIDE DEF A
  <2> QED BY <1>2, <1>12, <2>1
<1>14. ASSUME NEW k \in Nat, k \in Good
       PROVE  k + 1 \in Good
  <2>1. SUFFICES ASSUME k + 1 <= n PROVE Right(c[1..(k + 1)], k + 1)
    OBVIOUS
  <2>2. PICK j : j = k + 1
    OBVIOUS
  <2>3. j \in 1..n /\ j - 1 = k /\ k <= n
    BY <1>1, <2>1, <2>2
  <2>4. PICK x : x = c[1..k]
    OBVIOUS
  <2>5. Right(x, k)
    BY <1>14, <2>3, <2>4
  <2>6. PICK s \in Steps(a) : s = steps[j]
    BY <1>1, <2>3
  <2>7. /\ s.left \in JoinedBy(a, steps, k) /\ s.right \notin JoinedBy(a, steps, k)
        /\ s.right \in Names(a)
    BY <1>1, <2>3, <2>6 DEF StepsSound, Steps, n
  <2>8. DOMAIN x = 1..(k + 1) /\ Len(x) = k + 1
    BY <2>5
  <2>9. Range(x) = JoinedBy(a, steps, k)
    <3>1. \A l \in 1..(k + 1) : l = 1 \/ (l - 1 \in 1..k /\ x[l] = steps[l - 1].right)
      <4>1. ASSUME NEW l \in 1..(k + 1), l # 1
            PROVE  l - 1 \in 1..k /\ x[l] = steps[l - 1].right
        <5>1. PICK m : m = l - 1
          OBVIOUS
        <5>2. m \in 1..k /\ m + 1 = l
          BY <4>1, <5>1
        <5> QED BY <2>5, <5>1, <5>2
      <4> QED BY <4>1
    <3>2. \A l \in 1..k : l + 1 \in 1..(k + 1) /\ x[l + 1] = steps[l].right
      BY <2>5
    <3>3. 1 \in 1..(k + 1) /\ x[1] = a
      BY <2>5
    <3>4. \A l \in 1..(k + 1) : x[l] \in JoinedBy(a, steps, k)
      BY <3>1, <3>3 DEF JoinedBy
    <3>5. \A d \in JoinedBy(a, steps, k) : \E l \in 1..(k + 1) : x[l] = d
      BY <3>2, <3>3 DEF JoinedBy
    <3> QED BY <2>8, <3>4, <3>5 DEF Range
  <2>10. PICK y \in A : y = Append(x, s.right)
    BY <2>5, <2>7, AppendProperties
  <2>11. /\ Len(y) = k + 2 /\ y[k + 2] = s.right /\ \A l \in 1..(k + 1) : y[l] = x[l]
    <3>1. x \in Seq(Names(a))
      BY <2>5
    <3>2. /\ Len(y) = Len(x) + 1 /\ y[Len(x) + 1] = s.right /\ \A l \in 1..Len(x) : y[l] = x[l]
      BY <2>7, <2>10, <3>1, AppendProperties
    <3> QED BY <2>8, <3>2
  <2>12. WithAlias(x, s.right) = y
    BY <2>7, <2>9, <2>10 DEF WithAlias
  <2>13. s.left \in Range(y)
    <3>1. DOMAIN y = 1..(k + 2)
      BY <2>11
    <3>2. PICK l \in 1..(k + 1) : x[l] = s.left
      BY <2>7, <2>8, <2>9 DEF Range
    <3> QED BY <2>11, <3>1, <3>2 DEF Range
  <2>14. Turned(x, s) = y
    BY <2>12, <2>13 DEF WithAlias
  <2>15. c[1..j] = y
    <3> HIDE DEF Turned
    <3> QED BY <1>12, <2>3, <2>4, <2>6, <2>14
  <2>16. y[1] = a /\ \A l \in 1..j : y[l + 1] = steps[l].right
    <3>1. 1 \in 1..(k + 1) /\ x[1] = a /\ \A l \in 1..k : l + 1 \in 1..(k + 1) /\ x[l + 1] = steps[l].right
      BY <2>5
    <3>2. \A l \in 1..j : l \in 1..k \/ (l = j /\ l + 1 = k + 2)
      BY <2>2
    <3> QED BY <2>6, <2>11, <3>1, <3>2
  <2> HIDE DEF A
  <2> QED BY <2>2, <2>11, <2>15, <2>16
<1>15. n \in Good
  <2> HIDE DEF Good
  <2> QED BY <1>1, <1>13, <1>14, SetInduction
<1>16. Right(c[1..n], n)
  BY <1>1, <1>15
<1> QED BY <1>1, <1>11, <1>16 DEF n

-----------------------------------------------------------------------------
(* The translation                                                         *)

EndsOf(rels, i) == {rels[i].from, rels[i].to}

\* No relationship leads out of C.
Within(rels, C) == \A i \in DOMAIN rels : EndsOf(rels, i) \cap C # {} => EndsOf(rels, i) \subseteq C

\* A query that is refused though it should be answered has a reason to be.
RefusedRightly(rels, q) ==
    /\ q.measures # <<>> /\ Range(q.order) \subseteq Required(q)
    /\ \A i \in DOMAIN rels : EndsOf(rels, i) \subseteq DatasetKeys
    => \E C : Within(rels, C) /\ q.measures[1] \in C /\ ~(Required(q) \subseteq C)

\* What is joined before the k-th join.
JoinedBefore(sel, k) == {sel.aliases[1]} \cup {sel.from[j].dataset : j \in 1..(k - 1)}

\* Each join adds a dataset along a relationship with one that was joined.
FromRight(rels, sel) ==
    /\ sel.from \in Seq(Range(sel.from)) /\ sel.aliases \in Seq(Range(sel.aliases))
    /\ Len(sel.aliases) = Len(sel.from) + 1
    /\ \A k \in 1..Len(sel.from) :
          /\ sel.aliases[k + 1] = sel.from[k].dataset
          /\ sel.from[k].by \in DOMAIN rels
          /\ sel.from[k].dataset \notin JoinedBefore(sel, k)
          /\ \E d \in JoinedBefore(sel, k) : EndsOf(rels, sel.from[k].by) = {d, sel.from[k].dataset}

\* What a compilation leaves: a refusal with its reason, or a selection whose
\* joins are right, whose aliases are of what it reads, the first the measure's.
SelectionRight(rels, q, sel) ==
    \/ sel.failed /\ RefusedRightly(rels, q)
    \/ /\ ~sel.failed /\ FromRight(rels, sel)
       /\ sel.reads \subseteq Range(sel.aliases)
       /\ q.measures # <<>> => sel.aliases[1] = q.measures[1]

SemanticTypeOK ==
    /\ relations \in Relationships /\ semantic \in SemanticQueries
    /\ links \in [DOMAIN relations -> [RowIds -> RowIds \cup {NoRow}]]

SelectionInvariant ==
    SemanticTypeOK /\ (select = NoKey \/ SelectionRight(relations, semantic, select))

\* The members of a query are of datasets of the model.
LEMMA RequiredAreKeys ==
    ASSUME NEW q \in SemanticQueries
    PROVE  /\ Required(q) \subseteq DatasetKeys
           /\ q.measures # <<>> => q.measures[1] \in Required(q)
           /\ \A member \in {"dimensions", "times", "measures"} : q[member] \in Seq(DatasetKeys)
<1>1. /\ q.dimensions \in Seq(DatasetKeys) /\ q.times \in Seq(DatasetKeys)
      /\ q.measures \in Seq(DatasetKeys) /\ q.segments \in Seq(DatasetKeys)
      /\ \A m \in Range(q.metrics) : m.of \subseteq DatasetKeys
      /\ \A f \in Range(q.filters) : f.of \subseteq DatasetKeys
  BY SemanticAssumption
<1>2. ASSUME NEW s \in Seq(DatasetKeys)
      PROVE  Range(s) \subseteq DatasetKeys /\ (s # <<>> => s[1] \in Range(s))
  BY DEF Range
<1>3. Range(q.dimensions) \cup Range(q.times) \cup Range(q.measures) \cup Range(q.segments)
        \subseteq DatasetKeys
  BY <1>1, <1>2
<1>4. (UNION {m.of : m \in Range(q.metrics)}) \cup (UNION {f.of : f \in Range(q.filters)}) \subseteq DatasetKeys
  <2>1. UNION {m.of : m \in Range(q.metrics)} \subseteq DatasetKeys
    BY <1>1
  <2>2. UNION {f.of : f \in Range(q.filters)} \subseteq DatasetKeys
    BY <1>1
  <2> QED BY <2>1, <2>2
<1>5. Required(q) \subseteq DatasetKeys
  BY <1>3, <1>4 DEF Required
<1>6. q.measures # <<>> => q.measures[1] \in Required(q)
  BY <1>1, <1>2 DEF Required
<1> QED BY <1>1, <1>5, <1>6

LEMMA RefusalIsRight ==
    ASSUME SemanticTypeOK,
           NEW base, base = ChooseBase(semantic),
           NEW plan, plan = JoinPlan(base, Required(semantic)),
           NEW aliases, aliases = AliasMap(base, plan.steps),
           \/ plan.failed \/ ~(Range(aliases) \subseteq DatasetKeys)
           \/ NothingSelected(semantic) \/ ~Orderable(semantic, aliases)
    PROVE  RefusedRightly(relations, semantic)
<1>1. PICK q \in SemanticQueries : q = semantic
  BY DEF SemanticTypeOK
<1>2. SUFFICES ASSUME q.measures # <<>>, Range(q.order) \subseteq Required(q),
                      \A i \in DOMAIN relations : Ends(i) \subseteq DatasetKeys
               PROVE  \E C : Closed(C) /\ q.measures[1] \in C /\ ~(Required(q) \subseteq C)
  BY <1>1 DEF RefusedRightly, Ends, EndsOf, Within, Closed
<1>3. /\ base = q.measures[1] /\ base \in DatasetKeys /\ base \in Required(q)
      /\ Required(q) \subseteq DatasetKeys /\ plan = JoinPlan(base, Required(q))
  BY <1>1, <1>2, RequiredAreKeys DEF ChooseBase
<1>4. RelationsTyped
  BY SemanticAssumption DEF RelationsTyped, SemanticTypeOK
<1>5. /\ plan \in Plans(base)
      /\ ~plan.failed => Required(q) \subseteq plan.joined
      /\ plan.failed => \E d \in Required(q) : d # base /\ ~FindPath(base, d).found
  BY <1>3, <1>4, JoinPlanRight
<1>6. CASE plan.failed
  <2>1. PICK d \in Required(q) : d # base /\ ~FindPath(base, d).found
    BY <1>5, <1>6
  <2>2. PICK C : Closed(C) /\ base \in C /\ d \notin C
    BY <1>2, <1>3, <1>4, <2>1, NotFoundIsApart
  <2> QED BY <1>3, <2>1, <2>2
<1>7. CASE ~plan.failed
  <2>1. PICK steps \in Seq(Steps(base)) : steps = plan.steps
    BY <1>5 DEF Plans, PlanRecords
  <2>2. PICK n \in Nat : n = Len(steps)
    OBVIOUS
  <2>3. StepsSound(base, steps) /\ plan.joined = JoinedBy(base, steps, n)
    BY <1>5, <2>1, <2>2 DEF Plans
  <2>4. /\ aliases \in Seq(Names(base)) /\ Len(aliases) = n + 1 /\ aliases[1] = base
        /\ \A k \in 1..n : aliases[k + 1] = steps[k].right
    BY <2>1, <2>2, <2>3, AliasesFollowSteps
  <2>5. DOMAIN aliases = 1..(n + 1) /\ \A k \in 1..n : k + 1 \in 1..(n + 1)
    BY <2>4
  <2>6. plan.joined \subseteq Range(aliases)
    <3>1. base \in Range(aliases)
      <4>1. 1 \in 1..(n + 1)
        OBVIOUS
      <4> QED BY <2>4, <2>5, <4>1 DEF Range
    <3>2. ASSUME NEW k \in 1..n PROVE steps[k].right \in Range(aliases)
      BY <2>4, <2>5 DEF Range
    <3> QED BY <2>3, <3>1, <3>2 DEF JoinedBy
  <2>7. Range(aliases) \subseteq DatasetKeys
    <3>1. Names(base) \subseteq DatasetKeys
      BY <1>2, <1>3 DEF Names
    <3> QED BY <2>4, <2>5, <3>1 DEF Range
  <2>8. Orderable(q, aliases)
    BY <1>2, <1>5, <1>7, <2>6 DEF Orderable
  <2>9. ~NothingSelected(q)
    <3>1. PICK x \in Seq(DatasetKeys) : x = q.dimensions \o q.times
      BY RequiredAreKeys, ConcatProperties
    <3>2. PICK y \in Seq(DatasetKeys) : y = q.measures
      BY RequiredAreKeys
    <3>3. x \o y # <<>>
      BY <1>2, <3>2, ConcatEqualIffEmpty
    <3> QED BY <3>1, <3>2, <3>3 DEF NothingSelected
  <2> QED BY <1>1, <1>7, <2>7, <2>8, <2>9
<1> QED BY <1>6, <1>7

LEMMA TranslationIsRight ==
    ASSUME SemanticTypeOK
    PROVE  SelectionRight(relations, semantic, Translate(semantic))
<1>1. PICK q \in SemanticQueries : q = semantic
  BY DEF SemanticTypeOK
<1>2. PICK base : base = ChooseBase(q)
  OBVIOUS
<1>3. PICK plan : plan = JoinPlan(base, Required(q))
  OBVIOUS
<1>4. PICK aliases : aliases = AliasMap(base, plan.steps)
  OBVIOUS
<1>5. CASE \/ plan.failed \/ ~(Range(aliases) \subseteq DatasetKeys)
           \/ NothingSelected(q) \/ ~Orderable(q, aliases)
  <2>1. Translate(q) = [failed |-> TRUE]
    BY <1>2, <1>3, <1>4, <1>5 DEF Translate
  <2>2. RefusedRightly(relations, semantic)
    BY <1>1, <1>2, <1>3, <1>4, <1>5, RefusalIsRight
  <2> QED BY <1>1, <2>1, <2>2 DEF SelectionRight
<1>6. CASE ~(\/ plan.failed \/ ~(Range(aliases) \subseteq DatasetKeys)
             \/ NothingSelected(q) \/ ~Orderable(q, aliases))
  <2>1. PICK sel : sel = Translate(q)
    OBVIOUS
  <2>2. /\ sel.failed = FALSE /\ sel.aliases = aliases /\ sel.from = JoinsOf(plan.steps)
        /\ sel.reads = Required(q) \cup Range(q.order)
    BY <1>2, <1>3, <1>4, <1>6, <2>1 DEF Translate
  <2>3. RelationsTyped
    BY SemanticAssumption DEF RelationsTyped, SemanticTypeOK
  <2>4. plan \in Plans(base) /\ Required(q) \subseteq plan.joined
    BY <1>3, <1>6, <2>3, JoinPlanRight, RequiredAreKeys
  <2>5. PICK steps \in Seq(Steps(base)) : steps = plan.steps
    BY <2>4 DEF Plans, PlanRecords
  <2>6. PICK n \in Nat : n = Len(steps)
    OBVIOUS
  <2>7. StepsSound(base, steps) /\ plan.joined = JoinedBy(base, steps, n)
    BY <2>4, <2>5, <2>6 DEF Plans
  <2>8. /\ aliases \in Seq(Names(base)) /\ Len(aliases) = n + 1 /\ aliases[1] = base
        /\ \A k \in 1..n : aliases[k + 1] = steps[k].right
    BY <1>4, <2>5, <2>6, <2>7, AliasesFollowSteps
  <2>9. DOMAIN aliases = 1..(n + 1) /\ \A k \in 1..n : k + 1 \in 1..(n + 1)
    BY <2>8
  <2>10. plan.joined \subseteq Range(aliases)
    <3>1. base \in Range(aliases)
      <4>1. 1 \in 1..(n + 1)
        OBVIOUS
      <4> QED BY <2>8, <2>9, <4>1 DEF Range
    <3>2. ASSUME NEW k \in 1..n PROVE steps[k].right \in Range(aliases)
      BY <2>8, <2>9 DEF Range
    <3> QED BY <2>7, <3>1, <3>2 DEF JoinedBy
  <2>11. sel.reads \subseteq Range(sel.aliases)
    BY <1>6, <2>2, <2>4, <2>10 DEF Orderable
  <2>12. PICK from : from = JoinsOf(steps)
    OBVIOUS
  <2>13. /\ DOMAIN from = 1..n /\ DOMAIN steps = 1..n
         /\ \A k \in 1..n : from[k].by = steps[k].by /\ from[k].dataset = steps[k].right
    <3>1. DOMAIN steps = 1..n
      BY <2>6
    <3> QED BY <2>12, <3>1 DEF JoinsOf
  <2>14. from \in Seq(Range(from)) /\ Len(from) = n
    <3>1. from = [k \in 1..n |-> from[k]]
      BY <2>12, <2>13 DEF JoinsOf
    <3>2. from \in [1..n -> Range(from)]
      BY <2>13, <3>1 DEF Range
    <3> QED BY <3>2
  <2>15. aliases \in Seq(Range(aliases))
    <3>1. aliases \in [1..(n + 1) -> Range(aliases)]
      BY <2>8, <2>9 DEF Range
    <3> QED BY <3>1
  <2>16. ASSUME NEW k \in 1..n
         PROVE  /\ from[k].by \in DOMAIN relations
                /\ from[k].dataset \notin JoinedBefore(sel, k)
                /\ \E d \in JoinedBefore(sel, k) : EndsOf(relations, from[k].by) = {d, from[k].dataset}
    <3>1. JoinedBefore(sel, k) = JoinedBy(base, steps, k - 1)
      <4>1. \A j \in 1..(k - 1) : from[j].dataset = steps[j].right
        BY <2>13
      <4>2. {from[j].dataset : j \in 1..(k - 1)} = {steps[j].right : j \in 1..(k - 1)}
        BY <4>1
      <4> QED BY <2>2, <2>5, <2>8, <2>12, <4>2 DEF JoinedBefore, JoinedBy
    <3>2. PICK s \in Steps(base) : s = steps[k]
      BY <2>6
    <3>3. s.by \in DOMAIN relations
      BY DEF Steps
    <3>4. Ends(s.by) = {s.left, s.right} /\ s.left \in JoinedBy(base, steps, k - 1)
          /\ s.right \notin JoinedBy(base, steps, k - 1)
      BY <2>6, <2>7, <3>2 DEF StepsSound
    <3>5. from[k].by = s.by /\ from[k].dataset = s.right
      BY <2>13, <3>2
    <3> QED BY <3>1, <3>3, <3>4, <3>5 DEF Ends, EndsOf
  <2>17. FromRight(relations, sel)
    <3>1. sel.from = from /\ sel.aliases = aliases
      BY <2>2, <2>5, <2>12
    <3>2. \A k \in 1..n : sel.aliases[k + 1] = sel.from[k].dataset
      BY <2>8, <2>13, <3>1
    <3>3. Len(sel.from) = n /\ Len(sel.aliases) = n + 1
      BY <2>8, <2>14, <3>1
    <3>4. sel.from \in Seq(Range(sel.from)) /\ sel.aliases \in Seq(Range(sel.aliases))
      BY <2>14, <2>15, <3>1
    <3>5. \A k \in 1..n :
             /\ sel.from[k].by \in DOMAIN relations
             /\ sel.from[k].dataset \notin JoinedBefore(sel, k)
             /\ \E d \in JoinedBefore(sel, k) : EndsOf(relations, sel.from[k].by) = {d, sel.from[k].dataset}
      BY <2>16, <3>1
    <3> QED BY <3>2, <3>3, <3>4, <3>5 DEF FromRight
  <2>18. q.measures # <<>> => sel.aliases[1] = q.measures[1]
    BY <1>2, <2>2, <2>8 DEF ChooseBase
  <2> QED BY <1>1, <2>1, <2>2, <2>11, <2>17, <2>18 DEF SelectionRight
<1> QED BY <1>5, <1>6

\* What is selected is as SelectionInvariant says: CompileSemantic does what translate does.
LEMMA SelectionIsRight == SemanticSpec => []SelectionInvariant
<1>1. SemanticInit => SelectionInvariant
  BY DEF SemanticInit, SelectionInvariant, SemanticTypeOK
<1>2. SelectionInvariant /\ [SemanticNext]_semanticVars => SelectionInvariant'
  <2>1. ASSUME SelectionInvariant, CompileSemantic PROVE SelectionInvariant'
    <3>1. SemanticTypeOK'
      BY <2>1 DEF SelectionInvariant, SemanticTypeOK, CompileSemantic
    <3>2. SelectionRight(relations, semantic, Translate(semantic))
      BY <2>1, TranslationIsRight DEF SelectionInvariant
    <3>3. /\ relations' = relations /\ semantic' = semantic /\ select' = Translate(semantic)
      BY <2>1 DEF CompileSemantic
    <3>4. SelectionRight(relations', semantic', select')
      BY <3>2, <3>3
    <3> QED BY <3>1, <3>4 DEF SelectionInvariant
  <2>2. ASSUME SelectionInvariant, UNCHANGED semanticVars PROVE SelectionInvariant'
    BY <2>2 DEF SelectionInvariant, SemanticTypeOK, semanticVars
  <2> QED BY <2>1, <2>2 DEF SemanticNext
<1> QED BY <1>1, <1>2, PTL DEF SemanticSpec

LEMMA SoundWhenRight == SelectionInvariant => SelectSound
<1> SUFFICES ASSUME SelectionInvariant PROVE SelectSound
  OBVIOUS
<1>1. CASE select = NoKey
  BY <1>1 DEF SelectSound, Compiled
<1>2. CASE select # NoKey /\ select.failed
  <2>1. RefusedRightly(relations, semantic)
    BY <1>2 DEF SelectionInvariant, SelectionRight
  <2>2. SUFFICES ASSUME semantic.measures # <<>>,
                        \A i \in DOMAIN relations : Ends(i) \subseteq DatasetKeys,
                        Range(semantic.order) \subseteq Required(semantic),
                        \A d \in Required(semantic) : Connected(semantic.measures[1], d)
                 PROVE  FALSE
    BY <1>2 DEF SelectSound, Compiled
  <2>3. PICK C : Closed(C) /\ semantic.measures[1] \in C /\ ~(Required(semantic) \subseteq C)
    BY <2>1, <2>2 DEF RefusedRightly, Within, Closed, Ends, EndsOf
  <2>4. PICK d \in Required(semantic) : d \notin C
    BY <2>3
  <2>5. PICK m : m = semantic.measures[1]
    OBVIOUS
  <2>6. Connected(m, d) /\ m \in C
    BY <2>2, <2>3, <2>5
  <2> QED BY <2>3, <2>4, <2>6, ConnectedWithin
<1>3. CASE select # NoKey /\ ~select.failed
  <2>2. FromRight(relations, select) /\ select.reads \subseteq Range(select.aliases)
    BY <1>3 DEF SelectionInvariant, SelectionRight
  <2> DEFINE from == select.from
             aliases == select.aliases
  <2>3. from \in Seq(Range(from)) /\ aliases \in Seq(Range(aliases))
    BY <2>2 DEF FromRight
  <2>4. PICK n \in Nat : n = Len(from)
    BY <2>3
  <2>5. DOMAIN from = 1..n /\ DOMAIN aliases = 1..(n + 1) /\ Len(aliases) = n + 1
    BY <2>2, <2>3, <2>4 DEF FromRight
  <2>6. \A k \in 1..n :
           /\ aliases[k + 1] = from[k].dataset
           /\ from[k].dataset \notin {aliases[1]} \cup {from[j].dataset : j \in 1..(k - 1)}
           /\ \E d \in {aliases[1]} \cup {from[j].dataset : j \in 1..(k - 1)} :
                 Ends(from[k].by) = {d, from[k].dataset}
    BY <2>2, <2>4 DEF FromRight, JoinedBefore, Ends, EndsOf
  <2> HIDE DEF from, aliases
  <2>7. ASSUME NEW k \in 1..(n + 1), NEW l \in 1..(n + 1), aliases[k] = aliases[l], k < l
        PROVE  FALSE
    <3>1. PICK m \in 1..n : m + 1 = l
      <4>1. l - 1 \in 1..n /\ (l - 1) + 1 = l
        BY <2>7
      <4> QED BY <4>1
    <3>2. CASE k = 1
      BY <2>6, <2>7, <3>1, <3>2
    <3>3. CASE k # 1
      <4>1. PICK j \in 1..(m - 1) : j + 1 = k
        <5>1. k - 1 \in 1..(m - 1) /\ (k - 1) + 1 = k
          BY <2>7, <3>1, <3>3
        <5> QED BY <5>1
      <4>2. j \in 1..n /\ aliases[k] = from[j].dataset /\ aliases[l] = from[m].dataset
        <5>1. j \in 1..n /\ aliases[j + 1] = from[j].dataset /\ aliases[m + 1] = from[m].dataset
          BY <2>6
        <5> QED BY <3>1, <4>1, <5>1
      <4>3. from[m].dataset \in {from[i].dataset : i \in 1..(m - 1)}
        BY <2>7, <4>2
      <4> QED BY <2>6, <4>3
    <3> QED BY <3>2, <3>3
  <2>8. IsInjective(aliases)
    <3>1. ASSUME NEW k \in 1..(n + 1), NEW l \in 1..(n + 1), aliases[k] = aliases[l] PROVE k = l
      <4>1. ~(k < l) /\ ~(l < k)
        BY <2>7, <3>1
      <4> QED BY <4>1
    <3> QED BY <2>5, <3>1 DEF IsInjective
  <2>9. ASSUME NEW i \in 1..n
        PROVE  Ends(from[i].by) \subseteq {aliases[1]} \cup {from[j].dataset : j \in 1..i}
    <3>1. PICK d \in {aliases[1]} \cup {from[j].dataset : j \in 1..(i - 1)} :
             Ends(from[i].by) = {d, from[i].dataset}
      BY <2>6
    <3>2. 1..(i - 1) \subseteq 1..i /\ i \in 1..i
      OBVIOUS
    <3>3. d \in {aliases[1]} \cup {from[j].dataset : j \in 1..i}
      BY <3>1, <3>2
    <3> QED BY <3>1, <3>2, <3>3
  <2>10. ~(select = NoKey) /\ Compiled
    BY <1>3 DEF Compiled
  <2>11. /\ IsInjective(select.aliases) /\ Len(select.aliases) = Len(select.from) + 1
         /\ select.reads \subseteq Range(select.aliases)
         /\ \A i \in DOMAIN select.from :
               Ends(select.from[i].by)
                 \subseteq {select.aliases[1]} \cup {select.from[j].dataset : j \in 1..i}
    <3>1. IsInjective(aliases) /\ Len(aliases) = Len(from) + 1
      BY <2>4, <2>5, <2>8
    <3>2. DOMAIN from = 1..n
      BY <2>5
    <3>3. \A i \in DOMAIN from :
             Ends(from[i].by) \subseteq {aliases[1]} \cup {from[j].dataset : j \in 1..i}
      BY <2>9, <3>2
    <3> QED BY <2>2, <3>1, <3>3 DEF from, aliases
  <2> QED BY <2>10, <2>11 DEF SelectSound
<1> QED BY <1>1, <1>2, <1>3

\* A selection is well formed, and refused only for what the model leaves apart.
THEOREM SelectionsAreSound == SemanticSpec => []SelectSound
  BY SelectionIsRight, SoundWhenRight, PTL

-----------------------------------------------------------------------------
(* The rows of the FROM clause                                             *)

Cells     == RowIds \cup {NoRow}
Rows(D)   == [D -> Cells]

\* rows are of the datasets of D, one of them for each row of b.
OneEach(rows, D, b) ==
    /\ rows \subseteq Rows(D)
    /\ \A x \in RowIds : \E r \in rows : r[b] = x
    /\ \A r, s \in rows : r[b] = s[b] => r = s

\* A row extended by the join.
Extended(r, join) ==
    LET matched == {c \in {Combine(r, join.dataset, x) : x \in RowIds} : RowsMatch(join.by, c)}
    IN  IF matched = {} /\ join.type = "left" THEN {Combine(r, join.dataset, NoRow)} ELSE matched

LEMMA CombinedRow ==
    ASSUME NEW D, NEW r \in Rows(D), NEW d, NEW v \in Cells
    PROVE  Combine(r, d, v) \in Rows(D \cup {d})
<1>1. DOMAIN r = D /\ \A e \in D : r[e] \in Cells
  BY DEF Rows
<1>2. Combine(r, d, v) = [e \in D \cup {d} |-> IF e = d THEN v ELSE r[e]]
  BY <1>1 DEF Combine
<1> QED BY <1>1, <1>2 DEF Rows

\* From the many to the one side a row finds one row, or none and is kept with NULLs.
LEMMA ExtendedOnce ==
    ASSUME SemanticTypeOK, NEW D, NEW r \in Rows(D), NEW join, join.by \in DOMAIN relations,
           join.dataset \notin D, NEW d \in D, Ends(join.by) = {d, join.dataset},
           OneSide(join.by) = join.dataset, join.type = "left"
    PROVE  \E v \in Cells : Extended(r, join) = {Combine(r, join.dataset, v)}
<1> DEFINE e == join.dataset
           i == join.by
           matched == {c \in {Combine(r, e, x) : x \in RowIds} : RowsMatch(i, c)}
<1>1. ManySide(i) = d /\ d # e
  BY DEF ManySide, OneSide, Ends
<1>2. links[i] \in [RowIds -> Cells] /\ NoRow \notin RowIds /\ r[d] \in Cells
  BY SemanticAssumption DEF SemanticTypeOK, Cells, Rows
<1>3. ASSUME NEW x \in RowIds
      PROVE  RowsMatch(i, Combine(r, e, x)) <=> r[d] # NoRow /\ links[i][r[d]] = x
  <2>1. Combine(r, e, x)[e] = x /\ Combine(r, e, x)[d] = r[d]
    <3>1. x \in Cells /\ e \notin D
      BY DEF Cells
    <3> HIDE DEF e
    <3>2. /\ Combine(r, e, x)[e] = x
          /\ \A z \in D : Combine(r, e, x)[z] = r[z]
      <4>1. DOMAIN r = D /\ Combine(r, e, x) = [z \in D \cup {e} |-> IF z = e THEN x ELSE r[z]]
        BY DEF Rows, Combine
      <4> QED BY <3>1, <4>1
    <3> QED BY <3>2
  <2> QED BY <1>1, <1>2, <2>1 DEF RowsMatch
<1>4. CASE r[d] # NoRow /\ links[i][r[d]] # NoRow
  <2>1. PICK y \in RowIds : y = links[i][r[d]]
    BY <1>2, <1>4 DEF Cells
  <2>2. Combine(r, e, y) \in matched
    BY <1>3, <1>4, <2>1
  <2>3. \A c \in matched : c = Combine(r, e, y)
    BY <1>3, <1>4, <2>1
  <2>4. matched = {Combine(r, e, y)}
    <3> HIDE DEF matched
    <3> QED BY <2>2, <2>3
  <2>5. Extended(r, join) = matched
    BY <2>2 DEF Extended
  <2> QED BY <2>1, <2>4, <2>5 DEF Cells
<1>5. CASE r[d] = NoRow \/ links[i][r[d]] = NoRow
  <2>1. matched = {}
    <3>1. \A x \in RowIds : ~RowsMatch(i, Combine(r, e, x))
      BY <1>2, <1>3, <1>5
    <3> QED BY <3>1
  <2>2. Extended(r, join) = {Combine(r, e, NoRow)}
    BY <2>1 DEF Extended
  <2> QED BY <2>2 DEF Cells
<1> QED BY <1>4, <1>5

LEMMA JoinKeepsOneEach ==
    ASSUME SemanticTypeOK, NEW D, NEW b \in D, NEW rows, OneEach(rows, D, b),
           NEW join, join.by \in DOMAIN relations, join.dataset \notin D,
           NEW d \in D, Ends(join.by) = {d, join.dataset},
           OneSide(join.by) = join.dataset, join.type = "left"
    PROVE  OneEach(JoinRows(rows, join), D \cup {join.dataset}, b)
<1> DEFINE e == join.dataset
<1>1. JoinRows(rows, join) = UNION {Extended(r, join) : r \in rows}
  BY DEF JoinRows, Extended
<1>2. rows \subseteq Rows(D)
  BY DEF OneEach
<1>3. ASSUME NEW r \in rows
      PROVE  \E v \in Cells : Extended(r, join) = {Combine(r, e, v)}
  BY <1>2, ExtendedOnce
<1>4. ASSUME NEW r \in rows, NEW c \in Extended(r, join)
      PROVE  c \in Rows(D \cup {e}) /\ c[b] = r[b]
  <2>1. PICK v \in Cells : Extended(r, join) = {Combine(r, e, v)}
    BY <1>3
  <2>2. r \in Rows(D) /\ e \notin D /\ c = Combine(r, e, v)
    BY <1>2, <1>4, <2>1
  <2> HIDE DEF e
  <2>3. /\ Combine(r, e, v) \in Rows(D \cup {e})
        /\ \A z \in D : Combine(r, e, v)[z] = r[z]
    <3>1. PICK g : g = e
      OBVIOUS
    <3>2. Combine(r, g, v) \in Rows(D \cup {g})
      BY <2>2, <3>1, CombinedRow
    <3>3. \A z \in D : Combine(r, g, v)[z] = r[z]
      <4>1. DOMAIN r = D /\ Combine(r, g, v) = [z \in D \cup {g} |-> IF z = g THEN v ELSE r[z]]
        BY <2>2 DEF Rows, Combine
      <4> QED BY <2>2, <3>1, <4>1
    <3> QED BY <3>1, <3>2, <3>3
  <2> QED BY <2>2, <2>3
<1>5. PICK all : all = JoinRows(rows, join)
  OBVIOUS
<1>6. \A c \in all : \E r \in rows : c \in Extended(r, join)
  BY <1>1, <1>5
<1>7. \A r \in rows : Extended(r, join) \subseteq all
  BY <1>1, <1>5
<1>8. all \subseteq Rows(D \cup {e})
  BY <1>4, <1>6
<1>9. ASSUME NEW x \in RowIds
      PROVE  \E c \in all : c[b] = x
  <2>1. PICK r \in rows : r[b] = x
    BY DEF OneEach
  <2>2. PICK c : c \in Extended(r, join)
    BY <1>3
  <2> QED BY <1>4, <1>7, <2>1, <2>2
<1>10. ASSUME NEW c \in all, NEW s \in all, c[b] = s[b]
       PROVE  c = s
  <2>1. PICK r \in rows : c \in Extended(r, join)
    BY <1>6
  <2>2. PICK q \in rows : s \in Extended(q, join)
    BY <1>6
  <2>3. r = q
    BY <1>4, <1>10, <2>1, <2>2 DEF OneEach
  <2> QED BY <1>3, <2>1, <2>2, <2>3
<1> QED BY <1>5, <1>8, <1>9, <1>10 DEF OneEach

LEMMA OneEachFrom ==
    ASSUME SemanticTypeOK, NEW sel, FromRight(relations, sel),
           \A k \in DOMAIN sel.from : OneSide(sel.from[k].by) = sel.from[k].dataset
                                      /\ sel.from[k].type = "left"
    PROVE  \E D : /\ sel.aliases[1] \in D
                  /\ OneEach(FoldLeft(JoinRows, {[d \in {sel.aliases[1]} |-> x] : x \in RowIds}, sel.from),
                             D, sel.aliases[1])
<1> DEFINE from == sel.from
           b == sel.aliases[1]
           n == Len(from)
           N == {b} \cup {from[k].dataset : k \in 1..n}
           A == SUBSET UNION {Rows(D) : D \in SUBSET N}
           base == {[d \in {b} |-> x] : x \in RowIds}
           G == [p \in (1..n) \X A |-> JoinRows(p[2], from[p[1]])]
           Eq(it) == it = [t \in SUBSET DOMAIN from |->
                           IF t = {} THEN base ELSE JoinRows(it[t \ {Max(t)}], from[Max(t)])]
           c == CHOOSE it : Eq(it)
<1>1. n \in Nat /\ DOMAIN from = 1..n
  BY DEF FromRight
<1>2. ASSUME NEW k \in 1..n
      PROVE  /\ from[k].by \in DOMAIN relations
             /\ from[k].dataset \notin JoinedBefore(sel, k)
             /\ OneSide(from[k].by) = from[k].dataset /\ from[k].type = "left"
             /\ \E d \in JoinedBefore(sel, k) : Ends(from[k].by) = {d, from[k].dataset}
  BY <1>1 DEF FromRight, Ends, EndsOf
<1> HIDE DEF n
<1>3. base \in A /\ OneEach(base, {b}, b)
  <2>1. base \subseteq Rows({b})
    BY DEF Rows, Cells
  <2>2. {b} \in SUBSET N
    OBVIOUS
  <2>3. \A x \in RowIds : \E r \in base : r[b] = x
    <3>1. ASSUME NEW x \in RowIds PROVE \E r \in base : r[b] = x
      <4>1. [d \in {b} |-> x] \in base /\ [d \in {b} |-> x][b] = x
        OBVIOUS
      <4> QED BY <4>1
    <3> QED BY <3>1
  <2>4. \A r, s \in base : r[b] = s[b] => r = s
    OBVIOUS
  <2> QED BY <2>1, <2>2, <2>3, <2>4 DEF OneEach
<1>4. ASSUME NEW rows \in A, NEW k \in 1..n
      PROVE  JoinRows(rows, from[k]) \in A
  <2>1. ASSUME NEW row \in JoinRows(rows, from[k])
        PROVE  row \in UNION {Rows(D) : D \in SUBSET N}
    <3>1. PICK r \in rows, v \in Cells : row = Combine(r, from[k].dataset, v)
      BY <2>1 DEF JoinRows, Cells
    <3>2. PICK D \in SUBSET N : r \in Rows(D)
      BY <3>1
    <3>3. Combine(r, from[k].dataset, v) \in Rows(D \cup {from[k].dataset})
      BY <3>2 DEF Combine, Rows
    <3>4. D \cup {from[k].dataset} \in SUBSET N
      BY <3>2
    <3> QED BY <3>1, <3>3, <3>4
  <2> QED BY <2>1
<1>5. G \in [(1..n) \X A -> A]
  <2> HIDE DEF A, from
  <2> QED BY <1>4
<1>6. PICK it : IsFoldTable(it, A, base, n, G)
  <2> HIDE DEF G, A, base
  <2> QED BY <1>1, <1>3, <1>5, FoldTableExists, Zenon
<1> HIDE DEF base
<1>7. ASSUME NEW t \in SUBSET (1..n), t # {}
      PROVE  it[t] = JoinRows(it[t \ {Max(t)}], from[Max(t)])
  <2>1. PICK top : top = Max(t)
    OBVIOUS
  <2>2. top \in 1..n
    BY <1>1, <1>7, <2>1, GreatestUpTo
  <2>3. it[t \ {top}] \in A /\ it[t] = G[<<top, it[t \ {top}]>>]
    <3> HIDE DEF G, A
    <3> QED BY <1>6, <1>7, <2>1 DEF IsFoldTable
  <2> HIDE DEF A, from
  <2> QED BY <2>1, <2>2, <2>3
<1>8. it \in [SUBSET (1..n) -> A] /\ it[{}] = base
  BY <1>6 DEF IsFoldTable
<1>9. Eq(it)
  <2> HIDE DEF A, from
  <2> QED BY <1>1, <1>7, <1>8
<1>10. Eq(c)
  <2> HIDE DEF Eq
  <2> QED BY <1>9, Zenon
<1>11. FoldLeft(JoinRows, base, from) = c[DOMAIN from]
  BY Zenon DEF FoldLeft, MapThenFoldSet
<1> HIDE DEF c
<1>12. c[{}] = base /\ \A k \in 1..n : c[1..k] = JoinRows(c[1..(k - 1)], from[k])
  <2> HIDE DEF from
  <2>1. \A t \in SUBSET (1..n) : c[t] = IF t = {} THEN base ELSE JoinRows(c[t \ {Max(t)}], from[Max(t)])
    BY <1>1, <1>10
  <2>2. ASSUME NEW k \in 1..n
        PROVE  c[1..k] = JoinRows(c[1..(k - 1)], from[k])
    <3>1. Max(1..k) = k /\ (1..k) \ {k} = 1..(k - 1) /\ 1..k # {}
      <4>1. k \in Nat /\ k # 0
        BY <1>1
      <4> QED BY <4>1, LastOfInterval
    <3>2. 1..k \in SUBSET (1..n)
      BY <1>1
    <3> QED BY <2>1, <3>1, <3>2
  <2> QED BY <2>1, <2>2
<1> DEFINE Good == {k \in Nat : k <= n => OneEach(c[1..k], JoinedBefore(sel, k + 1), b)}
<1>13. 0 \in Good
  <2>1. 1..0 = {} /\ 1..((0 + 1) - 1) = {}
    OBVIOUS
  <2>2. JoinedBefore(sel, 0 + 1) = {b}
    BY <2>1 DEF JoinedBefore
  <2> QED BY <1>3, <1>12, <2>1, <2>2
<1>14. ASSUME NEW k \in Nat, k \in Good
       PROVE  k + 1 \in Good
  <2>1. SUFFICES ASSUME k + 1 <= n
                 PROVE  OneEach(c[1..(k + 1)], JoinedBefore(sel, (k + 1) + 1), b)
    OBVIOUS
  <2>2. PICK j : j = k + 1
    OBVIOUS
  <2>3. j \in 1..n /\ j - 1 = k /\ k <= n
    BY <1>1, <2>1, <2>2
  <2>4. PICK rows : rows = c[1..k]
    OBVIOUS
  <2>5. PICK D : D = JoinedBefore(sel, j)
    OBVIOUS
  <2>6. OneEach(rows, D, b) /\ b \in D
    <3>1. OneEach(rows, D, b)
      BY <1>14, <2>2, <2>3, <2>4, <2>5
    <3>2. b \in D
      BY <2>5 DEF JoinedBefore
    <3> QED BY <3>1, <3>2
  <2>7. PICK join : join = from[j]
    OBVIOUS
  <2>8. /\ join.by \in DOMAIN relations /\ join.dataset \notin D
        /\ OneSide(join.by) = join.dataset /\ join.type = "left"
        /\ \E d \in D : Ends(join.by) = {d, join.dataset}
    BY <1>2, <2>3, <2>5, <2>7
  <2>9. OneEach(JoinRows(rows, join), D \cup {join.dataset}, b)
    BY <2>6, <2>8, JoinKeepsOneEach
  <2>10. c[1..j] = JoinRows(rows, join)
    BY <1>12, <2>3, <2>4, <2>7
  <2>11. JoinedBefore(sel, j + 1) = D \cup {join.dataset}
    <3>1. 1..((j + 1) - 1) = (1..(j - 1)) \cup {j}
      BY <2>3
    <3>2. {from[l].dataset : l \in 1..((j + 1) - 1)} = {from[l].dataset : l \in 1..(j - 1)} \cup {from[j].dataset}
      BY <3>1
    <3> QED BY <2>5, <2>7, <3>2 DEF JoinedBefore
  <2> QED BY <2>2, <2>9, <2>10, <2>11
<1>15. n \in Good
  <2> HIDE DEF Good
  <2> QED BY <1>1, <1>13, <1>14, SetInduction
<1>16. OneEach(c[1..n], JoinedBefore(sel, n + 1), b) /\ b \in JoinedBefore(sel, n + 1)
  BY <1>1, <1>15 DEF JoinedBefore
<1> QED BY <1>1, <1>11, <1>16 DEF base

LEMMA CountedWhenRight == SelectionInvariant => CountsOnce
<1> SUFFICES ASSUME SelectionInvariant, Compiled, semantic.measures # <<>>,
                    \A i \in DOMAIN select.from : OneSide(select.from[i].by) = select.from[i].dataset
                                                  /\ select.from[i].type = "left",
                    NEW x \in RowIds
             PROVE  Cardinality({c \in FromRows : semantic.measures[1] \in DOMAIN c
                                                  /\ c[semantic.measures[1]] = x}) = 1
  BY DEF CountsOnce
<1>1. PICK sel : sel = select
  OBVIOUS
<1>2. FromRight(relations, sel) /\ sel.aliases[1] = semantic.measures[1] /\ SemanticTypeOK
  BY <1>1 DEF SelectionInvariant, SelectionRight, Compiled
<1>3. PICK b : b = semantic.measures[1]
  OBVIOUS
<1>4. PICK all : all = FromRows
  OBVIOUS
<1>5. \A k \in DOMAIN sel.from : OneSide(sel.from[k].by) = sel.from[k].dataset
                                 /\ sel.from[k].type = "left"
  BY <1>1
<1>6. PICK D : b \in D /\ OneEach(all, D, b)
  <2>1. FromRows = FoldLeft(JoinRows, {[d \in {sel.aliases[1]} |-> y] : y \in RowIds}, sel.from)
    BY <1>1 DEF FromRows
  <2> QED BY <1>2, <1>3, <1>4, <1>5, <2>1, OneEachFrom
<1>7. PICK r \in all : r[b] = x
  BY <1>6 DEF OneEach
<1>8. \A c \in all : DOMAIN c = D
  BY <1>6 DEF OneEach, Rows
<1>9. {c \in all : b \in DOMAIN c /\ c[b] = x} = {r}
  BY <1>6, <1>7, <1>8 DEF OneEach
<1>10. Cardinality({r}) = 1
  BY FS_Singleton
<1> QED BY <1>3, <1>4, <1>9, <1>10

\* No join of a selection multiplies or loses a row of the measure's dataset.
THEOREM MeasuresCountOnce == SemanticSpec => []CountsOnce
  BY SelectionIsRight, CountedWhenRight, PTL
=============================================================================
