------------------------------ MODULE RowMerge ------------------------------
(***************************************************************************)
(* The rows of a synced dataset's parquet file under a sequence of syncs:  *)
(* _merge_rows on lists of rows, with rows that have no identity and rows  *)
(* that one sync reads twice.  It justifies the view of module             *)
(* DatasetSync, where the file is a function from identity to version.     *)
(***************************************************************************)
EXTENDS Naturals, Sequences, SequencesExt

CONSTANTS
    RawIds,         \* values of the primary key column
    IdentityOf,     \* what str(value) makes of them; NoIdentity for None and blanks
    NoIdentity,
    RowVersions,    \* versions of a row
    HasPrimaryKey,  \* the resource has a primary key
    MaxBatch,       \* bound: rows one sync reads
    MaxRows         \* bound: rows of the file before a sync

SyncedRows == [id : RawIds, version : RowVersions]
Identities == {IdentityOf[v] : v \in RawIds} \ {NoIdentity}

ASSUME VersionsAssumption == RowVersions \subseteq Nat \ {0}
ASSUME KeyAssumption      == HasPrimaryKey \in BOOLEAN
ASSUME MergeBounds        == MaxBatch \in Nat /\ MaxRows \in Nat

VARIABLES
    keptRows, \* the rows of the parquet file, in order
    batch,    \* the rows of the last sync
    wasFull   \* the last sync was a full refresh

mergeVars == <<keptRows, batch, wasFull>>

MergeTypeOK == keptRows \in Seq(SyncedRows) /\ batch \in Seq(SyncedRows) /\ wasFull \in BOOLEAN

MergeInit == keptRows = <<>> /\ batch = <<>> /\ wasFull = TRUE

-----------------------------------------------------------------------------
(* The algorithm                                                           *)

\* _row_identity
RowIdentity(row) == IdentityOf[row.id]

HasIdentity(row) == RowIdentity(row) # NoIdentity

\* Mutant of PutRow: the row in the dict wins.
PutRowExistingWins(merged, row) ==
    IF \E k \in DOMAIN merged : RowIdentity(merged[k]) = RowIdentity(row)
    THEN merged ELSE Append(merged, row)

\* merged[key] = row: a dict keeps the place where a key was first inserted.
PutRow(merged, row) ==
    LET same == {k \in DOMAIN merged : RowIdentity(merged[k]) = RowIdentity(row)} IN
    IF same = {} THEN Append(merged, row)
    ELSE [k \in DOMAIN merged |-> IF k \in same THEN row ELSE merged[k]]

\* One turn of its loops: extras.append(row) for a row without identity.
TakeRow(acc, row) ==
    IF HasIdentity(row) THEN [acc EXCEPT !.merged = PutRow(@, row)]
    ELSE [acc EXCEPT !.extras = Append(@, row)]

\* _merge_rows
MergedRows(existing, new, fullRefresh) ==
    LET rows  == existing \o new
        taken == FoldLeft(TakeRow, [merged |-> <<>>, extras |-> <<>>], rows)
    IN  IF fullRefresh THEN new
        ELSE IF ~HasPrimaryKey THEN rows
        ELSE taken.merged \o taken.extras

-----------------------------------------------------------------------------

Batches == BoundedSeq(SyncedRows, MaxBatch)

Sync(new, fullRefresh) ==
    /\ fullRefresh \/ Len(keptRows) <= MaxRows
    /\ keptRows' = MergedRows(keptRows, new, fullRefresh)
    /\ batch' = new
    /\ wasFull' = fullRefresh

MergeNext ==
    \/ \E new \in Batches : Sync(new, FALSE)
    \/ \E new \in Batches : Sync(new, TRUE)

MergeSpec == MergeInit /\ [][MergeNext]_mergeVars

-----------------------------------------------------------------------------
(* Properties                                                              *)

\* The version of an identity that a reader of the rows sees last, 0 if none.
VersionIn(rows, i) ==
    LET at == {k \in DOMAIN rows : RowIdentity(rows[k]) = i} IN
    IF at = {} THEN 0 ELSE rows[CHOOSE k \in at : \A l \in at : k >= l].version

\* A sync acts on versions as DatasetSync's MergeRows does: per identity, the
\* batch's last version if it has one, the file's otherwise (full refresh: none).
ActsAsMergeRows ==
    [][\A i \in Identities :
          VersionIn(keptRows', i) = IF wasFull' \/ VersionIn(batch', i) # 0
                                     THEN VersionIn(batch', i) ELSE VersionIn(keptRows, i)]_mergeVars
=============================================================================
