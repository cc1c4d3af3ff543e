---------------------------- MODULE DatasetJobs -----------------------------
(***************************************************************************)
(* The dataset jobs of DatasetQueryService that write, on a SQL metadata   *)
(* store: bulk creation of table datasets from selections, conversion of a *)
(* CSV dataset to parquet, and profiling.  A job is one unit of work:      *)
(* other jobs see what it wrote when it commits, and it reads what the     *)
(* others have committed at each of its queries.                           *)
(***************************************************************************)
EXTENDS Naturals, Sequences, FiniteSets

CONSTANTS
    Jobs,         \* concurrent calls of query_dataset
    Selections,   \* selected tables with their columns, as signatures
    Templates,    \* naming templates
    BaseName,     \* _render_name_template: of a template and a selection
    AliasOf,      \* _dataset_sql_alias of a base name
    Broken,       \* selections that name a column twice
    Requests,     \* the sequences of selections a job may be given
    Uris,         \* CSV files
    JobDialects,  \* "sqlite", "postgres"
    MaxJobs,      \* bound: jobs
    Plain         \* no signature

ASSUME JobsAssumption ==
    /\ MaxJobs \in Nat
    /\ Plain \notin Selections /\ Broken \subseteq Selections
    /\ JobDialects \subseteq {"sqlite", "postgres"}
    /\ \A r \in Requests : r \in Seq(Selections) /\ r # <<>>

VARIABLES
    jobDialect,  \* database of the metadata store
    tables,      \* committed table datasets
    fileRow,     \* the CSV dataset: its row, and the revision it points to
    revisions,   \* revisions of the CSV dataset
    parquet,     \* what its parquet file was made of
    job,         \* the jobs
    jobCount,    \* jobs so far
    crossed      \* history: pairs of kinds of jobs that overlapped

jobVars == <<jobDialect, tables, fileRow, revisions, parquet, job, jobCount, crossed>>

Bases == DOMAIN AliasOf

\* A name is a base, a base and a signature, or these and a number.
DatasetNames == [base : Bases, seed : Selections \cup {Plain}, n : 0..(2 * MaxJobs + 2)]
AliasOfName(name) == [name EXCEPT !.base = AliasOf[name.base]]

\* A dataset that the API created is of no selection.
Tables == [sel : Selections \cup {Plain}, name : DatasetNames]

FileRows == [format : {"csv", "parquet"}, uri : Uris, revision : 0..MaxJobs]

NoName == [base |-> CHOOSE b \in Bases : TRUE, seed |-> Plain, n |-> 0]

Rest == [kind |-> "none", pc |-> "idle", todo |-> <<>>, template |-> CHOOSE t \in Templates : TRUE,
         name |-> NoName, mine |-> {}, made |-> {}, errors |-> {}, poisoned |-> FALSE,
         row |-> [format |-> "csv", uri |-> CHOOSE u \in Uris : TRUE, revision |-> 0],
         asked |-> {}]

JobKinds == {"bulk", "ingest", "profile"}

JobTypeOK ==
    /\ jobDialect \in {"sqlite", "postgres"}
    /\ tables \subseteq Tables /\ fileRow \in FileRows
    /\ revisions \in 0..MaxJobs /\ parquet \in Uris \cup {Plain}
    /\ \A j \in Jobs :
          /\ job[j].kind \in JobKinds \cup {"none"}
          /\ job[j].pc \in {"idle", "find", "name", "flush", "write", "save", "commit", "done", "failed"}
          /\ job[j].mine \subseteq Tables /\ job[j].made \subseteq Tables
          /\ job[j].errors \subseteq Selections /\ job[j].poisoned \in BOOLEAN
          /\ job[j].row \in FileRows
    /\ jobCount \in 0..MaxJobs
    /\ crossed \subseteq {{k, l} : k \in JobKinds, l \in JobKinds}

JobInit ==
    /\ jobDialect \in JobDialects
    /\ tables = {}
    /\ fileRow \in [format : {"csv"}, uri : Uris, revision : {0}]
    /\ revisions = 0
    /\ parquet = Plain
    /\ job = [j \in Jobs |-> Rest]
    /\ jobCount = 0
    /\ crossed = {}

Resting == {"idle", "done", "failed"}
Active(j) == job[j].pc \notin Resting

Begins(j, call) ==
    /\ ~Active(j) /\ jobCount < MaxJobs
    /\ jobCount' = jobCount + 1
    /\ job' = [job EXCEPT ![j] = call]
    /\ crossed' = crossed \cup {{call.kind, job[i].kind} : i \in {k \in Jobs \ {j} : Active(k)}}
    /\ UNCHANGED <<jobDialect, tables, fileRow, revisions, parquet>>

Progress(j, call) == job' = [job EXCEPT ![j] = call]
JobHistory == UNCHANGED <<jobDialect, jobCount, crossed>>
TablesKept == UNCHANGED tables
FileKept   == UNCHANGED <<fileRow, revisions, parquet>>

\* What j's queries return: what is committed, and what j flushed.
Seen(j) == tables \cup job[j].mine

\* The writes of others that have not committed.
Pending(j) == UNION {job[i].mine : i \in Jobs \ {j}}

\* A job that writes the CSV dataset's row holds it from its flush on.
Saving(j) == job[j].kind \in {"ingest", "profile"} /\ job[j].pc = "commit"

\* SQLite has one writer; PostgreSQL lets a write wait for the transaction
\* that holds the row or an equal unique key.
Blocked(j) ==
    IF jobDialect = "sqlite"
    THEN \E i \in Jobs \ {j} : job[i].mine # {} \/ Saving(i)
    ELSE IF job[j].kind = "bulk"
         THEN \E p \in Pending(j) : AliasOfName(p.name) = AliasOfName(job[j].name)
         ELSE \E i \in Jobs \ {j} : Saving(i)

-----------------------------------------------------------------------------
(* Bulk creation                                                           *)

BeginBulk(j, t, r) ==
    Begins(j, [Rest EXCEPT !.kind = "bulk", !.pc = "find", !.todo = r, !.template = t,
                           !.asked = {r[i] : i \in DOMAIN r}])

Next1(call) == [call EXCEPT !.todo = Tail(@), !.pc = IF Len(call.todo) = 1 THEN "commit" ELSE "find"]

\* _selection_signature
SameSelection(j, d) == d.sel = Head(job[j].todo)

\* _find_existing_table_dataset.  Once a flush failed every query raises
\* PendingRollbackError, which counts as an error of the selection.
Find(j) ==
    /\ job[j].kind = "bulk" /\ job[j].pc = "find"
    /\ LET s     == Head(job[j].todo)
           found == {d \in Seen(j) : SameSelection(j, d)}
       IN  \/ /\ job[j].poisoned
              /\ Progress(j, Next1([job[j] EXCEPT !.errors = @ \cup {s}]))
           \/ /\ ~job[j].poisoned /\ found # {}
              /\ \E d \in found : Progress(j, Next1([job[j] EXCEPT !.made = @ \cup {d}]))
           \/ /\ ~job[j].poisoned /\ found = {}
              /\ Progress(j, [job[j] EXCEPT !.pc = "name"])
    /\ TablesKept /\ FileKept /\ JobHistory

\* The first of base, base and signature, and these with 2, 3 ... that is free.
UniqueName(j) ==
    LET taken == {d.name : d \in Seen(j)}
        base  == [NoName EXCEPT !.base = BaseName[job[j].template][Head(job[j].todo)]]
        seeded(n) == [base EXCEPT !.seed = Head(job[j].todo), !.n = n]
        free  == {n \in {0} \cup 2..(Cardinality(taken) + 2) : seeded(n) \notin taken}
    IN  IF base \notin taken THEN base
        ELSE seeded(CHOOSE n \in free : \A m \in free : n <= m)

\* _ensure_unique_dataset_name, and the lookup of the connector, which may
\* raise before anything is added.
Name(j) ==
    /\ job[j].kind = "bulk" /\ job[j].pc = "name"
    /\ \/ Progress(j, [job[j] EXCEPT !.pc = "flush", !.name = UniqueName(j)])
       \/ Progress(j, Next1([job[j] EXCEPT !.errors = @ \cup {Head(job[j].todo)}]))
    /\ TablesKept /\ FileKept /\ JobHistory

Created(j) == [sel |-> Head(job[j].todo), name |-> job[j].name]

\* The unique constraints on name and alias, and on a dataset's columns.
Violates(j) ==
    \/ Head(job[j].todo) \in Broken
    \/ \E d \in Seen(j) : AliasOfName(d.name) = AliasOfName(job[j].name)

\* Mutant of FlushFailed: the session is rolled back and the loop goes on.
FlushFailedRecovers(j) ==
    Next1([job[j] EXCEPT !.errors = @ \cup {Head(job[j].todo)}, !.mine = {}])

\* A failed flush rolls the transaction back and leaves the session inactive
\* until rollback() is called, which the loop does not.
FlushFailed(j) ==
    Next1([job[j] EXCEPT !.errors = @ \cup {Head(job[j].todo)}, !.mine = {}, !.poisoned = TRUE])

\* _create_table_dataset_from_selection: _create_dataset_revision flushes.
Flush(j) ==
    /\ job[j].kind = "bulk" /\ job[j].pc = "flush"
    /\ ~Blocked(j)
    /\ Progress(j, IF Violates(j) THEN FlushFailed(j)
                   ELSE Next1([job[j] EXCEPT !.mine = @ \cup {Created(j)},
                                             !.made = @ \cup {Created(j)}]))
    /\ TablesKept /\ FileKept /\ JobHistory

\* "database is locked" after the busy timeout, or a deadlock detected.
LockTimeout(j) ==
    /\ job[j].pc \in {"flush", "save"} /\ Blocked(j)
    /\ Progress(j, IF job[j].kind = "bulk" THEN FlushFailed(j)
                   ELSE [job[j] EXCEPT !.pc = "failed"])
    /\ TablesKept /\ FileKept /\ JobHistory

\* The commit of an inactive session raises.
CommitBulk(j) ==
    /\ job[j].kind = "bulk" /\ job[j].pc = "commit"
    /\ tables' = IF job[j].poisoned THEN tables ELSE tables \cup job[j].mine
    /\ Progress(j, [job[j] EXCEPT !.pc = IF job[j].poisoned THEN "failed" ELSE "done", !.mine = {}])
    /\ FileKept /\ JobHistory

\* create_dataset of the API, with a name that is free.
CreateElsewhere(b) ==
    LET d == [sel |-> Plain, name |-> [NoName EXCEPT !.base = b]] IN
    /\ \A e \in tables \cup UNION {job[j].mine : j \in Jobs} : AliasOfName(e.name) # AliasOfName(d.name)
    /\ jobDialect = "sqlite" => \A j \in Jobs : job[j].mine = {} /\ ~Saving(j)
    /\ jobCount < MaxJobs /\ jobCount' = jobCount + 1
    /\ tables' = tables \cup {d}
    /\ FileKept /\ UNCHANGED <<jobDialect, job, crossed>>

-----------------------------------------------------------------------------
(* The CSV dataset                                                         *)

\* Mutant of Convertible: what was converted is converted again.
ConvertibleAlways(row) == TRUE

\* "CSV ingest only supports csv source files."
Convertible(row) == row.format = "csv"

\* _load_dataset_bundle; the request may name another file.
BeginIngest(j, u) ==
    Begins(j, [Rest EXCEPT !.kind = "ingest", !.pc = "write",
                           !.row = [fileRow EXCEPT !.uri = u]])

\* DESCRIBE, COUNT and COPY run without suspending; the file is outside the
\* unit of work.  A CSV that cannot be read leaves the file alone.
WriteParquet(j) ==
    /\ job[j].kind = "ingest" /\ job[j].pc = "write"
    /\ \/ /\ Convertible(job[j].row)
          /\ parquet' = job[j].row.uri
          /\ Progress(j, [job[j] EXCEPT !.pc = "save", !.row.format = "parquet"])
       \/ /\ Progress(j, [job[j] EXCEPT !.pc = "failed"])
          /\ UNCHANGED parquet
    /\ TablesKept /\ UNCHANGED <<fileRow, revisions>> /\ JobHistory

\* The columns are replaced and a revision is added.
SaveIngest(j) ==
    /\ job[j].kind = "ingest" /\ job[j].pc = "save"
    /\ ~Blocked(j)
    /\ Progress(j, [job[j] EXCEPT !.pc = "commit", !.row.revision = revisions + 1])
    /\ TablesKept /\ FileKept /\ JobHistory

\* _run_profile: the row is read, the queries run, and the whole row as it
\* was read is saved with new estimates.
BeginProfile(j) ==
    Begins(j, [Rest EXCEPT !.kind = "profile", !.pc = "save", !.row = fileRow])

SaveProfile(j) ==
    /\ job[j].kind = "profile" /\ job[j].pc = "save"
    /\ ~Blocked(j)
    /\ Progress(j, [job[j] EXCEPT !.pc = "commit"])
    /\ TablesKept /\ FileKept /\ JobHistory

CommitFile(j) ==
    /\ Saving(j)
    /\ fileRow' = job[j].row
    /\ revisions' = IF job[j].kind = "ingest" THEN job[j].row.revision ELSE revisions
    /\ Progress(j, [job[j] EXCEPT !.pc = "done"])
    /\ TablesKept /\ UNCHANGED parquet /\ JobHistory

\* A query, a flush or the commit of a job fails, or the process dies.
JobFails(j) ==
    /\ Active(j)
    /\ Progress(j, [job[j] EXCEPT !.pc = "failed", !.mine = {}])
    /\ TablesKept /\ FileKept /\ JobHistory

JobStep(j) ==
    \/ Find(j) \/ Name(j) \/ Flush(j) \/ LockTimeout(j) \/ CommitBulk(j)
    \/ WriteParquet(j) \/ SaveIngest(j) \/ SaveProfile(j) \/ CommitFile(j)

JobNext ==
    \/ \E j \in Jobs :
          \/ \E t \in Templates, r \in Requests : BeginBulk(j, t, r)
          \/ \E u \in Uris : BeginIngest(j, u)
          \/ BeginProfile(j)
          \/ JobStep(j)
          \/ JobFails(j)
    \/ \E b \in Bases : CreateElsewhere(b)

JobSpec == JobInit /\ [][JobNext]_jobVars

-----------------------------------------------------------------------------
(* Properties                                                              *)

\* A job that returns accounts for each of its selections, as a dataset or as
\* an error, and the datasets it names are stored.
BulkReportTrue ==
    \A j \in Jobs : job[j].kind = "bulk" /\ job[j].pc = "done" =>
        /\ job[j].made \subseteq tables
        /\ job[j].asked = {d.sel : d \in job[j].made} \cup job[j].errors

\* A converted dataset's file was made of the file its row names, unless jobs
\* on it overlapped: no job fails after touching a file that is in use.
ParquetOfRow ==
    \/ crossed \cap {{"ingest"}, {"ingest", "profile"}} # {}
    \/ fileRow.format = "parquet" => parquet = fileRow.uri

\* What bulk creation reports and what ingestion leaves are true.
JobsTrue == BulkReportTrue /\ ParquetOfRow
=============================================================================
