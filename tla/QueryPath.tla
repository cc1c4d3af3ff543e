------------------------------ MODULE QueryPath ------------------------------
(***************************************************************************)
(* From a query to the tables it reads: SqlQueryService (one connector, or *)
(* federated over the datasets of the workspace), previews of datasets,    *)
(* and semantic queries over one model or several.  Each kind builds a     *)
(* workflow, the tables a query may name with the datasets behind them,    *)
(* and runs it through the one FederatedQueryService of the runtime, which *)
(* keeps one workflow per workspace.  Datasets, connectors and models      *)
(* change while queries are being prepared.                                *)
(***************************************************************************)
EXTENDS Naturals, Sequences, SequencesExt, FiniteSets

CONSTANTS
    SqlDatasets,   \* ids, in the order of the names
    OwnAlias,      \* sql_alias of a dataset, a sequence: x_2 is <<x, 2>>
    DatasetConn,   \* connection of a dataset
    QueryConns,
    VirtualTables, \* plan of a FEDERATED dataset: sequence of [key, of]
    DefaultKey,    \* its default_table_key
    ModelIds,
    ModelForms,    \* datasets of a semantic model: sequences of [key, of]
    QueryIds,
    QueryRequests, \* queries a client may send
    InitialRows,   \* rows of the catalogue at first: kinds by dataset
    MaxCatalogEdits

\* A dataset is over a live table or API, over a file, synced and not filled
\* yet, FEDERATED, or of a storage without structured scan.
RowKinds == {"live", "file", "unfilled", "virtual", "raw"}

ASSUME QueryPathAssumption ==
    /\ MaxCatalogEdits \in Nat
    /\ SqlDatasets \in Seq(DOMAIN OwnAlias) /\ IsInjective(SqlDatasets)
    /\ InitialRows \subseteq [Range(SqlDatasets) -> RowKinds \cup {"gone"}]
    /\ \A r \in QueryRequests : r.kind = "sql" => r.of \subseteq Range(SqlDatasets)

VARIABLES
    catalogStore,  \* "sql" or "memory"
    dsRow,         \* kind of a dataset's row, "gone" when there is none
    liveConns,     \* connectors that exist
    models,        \* semantic models: their datasets
    registered,    \* workflow of the workspace in FederatedQueryService
    queries,       \* the queries
    catalogEdits

queryVars == <<catalogStore, dsRow, liveConns, models, registered, queries, catalogEdits>>

Ids == Range(SqlDatasets)

NoRequest == [kind |-> "none", of |-> {}, names |-> {}, explain |-> FALSE]

\* left: models still to be read; plan: the tables of those that were; todo:
\* tables to be loaded; known: rows the session has read; bound: its workflow;
\* ran: the tables it planned; answer: the tables it read.
Fresh == [pc |-> "new", request |-> NoRequest, left |-> {}, plan |-> <<>>, todo |-> <<>>,
          second |-> FALSE, known |-> <<>>, bound |-> {}, ran |-> {}, answer |-> {}]

TableKeys == {OwnAlias[d] : d \in Ids}
             \cup {Append(OwnAlias[d], i) : d \in Ids, i \in 2..(Len(SqlDatasets) + 1)}
             \cup {t.key : t \in Range(VirtualTables)}
             \cup {<<m>> \o t.key : m \in ModelIds, t \in UNION {Range(f) : f \in ModelForms}}

Bindings == [key : TableKeys, of : Ids, live : BOOLEAN]
Bound(key, d, kind) == [key |-> key, of |-> d, live |-> kind = "live"]

QueryTypeOK ==
    /\ catalogStore \in {"sql", "memory"}
    /\ dsRow \in [Ids -> RowKinds \cup {"gone"}]
    /\ liveConns \subseteq QueryConns
    /\ models \in [ModelIds -> ModelForms]
    /\ registered \subseteq Bindings
    /\ \A q \in QueryIds :
          /\ queries[q].pc \in {"new", "resolve", "load", "sources", "plan", "run", "direct", "done", "failed"}
          /\ queries[q].bound \subseteq Bindings /\ queries[q].ran \subseteq Bindings
          /\ queries[q].answer \subseteq Bindings
    /\ catalogEdits \in 0..MaxCatalogEdits

SameAlias(d, e) == d # e /\ OwnAlias[d] = OwnAlias[e]
Stored(d) == dsRow[d] # "gone"

\* Mutant of AliasesUnique: the constraint is on the name only.
AliasesNotUnique(rows) == TRUE

\* uq_datasets_workspace_sql_alias: only the SQL store has it.
AliasesUnique(rows) ==
    \A d, e \in Ids : SameAlias(d, e) => rows[d] = "gone" \/ rows[e] = "gone"

QueryInit ==
    /\ catalogStore \in {"sql", "memory"}
    /\ dsRow \in InitialRows
    /\ catalogStore = "sql" => AliasesUnique(dsRow)
    /\ liveConns \in {QueryConns, {}}
    /\ models \in [ModelIds -> ModelForms]
    /\ registered = {}
    /\ queries = [q \in QueryIds |-> Fresh]
    /\ catalogEdits = 0

-----------------------------------------------------------------------------
(* The catalogue, from other requests                                      *)

CatalogEdit == catalogEdits < MaxCatalogEdits /\ catalogEdits' = catalogEdits + 1

\* A sync fills a dataset, an update makes it synced or live again, a delete
\* removes it; one with an alias that is free is created.
ChangeDataset(d, k) ==
    /\ CatalogEdit
    /\ \/ dsRow[d] = "unfilled" /\ k = "file"
       \/ dsRow[d] \in {"file", "unfilled"} /\ k = "live"
       \/ dsRow[d] = "live" /\ k = "unfilled"
       \/ Stored(d) /\ k = "gone"
       \/ /\ dsRow[d] = "gone" /\ k \in {"live", "unfilled", "virtual", "raw"}
          /\ \A e \in Ids : SameAlias(d, e) => ~Stored(e)
    /\ dsRow' = [dsRow EXCEPT ![d] = k]
    /\ UNCHANGED <<catalogStore, liveConns, models, registered, queries>>

\* A connector without datasets is deleted.
DropConnector(c) ==
    /\ CatalogEdit
    /\ c \in liveConns /\ \A d \in Ids : DatasetConn[d] = c => dsRow[d] \in {"gone", "virtual"}
    /\ liveConns' = liveConns \ {c}
    /\ UNCHANGED <<catalogStore, dsRow, models, registered, queries>>

ChangeModel(m, form) ==
    /\ CatalogEdit /\ form # models[m]
    /\ models' = [models EXCEPT ![m] = form]
    /\ UNCHANGED <<catalogStore, dsRow, liveConns, registered, queries>>

-----------------------------------------------------------------------------
(* Preparing a query                                                       *)

CatalogKept == UNCHANGED <<catalogStore, dsRow, liveConns, models, catalogEdits>>
Goes(q, to) == queries' = [queries EXCEPT ![q] = to]
FailsWith(q) == Goes(q, [Fresh EXCEPT !.pc = "failed"])

Send(q, r) ==
    /\ queries[q].pc = "new"
    /\ Goes(q, [Fresh EXCEPT !.pc = IF r.kind = "direct" THEN "direct" ELSE "resolve",
                             !.request = r,
                             !.left = IF r.kind \in {"semantic", "unified"} THEN r.of ELSE {}])
    /\ CatalogKept /\ UNCHANGED registered

\* dataset_supports_structured_federation
Eligible(d) == dsRow[d] \notin {"gone", "raw"}

\* _build_binding_from_dataset_record raises for the others.
Bindable(kind) == kind \in {"live", "file"}

\* _derive_federated_sql_aliases, in the order of the names: an alias that is
\* taken gets the first number that is not.
Suffixed(base, i) == IF i = 1 THEN base ELSE Append(base, i)
NextAlias(base, used) ==
    LET free == {i \in 1..(Cardinality(used) + 1) : Suffixed(base, i) \notin used}
    IN  Suffixed(base, CHOOSE i \in free : \A j \in free : i <= j)
DeriveAliases(scope) ==
    LET Add(done, d) ==
            IF d \notin scope THEN done
            ELSE done \cup {[key |-> NextAlias(OwnAlias[d], {t.key : t \in done}), of |-> d]}
    IN  FoldLeft(Add, {}, SqlDatasets)

\* _resolve_federated_datasets and the bindings: datasets that cannot be bound
\* are left out without a word.
ResolveSql(q) ==
    LET r        == queries[q].request
        selected == r.of # {}
        listed   == IF selected THEN {d \in r.of : Stored(d)} ELSE {d \in Ids : Stored(d)}
        eligible == {d \in listed : Eligible(d)}
    IN  /\ queries[q].pc = "resolve" /\ r.kind = "sql"
        /\ \/ /\ \/ selected /\ (listed # r.of \/ eligible # listed)
                 \/ eligible = {}
                 \/ \A d \in eligible : ~Bindable(dsRow[d])
              /\ FailsWith(q)
           \/ /\ selected => listed = r.of /\ eligible = listed
              /\ \E d \in eligible : Bindable(dsRow[d])
              /\ Goes(q, [queries[q] EXCEPT
                    !.pc = "sources",
                    !.bound = {Bound(t.key, t.of, dsRow[t.of]) :
                                  t \in {u \in DeriveAliases(eligible) : Bindable(dsRow[u.of])}}])
        /\ CatalogKept /\ UNCHANGED registered

\* _run_preview: a FEDERATED dataset's children are loaded one after another.
ResolvePreview(q) ==
    LET d == CHOOSE d \in queries[q].request.of : TRUE IN
    /\ queries[q].pc = "resolve" /\ queries[q].request.kind = "preview"
    /\ Goes(q, CASE dsRow[d] = "virtual" ->
                      [queries[q] EXCEPT !.pc = "load", !.todo = VirtualTables]
                 [] Bindable(dsRow[d]) ->
                      [queries[q] EXCEPT !.pc = "sources",
                                       !.bound = {Bound(OwnAlias[d], d, dsRow[d])}]
                 [] OTHER -> [Fresh EXCEPT !.pc = "failed"])
    /\ CatalogKept /\ UNCHANGED registered

\* execute_standard_query and execute_unified_query read a model, and check or
\* bind its datasets before they read the next.  Keys get the model's prefix.
ReadModel(q) ==
    /\ queries[q].pc = "resolve" /\ queries[q].request.kind \in {"semantic", "unified"}
    /\ \E m \in queries[q].left :
          LET form == [i \in DOMAIN models[m] |-> [models[m][i] EXCEPT !.key = <<m>> \o @]]
          IN  Goes(q, [queries[q] EXCEPT !.pc = "load", !.left = @ \ {m}, !.todo = form, !.plan = @ \o form])
    /\ CatalogKept /\ UNCHANGED registered

\* A session that has read a row sees the row as it was, or that it is gone.
SeenKind(q, d) ==
    IF catalogStore = "sql" /\ d \in DOMAIN queries[q].known /\ Stored(d)
    THEN queries[q].known[d] ELSE dsRow[d]

Remembered(q, d) == [e \in DOMAIN queries[q].known \cup {d} |->
                   IF e = d THEN SeenKind(q, d) ELSE queries[q].known[e]]

\* _load_dataset for the next table.  Only a FEDERATED dataset skips what
\* cannot be bound; a unified query goes through its datasets twice, and
\* binds them the second time.
Load(q) ==
    LET c      == queries[q]
        t      == Head(c.todo)
        kind   == SeenKind(q, t.of)
        next   == [c EXCEPT !.todo = Tail(@), !.known = Remembered(q, t.of)]
        binds  == c.request.kind = "unified" => c.second
    IN  /\ c.pc = "load" /\ c.todo # <<>>
        /\ CASE kind = "gone" -> FailsWith(q)
             [] kind # "gone" /\ ~binds ->
                    IF kind = "virtual" THEN FailsWith(q) ELSE Goes(q, next)
             [] binds /\ Bindable(kind) -> Goes(q, [next EXCEPT !.bound = @ \cup {Bound(t.key, t.of, kind)}])
             [] OTHER -> IF c.request.kind = "preview" THEN Goes(q, next) ELSE FailsWith(q)
        /\ CatalogKept /\ UNCHANGED registered

\* The other models, the second pass over what was read, or the sources.
Loaded(q) ==
    LET c == queries[q] IN
    /\ c.pc = "load" /\ c.todo = <<>>
    /\ IF c.left # {} THEN Goes(q, [c EXCEPT !.pc = "resolve"])
       ELSE IF c.request.kind = "unified" /\ ~c.second
            THEN Goes(q, [c EXCEPT !.second = TRUE, !.todo = c.plan])
       ELSE IF c.bound = {} THEN FailsWith(q)
       ELSE Goes(q, [c EXCEPT !.pc = "sources"])
    /\ CatalogKept /\ UNCHANGED registered

\* _build_sources looks the connector of each live table up.
BuildSources(q) ==
    LET c == queries[q] IN
    /\ c.pc = "sources"
    /\ IF \E t \in c.bound : t.live /\ DatasetConn[t.of] \notin liveConns
       THEN FailsWith(q) ELSE Goes(q, [c EXCEPT !.pc = "plan"])
    /\ CatalogKept /\ UNCHANGED registered

-----------------------------------------------------------------------------
(* Running it                                                              *)

\* What the text of the query names; a preview's is its default table, or the
\* first one that could be bound.
AliasOfPreview(c) == OwnAlias[CHOOSE d \in c.request.of : TRUE]
Named(c) ==
    CASE c.request.kind = "sql" -> c.request.names
      [] c.request.kind = "preview" ->
            LET keys  == {t.key : t \in c.bound}
                first == SelectSeq(VirtualTables, LAMBDA t : t.key \in keys)
            IN  IF DefaultKey \in keys \/ first = <<>> THEN keys \cap {DefaultKey, AliasOfPreview(c)}
                ELSE {first[1].key}
      [] OTHER -> {t.key : t \in c.bound}

\* register_workspace, then execute up to its first await: nothing else runs
\* in between, so the workflow of the workspace is the query's own.
PlanOf(c) == c.bound

\* _resolve_table raises for a table the workflow does not have.
Plan(q) ==
    LET c == queries[q] IN
    /\ c.pc = "plan"
    /\ registered' = c.bound
    /\ IF Named(c) \subseteq {t.key : t \in PlanOf(c)}
       THEN Goes(q, [c EXCEPT !.pc = IF c.request.explain THEN "done" ELSE "run",
                              !.ran = {t \in PlanOf(c) : t.key \in Named(c)}])
       ELSE FailsWith(q)
    /\ CatalogKept

\* The stages run and the result is fetched; or a source fails.
Run(q) ==
    /\ queries[q].pc = "run"
    /\ \/ Goes(q, [queries[q] EXCEPT !.pc = "done", !.answer = queries[q].ran])
       \/ FailsWith(q)
    /\ CatalogKept /\ UNCHANGED registered

\* _execute_single: the connector alone, no workflow.
RunDirect(q) ==
    /\ queries[q].pc = "direct"
    /\ \/ queries[q].request.of \subseteq liveConns /\ Goes(q, [queries[q] EXCEPT !.pc = "done"])
       \/ FailsWith(q)
    /\ CatalogKept /\ UNCHANGED registered

QueryStep(q) ==
    \/ ResolveSql(q) \/ ResolvePreview(q) \/ ReadModel(q) \/ Load(q) \/ Loaded(q)
    \/ BuildSources(q) \/ Plan(q) \/ Run(q) \/ RunDirect(q)

QueryNext ==
    \/ \E q \in QueryIds :
          \/ \E r \in QueryRequests : Send(q, r)
          \/ QueryStep(q)
    \/ \E d \in Ids, k \in RowKinds \cup {"gone"} : ChangeDataset(d, k)
    \/ \E c \in QueryConns : DropConnector(c)
    \/ \E m \in ModelIds, f \in ModelForms : ChangeModel(m, f)

QuerySpec == QueryInit /\ [][QueryNext]_queryVars

-----------------------------------------------------------------------------
(* Properties                                                              *)

\* With a SQL metadata store a federated query that returns read, under each
\* alias its text names, the dataset of that alias.  In memory two configured
\* datasets may share an alias, and x_2 then is the second one of x, even
\* where a third dataset bears it.
AliasDenotes ==
    \A q \in QueryIds :
        LET c == queries[q] IN
        /\ c.pc = "done" /\ c.request.kind = "sql" /\ ~c.request.explain
        /\ catalogStore = "sql"
        => \A n \in c.request.names : \E t \in c.answer : t.key = n /\ OwnAlias[t.of] = n
=============================================================================
