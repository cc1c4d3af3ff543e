----------------------------- MODULE MCQueries -----------------------------
(***************************************************************************)
(* What computes an answer, for TLC.  The modules share no state, so a     *)
(* behaviour is about one of them.  RowMerge: an id that arrives as a      *)
(* number and as text, a second id, and a blank one.  FederationPlan:      *)
(* tables of up to two rows; WHERE clauses of one or two predicates that   *)
(* NULLs pass or do not; the two sources, one source, another dialect.     *)
(* SemanticQuery: three datasets with up to three relationships, in a      *)
(* cycle too.  QueryPath: two queries over three datasets, two of which    *)
(* claim an alias, while the catalogue changes once.  DatasetJobs: two     *)
(* selections whose names collide under one of two templates, two CSV      *)
(* files, three jobs of which two overlap.                                 *)
(***************************************************************************)
EXTENDS RowMerge, FederationPlan, SemanticQuery, QueryPath, DatasetJobs

CONSTANTS int1, text1, int2, blank, key1, key2, NoQuery, c1, k1, k2

FourRawIds  == {int1, text1, int2, blank}
IdentityMap == [v \in FourRawIds |-> CASE v = int2 -> key2
                                       [] v = blank -> NoIdentity
                                       [] OTHER -> key1]
TwoVersions == {1, 2}

SmallTables == {t \in SUBSET [k : {1, 2}, v : {0, 1}] : Cardinality(t) <= 2}

Both == {0, 1} \X {0, 1}

\* alias.v = 1, alias.v IS NULL, and a test of the latter kind in a function.
Tests ==
    {[refs |-> {"a"}, names |-> {}, bare |-> {}, holds |-> {p \in Both : p[1] = x}, simple |-> TRUE] : x \in {0, 1}}
    \cup
    {[refs |-> {"b"}, names |-> {}, bare |-> {}, holds |-> {p \in Both : p[2] = x}, simple |-> s] :
        x \in {0, 1}, s \in BOOLEAN}

\* a.v = b.v; with a in other letters; with one of them, and with both, written
\* without a table.
Comparison(refs, names, bare) ==
    {[refs |-> refs, names |-> names, bare |-> bare, holds |-> {<<1, 1>>}, simple |-> TRUE]}
Compares == Comparison(Aliases, {}, {})
Renamed  == Comparison({"b"}, {"a"}, {})
Bare     == Comparison({"a"}, {}, {"b"}) \cup Comparison({}, {}, Aliases)

Joins == {"inner", "left", "right", "full", "cross"}

\* Where the tables are: two sources, two in another dialect, one.
Places == {<<2, TRUE>>, <<2, FALSE>>, <<1, TRUE>>}

\* Which rows: all joins and WHERE clauses.
RowQueries ==
    [join : Joins, op : {"and", "or"}, left : Tests, right : Tests \cup Compares,
     again : {"no", "b"}, cte : {FALSE}, select : {{}}, star : {TRUE},
     sources : {2}, dialect : BOOLEAN, rewrite : {FALSE}]

\* Which columns: ways to write them.
ColumnQueries ==
    {[join |-> j, op |-> "one", left |-> w, right |-> w, again |-> "no", cte |-> c,
      select |-> s, star |-> FALSE, sources |-> p[1], dialect |-> p[2], rewrite |-> r] :
        j \in {"inner", "cross"}, w \in Tests \cup Compares \cup Renamed \cup Bare,
        c \in BOOLEAN, r \in BOOLEAN, p \in Places,
        s \in {{}} \cup {{[of |-> "a", col |-> "w", by |-> b]} : b \in {"alias", "name", "none"}}}

SomePlanQueries == RowQueries \cup ColumnQueries

-----------------------------------------------------------------------------

ThreeDatasets == <<"x", "y", "z">>

\* The ring x -> y -> z -> x, cut open or not, an inner join, and a way through
\* a dataset that the model does not have.
RingLinks ==
    {[from |-> p[1], to |-> p[2], type |-> t] :
        p \in {<<"x", "y">>, <<"y", "z">>, <<"z", "x">>}, t \in {"many_to_one", "one_to_many"}}
OneLink   == {<<r>> : r \in RingLinks \cup {[from |-> "x", to |-> "y", type |-> "inner"]}}
TwoLinks  == RingLinks \X RingLinks
WholeRing == {<<p[1], p[2], [from |-> "z", to |-> "x", type |-> "many_to_one"]>> :
                 p \in {s \in TwoLinks : s[1].from = "x" /\ s[2].from = "y"}}
Stranger  == {<<[from |-> "x", to |-> "w", type |-> "many_to_one"],
               [from |-> "w", to |-> "z", type |-> "many_to_one"]>>}
SomeRelationships == {<<>>} \cup OneLink \cup TwoLinks \cup WholeRing \cup Stranger

UpToOne(S) == {<<>>} \cup {<<e>> : e \in S}
NoMembers == [dimensions |-> <<>>, times |-> <<>>, measures |-> <<>>, metrics |-> <<>>,
              filters |-> <<>>, segments |-> <<>>, order |-> <<>>]

\* Dimensions and measures; metrics; all of them.
MeasureQueries ==
    {[NoMembers EXCEPT !.dimensions = d, !.measures = m, !.filters = f, !.order = o] :
        d \in UpToOne({"x", "y", "z"}), m \in UpToOne({"x", "z"}), o \in UpToOne({"y"}),
        f \in UpToOne({[kind |-> "dimension", of |-> {"y"}], [kind |-> "measure", of |-> {"z"}]})}
MetricQueries ==
    {[NoMembers EXCEPT !.times = t, !.metrics = <<[prefix |-> p, of |-> {"x", "y"}]>>,
                       !.filters = f, !.segments = s] :
        t \in UpToOne({"z"}), p \in {NoKey, "x"}, s \in UpToOne({"z"}),
        f \in UpToOne({[kind |-> "metric", of |-> {"x", "z"}]})}
FullQuery ==
    [NoMembers EXCEPT !.dimensions = <<"x">>, !.times = <<"z">>, !.measures = <<"y">>,
                      !.metrics = <<[prefix |-> NoKey, of |-> {"x", "y"}]>>, !.order = <<"z">>]
SomeSemanticQueries == MeasureQueries \cup MetricQueries \cup {FullQuery}

-----------------------------------------------------------------------------

\* d1 and d2 claim the alias x, d3 has x_2.
SomeDatasets == <<"d1", "d2", "d3">>
SomeAliases  == [d \in {"d1", "d2", "d3"} |-> IF d = "d3" THEN <<"x", 2>> ELSE <<"x">>]
OneConnector == [d \in {"d1", "d2", "d3"} |-> c1]
JustOne      == {c1}

\* d3, when it is FEDERATED, is over d1 and d2, and k2 is its default table.
TablesOverBoth == <<[key |-> <<k1>>, of |-> "d1"], [key |-> <<k2>>, of |-> "d2"]>>
SecondTable    == <<k2>>
SomeForms      == {TablesOverBoth, <<[key |-> <<k1>>, of |-> "d3"]>>}

SomeRequests ==
    {[kind |-> k[1], of |-> k[2], names |-> k[3], explain |-> k[4]] :
        k \in {<<"sql", {}, {<<"x">>}, TRUE>>,
               <<"sql", {"d1", "d3"}, {<<"x">>, <<"x", 2>>}, FALSE>>,
               <<"sql", {}, {<<"x", 2>>}, FALSE>>,
               <<"preview", {"d3"}, {}, FALSE>>, <<"semantic", {"m1"}, {}, FALSE>>,
               <<"unified", {"m1", "m2"}, {}, FALSE>>, <<"direct", {c1}, {}, FALSE>>}}

SomeRows ==
    {f \in [{"d1", "d2", "d3"} -> RowKinds \cup {"gone"}] :
        f["d1"] \in {"live", "unfilled"} /\ f["d2"] \in {"live", "gone"}
        /\ f["d3"] \in {"live", "virtual", "raw"}}

-----------------------------------------------------------------------------

\* Under "plain" both selections are named t; under "schema" one is not.  The
\* aliases of t and t' are equal.
PlainNames  == [s \in Selections |-> "t"]
SchemaNames == [s \in Selections |-> IF s = "s1" THEN "s_t" ELSE "t"]
NamesBy  == [t \in Templates |-> IF t = "plain" THEN PlainNames ELSE SchemaNames]
AliasBy  == [b \in {"t", "s_t", "t'"} |-> IF b = "s_t" THEN b ELSE "t"]
SomeBulk == {<<"s1">>, <<"s2", "s1">>}

-----------------------------------------------------------------------------

MergeOff    == keptRows = <<>> /\ batch = <<>> /\ wasFull = TRUE
PlanOff     == /\ query = NoQuery /\ table = NoQuery /\ stages = NoQuery
               /\ scanned = NoQuery /\ answer = NoAnswer
SemanticOff == relations = <<>> /\ links = <<>> /\ semantic = NoKey /\ select = NoKey
PathOff     == /\ catalogStore = "off" /\ registered = {} /\ catalogEdits = 0
               /\ queries = [q \in QueryIds |-> Fresh]
               /\ dsRow = [d \in Ids |-> "gone"] /\ liveConns = {}
               /\ models = [m \in ModelIds |-> TablesOverBoth]
JobsOff     == /\ jobDialect = "off" /\ tables = {} /\ revisions = 0 /\ parquet = Plain
               /\ fileRow = Rest.row /\ job = [j \in Jobs |-> Rest] /\ jobCount = 0 /\ crossed = {}

AnswersInit ==
    \/ MergeInit    /\ PlanOff  /\ SemanticOff /\ PathOff     /\ JobsOff
    \/ PlanInit     /\ MergeOff /\ SemanticOff /\ PathOff     /\ JobsOff
    \/ SemanticInit /\ MergeOff /\ PlanOff     /\ PathOff     /\ JobsOff
    \/ QueryInit    /\ MergeOff /\ PlanOff     /\ SemanticOff /\ JobsOff
    \/ JobInit      /\ MergeOff /\ PlanOff     /\ SemanticOff /\ PathOff

MergePart    == /\ query = NoQuery /\ semantic = NoKey /\ catalogStore = "off" /\ jobDialect = "off"
                /\ MergeNext /\ UNCHANGED <<planVars, semanticVars, queryVars, jobVars>>
PlanPart     == query # NoQuery /\ PlanNext /\ UNCHANGED <<mergeVars, semanticVars, queryVars, jobVars>>
SemanticPart == semantic # NoKey /\ SemanticNext /\ UNCHANGED <<mergeVars, planVars, queryVars, jobVars>>
PathPart     == catalogStore # "off" /\ QueryNext /\ UNCHANGED <<mergeVars, planVars, semanticVars, jobVars>>
JobsPart     == jobDialect # "off" /\ JobNext /\ UNCHANGED <<mergeVars, planVars, semanticVars, queryVars>>

AnswersNext == MergePart \/ PlanPart \/ SemanticPart \/ PathPart \/ JobsPart

AnswersSpec == AnswersInit /\ [][AnswersNext]_<<mergeVars, planVars, semanticVars, queryVars, jobVars>>
=============================================================================
