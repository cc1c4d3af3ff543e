--------------------------- MODULE FederationPlan ---------------------------
(***************************************************************************)
(* How the federation planner splits a query of two tables into scans of   *)
(* the sources and a local stage: which predicates of the WHERE clause and *)
(* which columns a scan is given, or whether the one source gets the query *)
(* as a whole.  The local stage is the query itself over what the scans    *)
(* return.                                                                 *)
(*                                                                         *)
(* Data abstraction: a row has a join key k, a value v that may be NULL,   *)
(* and more columns that are only selected.  A predicate is the set of     *)
(* values for which it is true: WHERE does not tell false from unknown.    *)
(***************************************************************************)
EXTENDS Integers, FiniteSets

CONSTANTS
    Keys,         \* values of the join column
    Values,       \* values of the column v, besides NULL
    PlanQueries,  \* the queries
    PlanTables    \* contents of a table

Null    == 0
Aliases == {"a", "b"}
NullRow == [k |-> Null, v |-> Null]
Columns == {"k", "v", "w"}

ASSUME ValuesAssumption == Null \notin Values /\ Null \notin Keys
ASSUME TablesAssumption == \A t \in PlanTables : t \subseteq [k : Keys, v : Values \cup {Null}]

\* A predicate over v columns, which it writes behind the alias (refs), behind
\* the alias in other letters or the table's name (names), or without a table
\* (bare).  simple: it consists of nodes that all dialects share.
Predicates == [refs   : SUBSET Aliases,
               names  : SUBSET Aliases,
               bare   : SUBSET Aliases,
               holds  : SUBSET ((Values \cup {Null}) \X (Values \cup {Null})),
               simple : BOOLEAN]

\* A column of the SELECT list, written in one of these ways.
ColumnRefs == [of : Aliases, col : Columns, by : {"alias", "name", "none"}]

\* where: one predicate, or two with AND or OR.  again: the alias of a table
\* that another part of the query, a UNION's branch or a CTE, reads as well.
QueryShapes ==
    [join   : {"inner", "left", "right", "full", "cross"},
     op     : {"one", "and", "or"}, left : Predicates, right : Predicates,
     again  : Aliases \cup {"no"}, cte : BOOLEAN,
     select : SUBSET ColumnRefs, star : BOOLEAN,
     sources : {1, 2},       \* sources of the two tables
     dialect : BOOLEAN,      \* sources speak the query's dialect
     rewrite : BOOLEAN]      \* names of the bindings differ from those of the tables

ASSUME QueriesAssumption == PlanQueries \subseteq QueryShapes

Mentioned(p) == p.refs \cup p.names \cup p.bare

\* A predicate does not depend on a table of which it has no column.
ASSUME PredicatesAssumption ==
    \A q \in PlanQueries : \A p \in {q.left, q.right} :
        \A x, y, z \in Values \cup {Null} :
            /\ Mentioned(p) \subseteq {"a"} /\ <<x, y>> \in p.holds => <<x, z>> \in p.holds
            /\ Mentioned(p) \subseteq {"b"} /\ <<x, y>> \in p.holds => <<z, y>> \in p.holds

VARIABLES
    query,   \* the query
    table,   \* the tables in their sources
    stages,  \* the physical plan: its scans, and whether a local stage follows
    scanned, \* rows that the scans have returned
    answer   \* what the result stage has returned

planVars == <<query, table, stages, scanned, answer>>

NoStages == [full |-> FALSE, filters |-> [x \in Aliases |-> {}],
             columns |-> [x \in Aliases |-> {}], made |-> FALSE]
NoAnswer == [state |-> "none", rows |-> {}, again |-> {}]

PlanTypeOK ==
    /\ table \in [Aliases -> PlanTables]
    /\ stages.full \in BOOLEAN /\ stages.made \in BOOLEAN
    /\ \A x \in Aliases : /\ stages.filters[x] \subseteq Predicates
                          /\ stages.columns[x] \subseteq Columns
    /\ scanned \in SUBSET Aliases
    /\ answer.state \in {"none", "error", "rows"}

PlanInit ==
    /\ query \in PlanQueries
    /\ table \in [Aliases -> PlanTables]
    /\ stages = NoStages
    /\ scanned = {}
    /\ answer = NoAnswer

-----------------------------------------------------------------------------
(* What SQL means                                                          *)

\* The rows of a join on equal keys; outer joins fill up with NULLs.
Joined(kind, a, b) ==
    LET match == {p \in a \X b : kind = "cross" \/ p[1].k = p[2].k}
        loneA == {<<r, NullRow>> : r \in {x \in a : \A p \in match : p[1] # x}}
        loneB == {<<NullRow, r>> : r \in {x \in b : \A p \in match : p[2] # x}}
    IN match \cup (IF kind \in {"left", "full"} THEN loneA ELSE {})
             \cup (IF kind \in {"right", "full"} THEN loneB ELSE {})

True(pred, p) == <<p[1].v, p[2].v>> \in pred.holds

Where(q, p) ==
    CASE q.op = "one" -> True(q.left, p)
      [] q.op = "and" -> True(q.left, p) /\ True(q.right, p)
      [] q.op = "or"  -> True(q.left, p) \/ True(q.right, p)

\* A query over given contents of its tables.
Evaluate(q, t) ==
    [state |-> "rows",
     rows  |-> {p \in Joined(q.join, t["a"], t["b"]) : Where(q, p)},
     again |-> IF q.again = "no" THEN {} ELSE t[q.again]]

-----------------------------------------------------------------------------
(* The planner                                                             *)

\* An OR is one predicate over the columns of both its sides.
Or(l, r) == [refs |-> l.refs \cup r.refs, names |-> l.names \cup r.names, bare |-> l.bare \cup r.bare,
             holds |-> l.holds \cup r.holds, simple |-> l.simple /\ r.simple]

\* Mutant of SplitConjunctive: the sides of an OR are taken apart as well.
SplitConjunctiveAny(q) == IF q.op = "one" THEN {q.left} ELSE {q.left, q.right}

\* split_conjunctive_predicates
SplitConjunctive(q) ==
    CASE q.op = "one" -> {q.left}
      [] q.op = "and" -> {q.left, q.right}
      [] q.op = "or"  -> {Or(q.left, q.right)}

\* pushdown_full_query
PushdownFullQuery(q) == q.sources = 1 /\ ~q.cte /\ ~q.rewrite /\ q.dialect

\* predicate_map and _can_push_filter: a predicate that writes one alias goes
\* to its scan, whatever the join and whatever else it mentions; to another
\* dialect only a simple one.
PushedFilters(q, x) ==
    {p \in SplitConjunctive(q) : p.refs = {x} /\ (q.dialect \/ p.simple)}

\* The columns that a query reads of an alias, however it writes them.
ReadColumns(q, x) ==
    {c \in Columns :
        \/ q.star
        \/ c = "k" /\ q.join # "cross"
        \/ c = "v" /\ \E p \in SplitConjunctive(q) : x \in Mentioned(p)
        \/ \E r \in q.select : r.of = x /\ r.col = c}

\* A column somewhere in the query that no table qualifies.
HasUnqualified(q) ==
    \/ \E r \in q.select : r.by = "none"
    \/ \E p \in SplitConjunctive(q) : p.bare # {}

\* extract_required_columns and projected_columns: a star and an unqualified
\* column stand for all of them, and so does an empty list.
RequiredColumns(q, x) ==
    LET qualified == {c \in Columns :
            \/ c = "k" /\ q.join # "cross"
            \/ c = "v" /\ \E p \in SplitConjunctive(q) : x \in p.refs
            \/ \E r \in q.select : r.of = x /\ r.col = c /\ r.by = "alias"}
    IN IF q.star \/ HasUnqualified(q) \/ qualified = {} THEN Columns ELSE qualified

\* optimize, and PhysicalPlanner.build
Optimize ==
    /\ ~stages.made
    /\ stages' = [full    |-> PushdownFullQuery(query),
                  filters |-> [x \in Aliases |-> PushedFilters(query, x)],
                  columns |-> [x \in Aliases |-> RequiredColumns(query, x)],
                  made    |-> TRUE]
    /\ UNCHANGED <<query, table, scanned, answer>>

-----------------------------------------------------------------------------
(* The stages                                                              *)

\* The whole query runs in its source.
RemoteFullQuery ==
    /\ stages.made /\ stages.full
    /\ answer = NoAnswer
    /\ answer' = Evaluate(query, table)
    /\ UNCHANGED <<query, table, stages, scanned>>

\* A scan runs in the source of its alias, which does not know another table
\* that a pushed filter mentions.
RemoteScan(x) ==
    /\ stages.made /\ ~stages.full
    /\ answer = NoAnswer
    /\ x \notin scanned
    /\ scanned' = scanned \cup {x}
    /\ answer' = IF \E p \in stages.filters[x] : ~(Mentioned(p) \subseteq {x})
                 THEN [NoAnswer EXCEPT !.state = "error"] ELSE NoAnswer
    /\ UNCHANGED <<query, table, stages>>

\* What the scan of x returns: _build_scan_sql.
ScanRows(x) ==
    {r \in table[x] : \A p \in stages.filters[x] :
        True(p, IF x = "a" THEN <<r, NullRow>> ELSE <<NullRow, r>>)}

\* render_local_stage_sql: the query over the scans' results, which fails on a
\* column that a scan did not return.
LocalStage ==
    /\ stages.made /\ ~stages.full /\ scanned = Aliases
    /\ answer = NoAnswer
    /\ answer' = IF \E x \in Aliases : ~(ReadColumns(query, x) \subseteq stages.columns[x])
                 THEN [NoAnswer EXCEPT !.state = "error"]
                 ELSE Evaluate(query, [x \in Aliases |-> ScanRows(x)])
    /\ UNCHANGED <<query, table, stages, scanned>>

PlanNext ==
    \/ Optimize
    \/ RemoteFullQuery
    \/ \E x \in Aliases : RemoteScan(x)
    \/ LocalStage

PlanSpec == PlanInit /\ [][PlanNext]_planVars

-----------------------------------------------------------------------------
(* Properties                                                              *)

\* The outer join can fill the columns of x with NULLs.
Nullable(q, x) == q.join \in IF x = "a" THEN {"right", "full"} ELSE {"left", "full"}

\* A filter below an outer join that NULLs pass: the rows it takes away come
\* back as NULLs.
NullsPass(q) ==
    \E x \in Aliases : Nullable(q, x) /\
        \E p \in PushedFilters(q, x) : <<Null, Null>> \in p.holds

\* A plan loses no row of the query.  It adds none either, unless it filters
\* the inner side of an outer join by a predicate that NULLs pass, and another
\* part of the query that reads the same alias sees the rows it would see
\* unless the alias is filtered.  It fails only where the query writes a column
\* behind the table's name, or behind the alias in other letters, or where a
\* predicate on one alias has a column of the other without a table.
PlanComputesQuery ==
    /\ answer.state = "rows" =>
          LET right == Evaluate(query, table) IN
          /\ right.rows \subseteq answer.rows
          /\ answer.rows = right.rows \/ NullsPass(query)
          /\ answer.again = right.again \/ PushedFilters(query, query.again) # {}
    /\ answer.state = "error" =>
          \/ \E r \in query.select : r.by = "name"
          \/ query.left.names # {} \/ query.right.names # {}
          \/ \E x \in Aliases : \E p \in PushedFilters(query, x) : ~(p.bare \subseteq {x})
=============================================================================
