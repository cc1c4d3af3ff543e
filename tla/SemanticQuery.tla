---------------------------- MODULE SemanticQuery ----------------------------
(***************************************************************************)
(* The translation of a semantic query into a SELECT: which datasets it    *)
(* needs, which one is the base, how the JoinPlanner connects the others   *)
(* along the relationships of the model, and what each alias stands for.   *)
(* A member is abstracted to the dataset it belongs to; a metric to the    *)
(* datasets its expression mentions, and the prefix of its key, which in a *)
(* unified model is the source model's.  The rows that the joins produce   *)
(* are evaluated on small tables.                                          *)
(***************************************************************************)
EXTENDS Naturals, Sequences, SequencesExt, FiniteSets, Functions

CONSTANTS
    DatasetOrder,   \* keys of the model's datasets, sorted
    Relationships,  \* sequences of [from, to, type]
    SemanticQueries,
    RowIds,         \* rows of each dataset
    NoRow,          \* no row: NULLs
    NoKey           \* no dataset, no prefix, no query

VARIABLES
    relations,  \* relationships of the model
    links,      \* for each relationship, the row of its one side by row of its many side
    semantic,   \* the query
    select      \* its translation

semanticVars == <<relations, links, semantic, select>>

DatasetKeys == Range(DatasetOrder)

ASSUME SemanticAssumption ==
    /\ DatasetOrder \in Seq(DatasetKeys) /\ NoRow \notin RowIds
    /\ \A model \in Relationships : model \in Seq(Range(model))
    /\ \A q \in SemanticQueries :
          /\ \A member \in {"dimensions", "times", "measures", "segments"} : q[member] \in Seq(DatasetKeys)
          /\ \A m \in Range(q.metrics) : m.of \subseteq DatasetKeys
          /\ \A f \in Range(q.filters) : f.of \subseteq DatasetKeys

SemanticInit ==
    /\ relations \in Relationships
    /\ links \in [DOMAIN relations -> [RowIds -> RowIds \cup {NoRow}]]
    /\ semantic \in SemanticQueries
    /\ select = NoKey

-----------------------------------------------------------------------------
(* JoinPlanner                                                             *)

\* _build_graph: a relationship leads from either of its ends to the other.
Ends(i)     == {relations[i].from, relations[i].to}
Other(d, i) == IF relations[i].from = d THEN relations[i].to ELSE relations[i].from

\* A relationship of the dataset taken from the queue: its other end is the goal,
\* or is queued unless it was visited before.
Look(search, here, goal, i) ==
    LET there == Other(here.at, i)
        path  == Append(here.path, i)
    IN  IF search.found \/ here.at \notin Ends(i) \/ there \in search.visited THEN search
        ELSE IF there = goal THEN [search EXCEPT !.found = TRUE, !.path = path]
        ELSE [search EXCEPT !.visited = @ \cup {there},
                            !.queue = Append(@, [at |-> there, path |-> path])]

\* One dataset is taken from the queue of the breadth-first search.
Expand(search, goal) ==
    IF search.found \/ search.queue = <<>> THEN search
    ELSE FoldLeftDomain(LAMBDA s, i : Look(s, Head(search.queue), goal, i),
                        [search EXCEPT !.queue = Tail(@)], relations)

\* _find_path.  No dataset is queued twice, so the search is over after as many
\* turns as there are names of datasets.
FindPath(start, goal) ==
    FoldLeft(LAMBDA s, name : Expand(s, goal),
             [queue |-> <<[at |-> start, path |-> <<>>]>>, visited |-> {start},
              found |-> FALSE, path |-> <<>>],
             <<start>> \o DatasetOrder \o relations \o relations)

\* Mutant of BothJoined: a relationship is joined though its datasets are.
BothJoinedNever(plan, i) == FALSE

\* Both ends of the relationship are joined.
BothJoined(plan, i) == Ends(i) \subseteq plan.joined

\* A relationship of a path: the end that is not joined yet is joined.
JoinOne(plan, i) ==
    LET r == relations[i] IN
    IF plan.failed \/ BothJoined(plan, i) THEN plan
    ELSE IF r.from \in plan.joined
         THEN [plan EXCEPT !.joined = @ \cup {r.to}, !.steps = Append(@, [by |-> i, left |-> r.from, right |-> r.to])]
    ELSE IF r.to \in plan.joined
         THEN [plan EXCEPT !.joined = @ \cup {r.from}, !.steps = Append(@, [by |-> i, left |-> r.to, right |-> r.from])]
    ELSE [plan EXCEPT !.failed = TRUE]

\* plan, for one of the required datasets.
Reach(plan, base, required, d) ==
    LET search == FindPath(base, d) IN
    IF plan.failed \/ d \notin required \ {base} THEN plan
    ELSE IF search.found THEN FoldLeft(JoinOne, plan, search.path)
    ELSE [plan EXCEPT !.failed = TRUE]

\* plan: the paths from the base to the other datasets, sorted.
JoinPlan(base, required) ==
    FoldLeft(LAMBDA plan, d : Reach(plan, base, required, d),
             [failed |-> FALSE, joined |-> {base}, steps |-> <<>>], DatasetOrder)

-----------------------------------------------------------------------------
(* TsqlSemanticTranslator                                                  *)

\* _collect_required_datasets: the members to be ordered by are not among them.
Required(q) ==
    Range(q.dimensions) \cup Range(q.times) \cup Range(q.measures) \cup Range(q.segments)
    \cup (UNION {m.of : m \in Range(q.metrics)}) \cup (UNION {f.of : f \in Range(q.filters)})

\* Mutant of ChooseBase: the dimensions come first.
ChooseBaseDimension(q) ==
    IF q.dimensions # <<>> THEN q.dimensions[1]
    ELSE IF q.measures # <<>> THEN q.measures[1] ELSE NoKey

\* _choose_base_dataset.  For a metric it looks for a dataset in the key, not
\* in the expression.
ChooseBase(q) ==
    IF q.measures # <<>> THEN q.measures[1]
    ELSE IF q.metrics # <<>> /\ q.metrics[1].prefix # NoKey THEN q.metrics[1].prefix
    ELSE IF q.times # <<>> THEN q.times[1]
    ELSE IF q.dimensions # <<>> THEN q.dimensions[1]
    ELSE IF q.filters # <<>>
         THEN IF q.filters[1].of = {} THEN NoKey ELSE CHOOSE d \in q.filters[1].of : TRUE
    ELSE IF q.segments # <<>> THEN q.segments[1]
    ELSE NoKey

\* _build_alias_map: t0 for the base, and the datasets as they are joined.
WithAlias(order, d) == IF d \in Range(order) THEN order ELSE Append(order, d)
AliasMap(base, steps) ==
    FoldLeft(LAMBDA order, s : WithAlias(WithAlias(order, s.right), s.left), <<base>>, steps)

\* _join_type
JoinType(type) ==
    IF type \in {"one_to_many", "many_to_one", "one_to_one"} THEN "left"
    ELSE IF type \in {"left", "right", "full"} THEN type ELSE "inner"

\* _build_selects, which raises if nothing is selected.
NothingSelected(q) == q.dimensions \o q.times \o q.measures = <<>> /\ q.metrics = <<>>

\* _resolve_order_member and its fallback: an alias of the dataset is needed.
Orderable(q, aliases) == Range(q.order) \subseteq Range(aliases)

\* _build_where_conditions, _build_having_conditions: by what a filter is on.
ConditionsOn(q, kinds) == {f.of : f \in {g \in Range(q.filters) : g.kind \in kinds}}

\* _apply_from
JoinsOf(steps) ==
    [i \in DOMAIN steps |->
        [by |-> steps[i].by, dataset |-> steps[i].right, type |-> JoinType(relations[steps[i].by].type)]]

\* translate.  It fails when there is no base or no path, when nothing is
\* selected, when the order names a dataset that is not joined, and when one that
\* is joined is not of the model, whose relationships may name others.
Translate(q) ==
    LET base    == ChooseBase(q)
        plan    == JoinPlan(base, Required(q))
        aliases == AliasMap(base, plan.steps)
    IN  IF \/ plan.failed \/ ~(Range(aliases) \subseteq DatasetKeys)
           \/ NothingSelected(q) \/ ~Orderable(q, aliases)
        THEN [failed |-> TRUE]
        ELSE [failed |-> FALSE, aliases |-> aliases, from |-> JoinsOf(plan.steps),
              reads  |-> Required(q) \cup Range(q.order),
              group  |-> q.dimensions \o q.times,
              where  |-> ConditionsOn(q, {"dimension"}) \cup {{d} : d \in Range(q.segments)},
              having |-> ConditionsOn(q, {"measure", "metric"})]

\* SemanticQueryEngine.compile
CompileSemantic ==
    /\ select = NoKey
    /\ select' = Translate(semantic)
    /\ UNCHANGED <<relations, links, semantic>>

SemanticNext == CompileSemantic

SemanticSpec == SemanticInit /\ [][SemanticNext]_semanticVars

-----------------------------------------------------------------------------
(* The rows of its FROM clause                                             *)

\* The rows of two datasets match along a relationship.
ManySide(i) == IF relations[i].type = "one_to_many" THEN relations[i].to ELSE relations[i].from
OneSide(i)  == IF relations[i].type = "one_to_many" THEN relations[i].from ELSE relations[i].to
RowsMatch(i, combined) ==
    /\ combined[ManySide(i)] # NoRow /\ combined[OneSide(i)] # NoRow
    /\ links[i][combined[ManySide(i)]] = combined[OneSide(i)]

Combine(combined, d, row) == [e \in DOMAIN combined \cup {d} |-> IF e = d THEN row ELSE combined[e]]

JoinRows(rows, join) ==
    UNION {LET matched == {c \in {Combine(r, join.dataset, x) : x \in RowIds} : RowsMatch(join.by, c)}
           IN  IF matched = {} /\ join.type = "left" THEN {Combine(r, join.dataset, NoRow)} ELSE matched :
           r \in rows}

FromRows == FoldLeft(JoinRows, {[d \in {select.aliases[1]} |-> x] : x \in RowIds}, select.from)

-----------------------------------------------------------------------------
(* Properties                                                              *)

Compiled == select # NoKey /\ ~select.failed

\* The datasets that relationships lead to.
WithNeighbours(s) == s \cup UNION {Ends(i) : i \in {j \in DOMAIN relations : Ends(j) \cap s # {}}}
Connected(d, e)   == e \in FoldLeft(LAMBDA s, name : WithNeighbours(s), {d}, DatasetOrder)

\* What is selected is well formed: an ON clause mentions datasets that are
\* joined by then, none is joined twice, and every dataset that a clause reads
\* has an alias.  And a query with a measure is translated whenever its
\* datasets are connected to the measure's, through whatever other datasets of
\* the model.
SelectSound ==
    /\ Compiled =>
          /\ IsInjective(select.aliases) /\ Len(select.aliases) = Len(select.from) + 1
          /\ select.reads \subseteq Range(select.aliases)
          /\ \A i \in DOMAIN select.from :
                Ends(select.from[i].by)
                  \subseteq {select.aliases[1]} \cup {select.from[j].dataset : j \in 1..i}
    /\ /\ select # NoKey /\ semantic.measures # <<>>
       /\ \A i \in DOMAIN relations : Ends(i) \subseteq DatasetKeys
       /\ Range(semantic.order) \subseteq Required(semantic)
       /\ \A d \in Required(semantic) : Connected(semantic.measures[1], d)
       => Compiled

\* A measure counts each row of its dataset once, if the joins go from the many
\* to the one side and none is an inner join.
CountsOnce ==
    /\ Compiled /\ semantic.measures # <<>>
    /\ \A i \in DOMAIN select.from : OneSide(select.from[i].by) = select.from[i].dataset
                                     /\ select.from[i].type = "left"
    => \A x \in RowIds : Cardinality({c \in FromRows : semantic.measures[1] \in DOMAIN c
                                                       /\ c[semantic.measures[1]] = x}) = 1
=============================================================================
