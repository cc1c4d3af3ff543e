------------------------------- MODULE Answer -------------------------------
(***************************************************************************)
(* From the result of a turn to the answer that is delivered: the chart    *)
(* that the visual agent, the orchestrator and the agent execution service *)
(* settle one after the other, the facts that are read off the rows, and   *)
(* the summary, which does without the language model if that fails.       *)
(*                                                                         *)
(* Data abstraction: a cell has a text, and what it is as a number and as  *)
(* a point in time; a claim is a record of what it says of which rows.     *)
(* Wording, caveats, key rows, aggregates, and the columns a chart is      *)
(* drawn from are left out; NaN and booleans do not occur.                 *)
(***************************************************************************)
EXTENDS Integers, Sequences, FiniteSets

CONSTANTS
    Tables,      \* tables: cols, a sequence of names, and rows, a sequence of cells by name
    Traits,       \* of a name: words, hint (a measure's word), timely (a word of time),
                  \* timelike (contains one), id, rank (by letters)
    AnswerQuestions,        \* questions: words, phrase (how it speaks of a chart)
    NoCell, NoNumber, NoTime,
    Raises,       \* a text like 1234-56, at which the parser of times raises
    NoColumn,
    GroundingRows, TimeRows, ChartTimes, ChartRows,  \* cells that are looked at: 50, 20, 12, 20
    MaxCategories, MaxSlices             \* categories of a chart: 60, 8

Charts  == {"line", "bar", "scatter", "pie"}
NoChart == [type |-> "none", warn |-> "no"]
NoSummary == [kind |-> "none", facts |-> {}, note |-> <<>>]
NoRows  == [cols |-> <<>>, rows |-> <<>>]

ASSUME AnswerAssumption ==
    /\ \A t \in Tables :
          /\ t.cols \in Seq(DOMAIN Traits)
          /\ DOMAIN t.rows = 1..Len(t.rows) /\ Len(t.rows) \in Nat
          /\ \A i \in DOMAIN t.rows, k \in DOMAIN t.cols :
                LET cell == t.rows[i][t.cols[k]]
                IN cell # NoCell => /\ cell.num = NoNumber \/ cell.num \in Int
                                    /\ cell.time \in {NoTime, Raises} \/ cell.time.at \in Int
    /\ \A c \in DOMAIN Traits : IsFiniteSet(Traits[c].words) /\ Traits[c].rank \in Int

\* What the result of a turn consists of.
Turns == [question : AnswerQuestions, table : Tables \cup {NoRows}, error : BOOLEAN, clarify : BOOLEAN,
          research : BOOLEAN, web : BOOLEAN, analyst : BOOLEAN]

VARIABLES
    turn,       \* what there is to answer with
    stage,      \* "off", "chart", "ensure", "summary", "deliver", "done"
    chart,      \* the visualization; warn: "no", "visual" or "llm" wrote a warning
    summary     \* facts it states, note: what it says of a chart

answerVars == <<turn, stage, chart, summary>>

Minimal(S, Key(_)) == CHOOSE x \in S : \A y \in S : Key(x) <= Key(y)
Maximal(S, Key(_)) == CHOOSE x \in S : \A y \in S : Key(y) <= Key(x)

-----------------------------------------------------------------------------
(* Columns of a table                                                      *)

Names(t)       == {t.cols[k] : k \in DOMAIN t.cols}
Position(t, c) == CHOOSE k \in DOMAIN t.cols : t.cols[k] = c
Filled(t, c)   == {i \in DOMAIN t.rows : t.rows[i][c] # NoCell}

\* The filled rows among the first max, and the first max filled rows.
Among(t, c, max)   == {i \in Filled(t, c) : i <= max}
FirstOf(t, c, max) == {i \in Filled(t, c) : Cardinality({j \in Filled(t, c) : j <= i}) <= max}

IsNumber(cell) == cell.num # NoNumber
IsTime(cell)   == cell.time \notin {NoTime, Raises}

WithNumber(t, c) == {i \in Filled(t, c) : IsNumber(t.rows[i][c])}
WithTime(t, c)   == {i \in Filled(t, c) : IsTime(t.rows[i][c])}

\* At least percent of the seen rows are such rows.
Mostly(seen, such, percent) ==
    seen # {} /\ 100 * Cardinality(seen \cap such) >= percent * Cardinality(seen)

-----------------------------------------------------------------------------
(* Facts: analysis_grounding.py                                            *)

Bottom(q)     == "lowest" \in q.words
Comparison(q) == "compare" \in q.words
Trend(q)      == q.words \cap {"trend", "year", "month"} # {}
Share(q)      == "share" \in q.words

\* _is_numeric_column, _is_temporal_column
NumericColumns(t)  == {c \in Names(t) : Mostly(Among(t, c, GroundingRows), WithNumber(t, c), 80)}
TemporalColumns(t) == {c \in Names(t) : Traits[c].timely \/ Mostly(Among(t, c, TimeRows), WithTime(t, c), 80)}

Overlap(q, c) == Cardinality(Traits[c].words \cap q.words)

\* _choose_primary_measure
Measure(q, t) ==
    LET Key(c) == 100 * Overlap(q, c) + (IF Traits[c].hint THEN 50 ELSE 0) + Traits[c].rank
    IN IF NumericColumns(t) = {} THEN NoColumn ELSE Maximal(NumericColumns(t), Key)

\* _choose_primary_dimension: a trend takes the first column of time, even one
\* of numbers, if some column is not.
Dimension(q, t) ==
    LET from   == Names(t) \ NumericColumns(t)
        times  == TemporalColumns(t)
        Key(c) == 100 * Overlap(q, c) - (IF c \in times THEN 50 ELSE 0) + Traits[c].rank
        At(c)  == Position(t, c)
    IN IF from = {} THEN NoColumn
       ELSE IF Trend(q) /\ times # {} THEN Minimal(times, At)
       ELSE Maximal(from, Key)

\* The rows that have both.
Entries(t, d, m) == {i \in Filled(t, d) \cap Filled(t, m) : IsNumber(t.rows[i][m])}

\* A stable sort by value, the greatest first.
Before(t, m, i, j) ==
    \/ t.rows[i][m].num > t.rows[j][m].num
    \/ t.rows[i][m].num = t.rows[j][m].num /\ i < j
Ranked(t, m, es) ==
    [k \in 1..Cardinality(es) |-> CHOOSE i \in es : Cardinality({j \in es : Before(t, m, j, i)}) = k - 1]

Claim(says, of) == [says |-> says, of |-> of]

\* _ranking_observations
RankingFacts(q, t, m, es) ==
    LET r     == Ranked(t, m, es)
        n     == Len(r)
        Total == LET sum[k \in 0..n] == IF k = 0 THEN 0 ELSE sum[k - 1] + t.rows[r[k]][m].num IN sum[n]
        first == CASE Bottom(q) -> {Claim("lowest", <<r[n]>>)}
                                     \cup (IF n > 1 THEN {Claim("trails", <<r[n], r[n - 1]>>)} ELSE {})
                   [] ~Bottom(q) /\ Comparison(q) /\ n = 2 -> {Claim("higher", <<r[1], r[2]>>)}
                   [] OTHER -> {Claim("highest", <<r[1]>>)}
                                 \cup (IF n > 1 THEN {Claim("leads", <<r[1], r[2]>>), Claim("lowest", <<r[n]>>)}
                                       ELSE {})
    IN first
         \cup (IF n >= 3 THEN {Claim("ranking", SubSeq(r, 1, IF n < 4 THEN n ELSE 4))} ELSE {})
         \cup (IF Total > 0 /\ (Share(q) \/ n >= 3) THEN {Claim("contributes", <<r[1]>>)} ELSE {})

When(t, d, i) == t.rows[i][d].time.at

\* Mutant of Ordered: the rows are taken as they came.
OrderedAsReturned(t, d, es) == [k \in 1..2 |-> LET Key(i) == IF k = 1 THEN i ELSE -i IN Minimal(es, Key)]

\* The first and the last row by time.
Ordered(t, d, es) ==
    << CHOOSE i \in es : \A j \in es : When(t, d, i) < When(t, d, j) \/ (When(t, d, i) = When(t, d, j) /\ i <= j),
       CHOOSE i \in es : \A j \in es : When(t, d, i) > When(t, d, j) \/ (When(t, d, i) = When(t, d, j) /\ i >= j) >>

\* _temporal_trend_observations: what there is to say of rows in the order of time.
Monotone(t, d, es) ==
    \/ \A i, j \in es : i < j => When(t, d, i) <= When(t, d, j)
    \/ \A i, j \in es : i < j => When(t, d, i) >= When(t, d, j)

TrendFacts(t, d, m, es) ==
    LET o     == Ordered(t, d, es)
        delta == t.rows[o[2]][m].num - t.rows[o[1]][m].num
    IN {Claim(IF delta > 0 THEN "rises" ELSE IF delta < 0 THEN "falls" ELSE "flat", o)}

\* Texts without a time end the attempt; a text at which the parser raises, or
\* times of different kinds, which cannot be compared, end the analysis.
FirstUntimed(t, d, es) ==
    LET bad    == {i \in es : ~IsTime(t.rows[i][d])}
        Key(i) == i
    IN IF bad = {} THEN NoTime ELSE t.rows[Minimal(bad, Key)][d].time
Untimed(t, d, es) == \E i \in es : ~IsTime(t.rows[i][d])
Mixed(t, d, es)   == ~Untimed(t, d, es) /\ \E i, j \in es : t.rows[i][d].time.clock # t.rows[j][d].time.clock

Analysis(kind, facts) == [kind |-> kind, facts |-> facts]

\* build_analyst_grounding
Grounding(q, t) ==
    LET m  == Measure(q, t)
        d  == Dimension(q, t)
        es == Entries(t, d, m)
        parserRaises == \E c \in Names(t) : /\ ~Traits[c].timely
                                            /\ \E i \in Filled(t, c) : i <= TimeRows /\ t.rows[i][c].time = Raises
        timed == d \in TemporalColumns(t)
    IN CASE Names(t) = {} \/ t.rows = <<>> -> Analysis("empty", {})
         [] OTHER ->
            IF parserRaises THEN Analysis("fallback", {})
            ELSE IF m = NoColumn THEN Analysis("categorical", {})
            ELSE IF d = NoColumn THEN Analysis("single_measure", {})
            ELSE IF es = {} THEN Analysis("sparse_measure", {})
            ELSE IF timed /\ (FirstUntimed(t, d, es) = Raises \/ Mixed(t, d, es)) THEN Analysis("fallback", {})
            ELSE IF timed /\ ~Untimed(t, d, es) /\ Monotone(t, d, es)
                 THEN Analysis("trend", TrendFacts(t, d, m, es))
            ELSE Analysis("ranking", RankingFacts(q, t, m, es))

-----------------------------------------------------------------------------
(* Charts: visual agent                                                    *)

\* _detect_requested_chart_type, which there are three of: a word pie, at the end
\* of the question (pie_last), the end of a word (magpie), a part of one (piece)
VisualReads(p) ==
    IF p \in {"pie_chart", "pie_word", "pie_last", "magpie", "piece"} THEN "pie"
    ELSE IF p \in {"bar", "line", "scatter", "table"} THEN p ELSE "none"
OrchestratorReads(p) ==
    IF p \in {"pie_chart", "pie_word", "magpie"} THEN "pie"
    ELSE IF p \in {"bar", "line", "scatter"} THEN p ELSE "none"
ServiceReads(p) ==
    IF p \in {"pie_chart", "pie_word", "pie_last"} THEN "pie"
    ELSE IF p \in {"bar", "line", "scatter"} THEN p ELSE "none"

\* _normalize_dataframe, _profile_dataframe
Numbers(t)     == {c \in Names(t) : Mostly(Filled(t, c), WithNumber(t, c), 80)}
Times(t)       == {c \in Names(t) : IF c \in Numbers(t) THEN Traits[c].timelike
                                    ELSE Mostly(FirstOf(t, c, ChartTimes), WithTime(t, c), 60)}
Categories(t)  == Names(t) \ (Numbers(t) \cup Times(t))
Unique(t, c)   == Cardinality({t.rows[i][c] : i \in Filled(t, c)})
FewValues(t)   == IF Len(t.rows) < 15 THEN 3 ELSE IF Len(t.rows) > 100 THEN 20 ELSE Len(t.rows) \div 5
LowNumbers(t)  == {c \in Numbers(t) \ Times(t) : ~Traits[c].id /\ Unique(t, c) \in 2..FewValues(t)}
MeasuresOf(t)  == LET plain == {c \in Numbers(t) \ Times(t) : ~Traits[c].id}
                      all   == Numbers(t) \ Times(t)
                  IN IF plain # {} THEN plain ELSE IF all # {} THEN all ELSE Numbers(t)

\* _select_dimension: the fewest values win, over time as well.
AxisOf(t, timed, max) ==
    LET some  == {c \in Categories(t) \cup LowNumbers(t) \cup (IF timed THEN Times(t) ELSE {}) : Unique(t, c) > 1}
        small == {c \in some : Unique(t, c) <= max}
        from  == IF small = {} THEN some ELSE small
        class(c) == IF c \in Times(t) THEN 0 ELSE IF c \in Categories(t) THEN 1 ELSE 2
        Key(c) == 1000 * Unique(t, c) + 100 * class(c) + Position(t, c)
    IN IF from = {} THEN NoColumn ELSE Minimal(from, Key)

\* _build_candidates, _build_spec_for_chart
CanDraw(type, t) ==
    LET axis == CASE type = "line" -> AxisOf(t, TRUE, MaxCategories)
                  [] type = "bar"  -> AxisOf(t, FALSE, MaxCategories)
                  [] type = "pie"  -> AxisOf(t, FALSE, MaxSlices)
                  [] OTHER         -> NoColumn
    IN IF type = "scatter" THEN Cardinality(MeasuresOf(t)) >= 2
       ELSE axis # NoColumn /\ MeasuresOf(t) \ {axis} # {}

ChartSpec(type, warn) == [type |-> type, warn |-> warn]

\* _choose_chart_heuristic: some chart that can be drawn; _coerce_llm_payload: a
\* table too, and a warning of the language model's own
Chosen(t) ==
    LET able == {type \in Charts : CanDraw(type, t)}
    IN {ChartSpec(type, "no") : type \in IF able = {} THEN {"table"} ELSE able}
         \cup {ChartSpec(type, warn) : type \in able \cup {"table"}, warn \in {"no", "llm"}}

\* _choose_chart: what the question asks for goes first.
Settled(c, requested, t) ==
    IF requested \in {"none", c.type} THEN c
    ELSE IF requested = "table" \/ CanDraw(requested, t) THEN ChartSpec(requested, "no")
    ELSE ChartSpec("table", "visual")

-----------------------------------------------------------------------------
(* Charts: orchestrator and service                                        *)

\* _build_requested_visualization_spec, _build_chart_spec; the service does not
\* take a pound sign off.
DrawsFromSample(type, t, pounds) ==
    LET read(c) == {i \in WithNumber(t, c) : pounds \/ ~t.rows[i][c].pound}
        numeric == {c \in Names(t) : Mostly(Among(t, c, ChartRows), read(c), 60)}
    IN /\ numeric # {}
       /\ IF type = "scatter" THEN Cardinality(numeric) >= 2 ELSE Names(t) \ numeric # {}

\* _ensure_requested_visualization
Ensured(c, requested, t, pounds) ==
    IF requested \notin {"none", c.type} /\ DrawsFromSample(requested, t, pounds) THEN ChartSpec(requested, "no") ELSE c

-----------------------------------------------------------------------------
(* Steps                                                                   *)

\* The visual agent runs on the rows, as a step of the plan even without any;
\* it is not reached, or raises.
Visualize ==
    /\ stage = "chart"
    /\ chart' \in {NoChart} \cup {Settled(c, VisualReads(turn.question.phrase), turn.table) : c \in Chosen(turn.table)}
    /\ stage' = "ensure"
    /\ UNCHANGED <<turn, summary>>

EnsureChart ==
    /\ stage = "ensure"
    /\ chart' = Ensured(chart, OrchestratorReads(turn.question.phrase), turn.table, TRUE)
    /\ stage' = "summary"
    /\ UNCHANGED <<turn, summary>>

\* _build_visualization_note
Note(c, p) ==
    LET requested == OrchestratorReads(p)
    IN CASE c = NoChart -> IF requested = "none" THEN <<>> ELSE <<"not", requested>>
         [] c # NoChart /\ c.warn = "visual" -> <<"not", VisualReads(p)>>
         [] c # NoChart /\ c.warn = "llm" -> <<>>
         [] OTHER -> IF requested \notin {"none", c.type} THEN <<"not", requested>>
                     ELSE IF c.type # "table" THEN <<"made", c.type>> ELSE <<>>

\* _fallback_summary
Fallback ==
    CASE turn.research -> [NoSummary EXCEPT !.kind = "research"]
      [] ~turn.research /\ turn.web /\ turn.table = NoRows -> [NoSummary EXCEPT !.kind = "web"]
      [] OTHER ->
         IF turn.error THEN [NoSummary EXCEPT !.kind = "failure"]
         ELSE IF turn.analyst
              THEN [kind |-> "grounding", facts |-> Grounding(turn.question, turn.table).facts,
                    note |-> Note(chart, turn.question.phrase)]
         ELSE [NoSummary EXCEPT !.kind = "counts"]

\* summarize_response; the text may be blocked by the guardrails.
Summarize ==
    /\ stage = "summary"
    /\ summary' \in IF turn.clarify THEN {[NoSummary EXCEPT !.kind = k] : k \in {"clarify", "blocked"}}
                  ELSE {[NoSummary EXCEPT !.kind = k] : k \in {"llm", "blocked"}} \cup {Fallback}
    /\ stage' = "deliver"
    /\ UNCHANGED <<turn, chart>>

\* _ensure_response_defaults
Deliver ==
    /\ stage = "deliver"
    /\ chart' = Ensured(chart, ServiceReads(turn.question.phrase), turn.table, FALSE)
    /\ stage' = "done"
    /\ UNCHANGED <<turn, summary>>

AnswerIdle ==
    /\ turn = [question |-> CHOOSE q \in AnswerQuestions : TRUE, table |-> NoRows, error |-> FALSE, clarify |-> FALSE,
               research |-> FALSE, web |-> FALSE, analyst |-> FALSE]
    /\ stage = "off" /\ chart = NoChart /\ summary = NoSummary

\* A failed analyst has no rows, the research may have.
AnswerInit ==
    /\ turn \in {u \in Turns : u.error /\ ~u.research => u.table = NoRows}
    /\ stage = "chart" /\ chart = NoChart /\ summary = NoSummary

AnswerNext == Visualize \/ EnsureChart \/ Summarize \/ Deliver

AnswerSpec == AnswerInit /\ [][AnswerNext]_answerVars

-----------------------------------------------------------------------------
(* Properties                                                              *)

\* What a claim means, over the rows that have a label and a value.
Holds(c, t, d, m) ==
    LET es       == Entries(t, d, m)
        Value(i) == t.rows[i][m].num
        others(i) == es \ {i}
    IN CASE c.says \in {"highest", "contributes"} -> \A j \in es : Value(c.of[1]) >= Value(j)
         [] c.says = "lowest"  -> \A j \in es : Value(c.of[1]) <= Value(j)
         [] c.says = "leads"   -> \A j \in others(c.of[1]) : Value(c.of[1]) >= Value(c.of[2]) /\ Value(c.of[2]) >= Value(j)
         [] c.says = "trails"  -> \A j \in others(c.of[1]) : Value(c.of[1]) <= Value(c.of[2]) /\ Value(c.of[2]) <= Value(j)
         [] c.says = "higher"  -> Value(c.of[1]) >= Value(c.of[2])
         [] c.says = "ranking" -> \A k \in DOMAIN c.of : \A j \in es \ {c.of[l] : l \in 1..k} : Value(c.of[k]) >= Value(j)
         [] OTHER -> /\ \A j \in es : When(t, d, c.of[1]) <= When(t, d, j) /\ When(t, d, j) <= When(t, d, c.of[2])
                     /\ c.says = "rises" <=> Value(c.of[2]) > Value(c.of[1])
                     /\ c.says = "falls" <=> Value(c.of[2]) < Value(c.of[1])

\* The detectors of the service and of the others read the question, and the
\* cells, alike.
ReadAlike ==
    /\ turn.question.phrase # "pie_last"
    /\ \A i \in DOMAIN turn.table.rows : \A c \in Names(turn.table) :
         turn.table.rows[i][c] # NoCell => ~turn.table.rows[i][c].pound

\* An answer that the language model did not write is true: what it says of
\* highest, lowest and trend holds of the rows, in whatever order they came, a
\* failed analysis is not reported as a result, and the chart it says was
\* made is delivered and the one it says was not is not
\* (build_analyst_grounding, ResponseFormatter._fallback_summary).
AnswerTrue ==
    /\ \A c \in summary.facts :
         Holds(c, turn.table, Dimension(turn.question, turn.table), Measure(turn.question, turn.table))
    /\ summary.kind \in {"grounding", "counts"} => ~turn.error
    /\ stage = "done" /\ summary.note # <<>> /\ ReadAlike =>
         (summary.note[1] = "made" <=> chart.type = summary.note[2])
=============================================================================
