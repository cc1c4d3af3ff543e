------------------------------ MODULE Research ------------------------------
(***************************************************************************)
(* The two agents that look things up.  WebSearchAgent tries the queries   *)
(* the language model makes of a question, and the question, at a search   *)
(* provider, and keeps the best pages.  DeepResearchAgent plans            *)
(* sub-questions, gathers evidence for one after the other from the        *)
(* context and the web until it has enough or its budget is used up, and   *)
(* reports findings that name their evidence.  How well a text fits a      *)
(* question is a constant; what is asked, counted, kept and cited follows  *)
(* the code.                                                               *)
(***************************************************************************)
EXTENDS Naturals, TLC, SequencesExt

CONSTANTS
    Subject,             \* the question of the user
    Queries,             \* what is asked, of the provider or of the evidence
    SubQuestions,        \* sub-questions the language model or the fallback asks
    Facts,               \* of documents, memories, rows and pages: kind, ref (or
                         \* NoRef), domain, long
    NoRef,
    Fit(_, _),           \* percent of a question's words in a text
    WebFit(_, _),        \* _score_result of a page, in percent
    Alike,               \* pairs of texts with the same words
    Instant(_), Lite(_), \* pages the provider's two interfaces list for a query
    Refinements(_),      \* queries the language model may make of a question
    Contexts,            \* the evidence a step may hand to the agent
    LlmPlans,            \* plans the language model may propose
    DefaultSteps,        \* default_max_steps, bounded by the time box
    MaxResults,          \* pages asked for
    PerStep,             \* evidence added by a step
    Diversity,           \* min_source_diversity
    Invented,            \* an evidence id nobody gathered
    Fails                \* the language model's answer cannot be used

ASSUME ResearchBounds ==
    /\ DefaultSteps \in Nat \ {0} /\ MaxResults \in Nat \ {0}
    /\ PerStep \in Nat \ {0} /\ Diversity \in Nat \ {0}
    /\ Subject \in Queries /\ SubQuestions \in Seq(Queries)
    /\ \A p \in LlmPlans : p.subs \in Seq(Queries)
    /\ Contexts \subseteq Seq(DOMAIN Facts)
    /\ \A i \in DOMAIN Facts : Facts[i].kind \in {"internal", "sql", "web", "memory"}
    /\ \A q \in Queries :
          /\ Refinements(q) \subseteq Seq(Queries)
          /\ Instant(q) \in Seq(DOMAIN Facts) /\ Lite(q) \in Seq(DOMAIN Facts)
          /\ \A i \in DOMAIN Facts : Fit(q, i) \in Nat /\ WebFit(q, i) \in Nat

VARIABLES
    job,       \* "idle", or what runs: "plan", "gather", "report", "done", "search", "found"
    given,     \* the evidence in the context
    agenda,    \* the ResearchPlan
    open,      \* open_questions
    answered,  \* answered_questions
    pool,      \* evidence_pool
    steps,     \* steps_taken
    idle,      \* diminishing_returns_count
    stop,      \* stop_reason
    outcome     \* the ResearchReport, or the WebSearchResult

researchVars == <<job, given, agenda, open, answered, pool, steps, idle, stop, outcome>>

NoOutcome == [findings |-> {}, pages |-> <<>>, seen |-> <<>>, weak |-> TRUE]

Least(a, b) == IF a < b THEN a ELSE b

-----------------------------------------------------------------------------
(* WebSearchAgent                                                          *)

\* DuckDuckGoInstantAnswerProvider: the second interface is asked only if the
\* first lists nothing.
Provider(query) ==
    LET pages == IF Instant(query) # <<>> THEN Instant(query) ELSE Lite(query)
    IN SubSeq(pages, 1, Least(Len(pages), Least(MaxResults, 8)))

\* The refined queries come first: of more than three the question is not tried.
QueriesTried(question, refined) ==
    LET all == IF question \in ToSet(refined) THEN refined ELSE Append(refined, question)
    IN SubSeq(all, 1, Least(3, Len(all)))

\* A page that is new is added; after the limit is met the query is left, the
\* next one may still add a page.
AddPage(acc, page) ==
    IF acc.full \/ page \in ToSet(acc.pages) THEN acc
    ELSE [pages |-> Append(acc.pages, page), full |-> Len(acc.pages) + 1 >= 2 * MaxResults]

\* _execute_query_sequence_async: a query whose request fails is passed over.
Collected(queries, lost) ==
    FoldLeft(LAMBDA acc, query :
                IF query \in lost THEN acc
                ELSE FoldLeft(AddPage, [pages |-> acc, full |-> FALSE], Provider(query)).pages,
             <<>>, queries)

\* A sort by falling score, which leaves what scores alike as it came: the
\* positions S of the scores in their new order.
Outranks(score, i, j) == score[i] > score[j] \/ (score[i] = score[j] /\ i < j)
InOrder(score, S) ==
    [k \in 1..Cardinality(S) |-> CHOOSE i \in S : Cardinality({j \in S : Outranks(score, j, i)}) = k - 1]
ByScore(s, score, S) == LET order == InOrder(score, S) IN [k \in 1..Cardinality(S) |-> s[order[k]]]

\* The best pages that fit, or the best ones if none does.
Triage(question, pages) ==
    LET score == [k \in DOMAIN pages |-> WebFit(question, pages[k])]
        fit   == {k \in DOMAIN pages : score[k] >= 18}
        best  == ByScore(pages, score, IF fit = {} THEN DOMAIN pages ELSE fit)
    IN SubSeq(best, 1, Least(MaxResults, Len(best)))

\* The pages a search that is given these refinements and loses these queries keeps.
Found(question, refined, lost) ==
    Triage(question, Collected(QueriesTried(question, refined), lost))

\* _synthesize_answer: what the language model answers is taken as it is.
SearchAnswer(pages, llm) ==
    CASE pages = <<>>   -> [cites |-> {}, weak |-> TRUE, followUp |-> TRUE]
      [] llm # Fails    -> [cites |-> {Invented}, weak |-> llm = "weak", followUp |-> FALSE]
      [] OTHER          -> [cites |-> ToSet(SubSeq(pages, 1, Least(3, Len(pages)))),
                            weak |-> Len(pages) < 2, followUp |-> Len(pages) < 2]

\* The agent on its own, as the WebSearch step of a plan.
Search(refined, lost, llm) ==
    LET pages  == Found(Subject, refined, lost)
        answer == SearchAnswer(pages, llm)
    IN /\ job = "search"
       /\ outcome' = [findings |-> {},
                      pages |-> pages,
                      seen  |-> Collected(QueriesTried(Subject, refined), lost),
                      weak  |-> answer.weak \/ Len(pages) < Least(2, MaxResults)]
       /\ job' = "found"
       /\ UNCHANGED <<given, agenda, open, answered, pool, steps, idle, stop>>

-----------------------------------------------------------------------------
(* DeepResearchAgent: the plan                                             *)

FallbackPlan == [subs |-> SubQuestions, tools |-> {"web_search"}, steps |-> DefaultSteps, target |-> 72]

\* _coerce_tool_strategy: what the context holds is a tool, whatever the plan says.
\* Internal evidence is used whatever the strategy is.
ToolsOf(plan, context) ==
    plan.tools \cup (IF \E i \in ToSet(context) : Facts[i].kind = "sql" THEN {"sql"} ELSE {})

\* A plan without sub-questions is refused; the time box bounds its steps.
Plan(llm) ==
    LET plan == IF llm = Fails \/ llm.subs = <<>> THEN FallbackPlan ELSE llm
    IN /\ job = "plan"
       /\ agenda' = [plan EXCEPT !.tools = ToolsOf(plan, given), !.steps = Least(@, DefaultSteps)]
       /\ open' = plan.subs
       /\ job' = "gather"
       /\ UNCHANGED <<given, answered, pool, steps, idle, stop, outcome>>

-----------------------------------------------------------------------------
(* DeepResearchAgent: evidence                                             *)

\* _quality_score, in percent
Quality(i) ==
    25 + (CASE Facts[i].kind = "internal" -> 35 [] Facts[i].kind = "sql" -> 32
            [] Facts[i].kind = "web" -> 22 [] Facts[i].kind = "memory" -> 12)
       + (IF Facts[i].ref # NoRef THEN 12 ELSE 0) + 8 + (IF Facts[i].long THEN 10 ELSE 0)

\* Scores are per ten thousand.
Scored(question, i) == [item |-> i, sub |-> question, score |-> 62 * Fit(question, i) + 38 * Quality(i)]

Rank(question, items) ==
    LET scored == [k \in DOMAIN items |-> Scored(question, items[k])]
    IN ByScore(scored, [k \in DOMAIN items |-> scored[k].score], DOMAIN items)

NearDuplicate(i, j) ==
    \/ i = j
    \/ Facts[i].ref # NoRef /\ Facts[i].ref = Facts[j].ref
    \/ {i, j} \in Alike

\* dedupe_evidence: neither like what is kept nor like what was kept before.
Dedupe(ranked, existing) ==
    FoldLeft(LAMBDA kept, e :
                IF \E f \in ToSet(existing) \cup ToSet(kept) : NearDuplicate(e.item, f.item)
                THEN kept ELSE Append(kept, e),
             <<>>, ranked)

NextSubquestion ==
    LET left == {k \in DOMAIN open : open[k] \notin ToSet(answered)}
    IN IF left = {} THEN Subject ELSE open[Min(left)]

\* What a step gathers for a question: internal texts that fit it, the pages
\* of a web search, and every row of the context.
Gathered(question, pages) ==
    LET OfKind(kinds) == {k \in DOMAIN given : Facts[given[k]].kind \in kinds}
        fit           == {k \in OfKind({"internal", "memory"}) : Fit(question, given[k]) >= 18}
        InTurn(S)     == ByScore(given, [k \in S |-> 0], S)
    IN InTurn(fit)
       \o (IF "web_search" \in agenda.tools THEN pages ELSE <<>>)
       \o (IF "sql" \in agenda.tools THEN InTurn(OfKind({"sql"})) ELSE <<>>)

\* The sub-questions of the plan that some evidence fits well.
Covered(evidence) ==
    {k \in DOMAIN agenda.subs :
        \E e \in ToSet(evidence) :
            (IF e.sub = agenda.subs[k] THEN e.score ELSE 100 * Fit(agenda.subs[k], e.item)) >= 4500}

\* coverage_score is at least a percentage: the share of the sub-questions
\* covered, and a twentieth for each piece of evidence, up to five.
CoverageAtLeast(percent, evidence) ==
    LET n == Len(agenda.subs)
    IN 100 * (20 * Cardinality(Covered(evidence)) + n * Least(5, Len(evidence))) >= percent * 20 * n

Domains(evidence) == {Facts[e.item].domain : e \in ToSet(evidence)}

\* _should_stop, with the counts of the step that has just been taken
StopReason(taken, evidence, fruitless) ==
    CASE taken >= agenda.steps -> "budget"
      [] taken >= 2 /\ CoverageAtLeast(agenda.target, evidence)
                    /\ Cardinality(Domains(evidence)) >= Diversity -> "covered"
      [] taken >= 2 /\ fruitless >= 2 -> "diminishing"
      [] OTHER -> "none"

\* _refine_open_questions_async: asked only while little is covered.
AsksForMore(evidence) == ~CoverageAtLeast(65, evidence) /\ Len(evidence) >= 2

\* Follow-up questions that are neither open nor answered are opened.
WithFollowUps(questions, done, more) ==
    FoldLeft(LAMBDA acc, q : IF q \in ToSet(acc) \cup ToSet(done) THEN acc ELSE Append(acc, q),
             questions, more)

\* One turn of the loop of execute_async.
GatherStep(refined, lost, more) ==
    LET question  == NextSubquestion
        pages     == IF "web_search" \in agenda.tools THEN Found(question, refined, lost) ELSE <<>>
        deduped   == Dedupe(Rank(question, Gathered(question, pages)), pool)
        added     == SubSeq(deduped, 1, Least(PerStep, Len(deduped)))
        evidence  == pool \o added
        fruitless == IF Len(added) <= 1 THEN idle + 1 ELSE 0
        reason    == StopReason(steps + 1, evidence, fruitless)
        done      == IF question \in ToSet(answered) THEN answered ELSE Append(answered, question)
    IN /\ job = "gather" /\ stop = "none"
       /\ more # <<>> => reason = "none" /\ AsksForMore(evidence)
       /\ pool' = evidence
       /\ steps' = steps + 1
       /\ idle' = fruitless
       /\ answered' = done
       /\ open' = WithFollowUps(RemoveFirst(open, question), done, more)
       /\ stop' = reason
       /\ UNCHANGED <<job, given, agenda, outcome>>

\* The time box is looked at before each step.
TimeUp ==
    /\ job = "gather" /\ stop = "none" /\ steps > 0
    /\ stop' = "time"
    /\ UNCHANGED <<job, given, agenda, open, answered, pool, steps, idle, outcome>>

-----------------------------------------------------------------------------
(* DeepResearchAgent: the report                                           *)

Citation(i) == IF Facts[i].ref # NoRef THEN Facts[i].ref ELSE Facts[i].kind

\* The best sentences of the first pieces of evidence, each for itself.
FallbackFindings == {{pool[k].item} : k \in 1..Least(4, Len(pool))}

\* Mutant of Validated: a finding keeps ids nobody gathered beside known ones.
ValidatedPartly(findings) ==
    LET known == {e.item : e \in ToSet(pool)}
        kept  == {f \in findings : f \cap known # {}}
        weak  == Cardinality(Domains(pool)) < Diversity \/ Len(pool) < 3 \/ kept = {}
    IN [findings |-> {[ids |-> f, cites |-> {}] : f \in kept}, pages |-> <<>>, seen |-> <<>>, weak |-> weak]

\* _validate_report: evidence ids that do not exist are dropped, and findings
\* that have no other.
Validated(findings) ==
    LET known == {e.item : e \in ToSet(pool)}
        kept  == {f \cap known : f \in findings} \ {{}}
        weak  == \/ Cardinality(Domains(pool)) < Diversity
                 \/ Len(pool) < 3
                 \/ kept = {}
    IN [findings |-> {[ids |-> f, cites |-> {Citation(i) : i \in f}] : f \in kept},
        pages |-> <<>>, seen |-> <<>>, weak |-> weak]

\* The report of the language model or, without evidence or a summary, of the code.
Report(findings) ==
    LET report == Validated(findings)
    IN /\ job = "gather" /\ stop # "none"
       /\ outcome' = report
       /\ job' = "done"
       /\ UNCHANGED <<given, agenda, open, answered, pool, steps, idle, stop>>

\* What a language model may cite: what it was shown, and what it made up.
LlmFindings ==
    LET shown == {pool[k].item : k \in 1..Least(14, Len(pool))}
        one   == {{i} : i \in shown} \cup {{Invented}} \cup {{i, Invented} : i \in shown} \cup {shown}
    IN IF pool = <<>> THEN {} ELSE {{f, g} : f, g \in one}

-----------------------------------------------------------------------------

ResearchIdle ==
    /\ job = "idle" /\ given = <<>> /\ agenda = FallbackPlan /\ open = <<>> /\ answered = <<>> /\ pool = <<>>
    /\ steps = 0 /\ idle = 0 /\ stop = "none" /\ outcome = NoOutcome

ResearchInit ==
    /\ job \in {"plan", "search"}
    /\ given \in Contexts
    /\ agenda = FallbackPlan /\ open = <<>> /\ answered = <<>> /\ pool = <<>>
    /\ steps = 0 /\ idle = 0 /\ stop = "none" /\ outcome = NoOutcome

ResearchNext ==
    \/ \E r \in Refinements(Subject) :
        \E lost \in SUBSET ToSet(QueriesTried(Subject, r)), llm \in {Fails, "weak", "sure"} :
            Search(r, lost, llm)
    \/ \E p \in LlmPlans \cup {Fails} : Plan(p)
    \/ \E r \in Refinements(NextSubquestion) :
        \E lost \in SUBSET ToSet(QueriesTried(NextSubquestion, r)),
           more \in {<<>>} \cup {<<q>> : q \in ToSet(SubQuestions)} : GatherStep(r, lost, more)
    \/ TimeUp
    \/ \E f \in LlmFindings \cup {FallbackFindings} : Report(f)

ResearchSpec == ResearchInit /\ [][ResearchNext]_researchVars

-----------------------------------------------------------------------------
(* Properties                                                              *)

\* A report rests on what was gathered: each finding names pieces of evidence
\* that exist and that no other piece repeats, a page only if the provider
\* listed it; a report that is not called weak has three pieces of evidence, of
\* as many domains as are asked for.  A search keeps some page if it saw one,
\* none twice, and calls itself weak if it kept one page where it may keep more
\* (deep_research _validate_report and dedupe_evidence, web_search _triage_results).
ReportGrounded ==
    /\ \A k, n \in DOMAIN pool : k # n => ~NearDuplicate(pool[k].item, pool[n].item)
    /\ job = "done" =>
        /\ \A f \in outcome.findings : f.ids # {} /\ f.ids \subseteq {e.item : e \in ToSet(pool)}
        /\ ~outcome.weak =>
            /\ outcome.findings # {} /\ Len(pool) >= 3
            /\ Cardinality(Domains(pool)) >= Diversity
    /\ job = "found" =>
        /\ outcome.pages = <<>> => outcome.seen = <<>>
        /\ ToSet(outcome.pages) \subseteq ToSet(outcome.seen)
        /\ Cardinality(ToSet(outcome.pages)) = Len(outcome.pages)
        /\ Len(outcome.pages) = 1 /\ MaxResults > 1 => outcome.weak
=============================================================================
