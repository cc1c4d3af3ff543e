----------------------------- MODULE PlanRouter -----------------------------
(***************************************************************************)
(* The deterministic planner of the agent orchestrator: which route a      *)
(* question takes (choose_route) and which agents the plan calls in which  *)
(* order (build_steps), and what is accepted of a plan that a language     *)
(* model proposes (_coerce_llm_plan).                                      *)
(*                                                                         *)
(* A question is the record of its signals, a request the signals s, the   *)
(* constraints c and the planning context x.  Scores are in twentieths.    *)
(***************************************************************************)
EXTENDS Integers, Sequences, SequencesExt, FiniteSets

CONSTANT None   \* no route

Routes       == {"SimpleAnalyst", "AnalystThenVisual", "WebSearch", "DeepResearch", "Clarify"}
Agents       == {"Analyst", "Visual", "WebSearch", "DocRetrieval", "Clarify"}
SignalNames  == {"sql", "research", "web", "chartable", "visual", "entity", "time", "ambiguous", "target"}

\* An entry of tool_rewrites: the step it is for and the source_step_ref to set,
\* 0 where it says none.  Any string is taken; one that names no step of the
\* plan is a number beyond its last.
ToolRewrites == [agent : Agents, step : Nat, source : Nat]

\* "routing" and "reasoning" dictionaries of the planning context.
Overrides ==
    [force : Routes \cup {None}, prefer : SUBSET Routes, avoid : SUBSET Routes,
     previous : Routes \cup {None}, retry : BOOLEAN, require : SUBSET Routes,
     entity : {"none", "probe", "llm"}, rewrites : Seq(ToolRewrites)]

NoOverrides ==
    [force |-> None, prefer |-> {}, avoid |-> {}, previous |-> None,
     retry |-> FALSE, require |-> {}, entity |-> "none", rewrites |-> <<>>]

-----------------------------------------------------------------------------
(* choose_route                                                            *)

\* _extract_routing_overrides: "routing", when it is there, hides "reasoning".
\* A retry avoids the route that is being retried.
ExtractOverrides(x) ==
    LET raw == IF x.routing # NoOverrides THEN x.routing ELSE x.reasoning
    IN  [raw EXCEPT !.avoid = IF raw.retry /\ raw.previous # None
                              THEN @ \cup {raw.previous} ELSE @]

\* _estimate_step_count
EstimateStepCount(route, s, c) ==
    CASE route = "AnalystThenVisual" -> 2
      [] route = "DeepResearch" /\ "sql" \in s ->
            IF "chartable" \in s /\ c.requireViz THEN 3 ELSE 2
      [] OTHER -> 1

AllowedRoute(route, c) ==
    CASE route \in {"SimpleAnalyst", "AnalystThenVisual"} -> "sql" \in c.allow
      [] route = "WebSearch"    -> "web" \in c.allow
      [] route = "DeepResearch" -> "research" \in c.allow
      [] OTHER -> TRUE

\* _route_is_available
RouteIsAvailable(route, s, c) ==
    route = "Clarify" \/ (AllowedRoute(route, c) /\ c.maxSteps >= EstimateStepCount(route, s, c))

If(P, n) == IF P THEN n ELSE 0

ScoreSimpleAnalyst(s) ==
    If("sql" \in s, 60) + If("entity" \in s, 20) + If("time" \in s, 20)
    + If("chartable" \in s, 10) - If("research" \in s, 30)

ScoreAnalystThenVisual(s) ==
    ScoreSimpleAnalyst(s) + If("chartable" \in s, 40) + If("visual" \in s, 30)

ScoreWebSearch(s, c) ==
    60 + If("research" \in s, 20) - If("sql" \in s, 40) + If(c.lowLatency, 10)

ScoreDeepResearch(s, c) ==
    (IF "research" \in s THEN 70 ELSE IF "web" \in s THEN 24 ELSE -25)
    + (IF "sql" \in s THEN 10 ELSE 20) - If(c.lowLatency, 40)

\* The order in which _select_best_route looks at the routes.
Priority == <<"SimpleAnalyst", "AnalystThenVisual", "WebSearch", "DeepResearch">>

\* Routes whose score is not minus infinity after _apply_routing_overrides.
Candidates(s, c, o) ==
    {r \in ToSet(Priority) : /\ RouteIsAvailable(r, s, c)
                             /\ r = "WebSearch" => "web" \in s
                             /\ r \notin o.avoid}

\* What require_visual, require_web_search, require_deep_research and
\* require_sql add to the score of their route.
RequiredBonus(r) ==
    CASE r = "SimpleAnalyst" -> 30 [] r = "DeepResearch" -> 40 [] OTHER -> 50

\* The score of a candidate after _apply_routing_overrides.
RouteScore(r, s, c, o) ==
    (CASE r = "SimpleAnalyst"     -> ScoreSimpleAnalyst(s)
       [] r = "AnalystThenVisual" -> ScoreAnalystThenVisual(s)
       [] r = "WebSearch"         -> ScoreWebSearch(s, c)
       [] r = "DeepResearch"      -> ScoreDeepResearch(s, c))
    - If(o.previous = r, 20) + If(r \in o.prefer, 30) + If(r \in o.require, RequiredBonus(r))

\* _select_best_route: the first route of the greatest score.
SelectBestRoute(C, s, c, o) ==
    LET Best(i) == /\ Priority[i] \in C
                   /\ \A j \in DOMAIN Priority : Priority[j] \in C =>
                        LET a == RouteScore(Priority[i], s, c, o)
                            b == RouteScore(Priority[j], s, c, o)
                        IN  a > b \/ (a = b /\ i <= j)
    IN  Priority[CHOOSE i \in DOMAIN Priority : Best(i)]

ChooseRoute(s, c, x) ==
    LET o == ExtractOverrides(x)
        C == Candidates(s, c, o)
    IN  IF o.force # None /\ RouteIsAvailable(o.force, s, c) THEN o.force
        ELSE IF "ambiguous" \in s THEN "Clarify"
        ELSE IF "sql" \in c.allow /\ c.requireViz /\ "chartable" \in s /\ c.maxSteps >= 2
             THEN "AnalystThenVisual"
        ELSE IF C = {} THEN "Clarify" ELSE SelectBestRoute(C, s, c, o)

-----------------------------------------------------------------------------
(* build_steps                                                             *)

\* A step calls an agent; ref is the place of the step whose output it reads
\* (source_step_ref, rows_ref), 0 for none.
Step(agent, ref) == [agent |-> agent, ref |-> ref]

\* _build_entity_resolution_steps: list the known names, then ask again.
EntityResolutionSteps == <<Step("Analyst", 0), Step("Analyst", 1)>>

AnalystSteps(c, x) ==
    IF x.reasoning.entity # "none" /\ c.maxSteps >= 2 THEN EntityResolutionSteps
    ELSE <<Step("Analyst", 0)>>

\* _append_step does nothing when the plan is full.
AppendStep(steps, step, c) == IF Len(steps) < c.maxSteps THEN Append(steps, step) ELSE steps

LastAnalyst(steps) == CHOOSE i \in DOMAIN steps :
    /\ steps[i].agent = "Analyst"
    /\ \A j \in DOMAIN steps : steps[j].agent = "Analyst" => j <= i

HasAnalyst(steps) == \E i \in DOMAIN steps : steps[i].agent = "Analyst"

\* Mutant of ResearchSteps: the web search does not leave room for its reader.
ResearchStepsWebFirst(s, c, x) ==
    LET useWeb == /\ "web" \in c.allow /\ ~x.documents
                  /\ "WebSearch" \in ExtractOverrides(x).require \/ "web" \in s
        web    == IF useWeb THEN <<Step("WebSearch", 0)>> ELSE <<>>
    IN  web \o <<Step("DocRetrieval", Len(web))>>

\* The DeepResearch route: search first if there is room for the reader of its
\* documents, then validate the claims with the analyst and draw them.
ResearchSteps(s, c, x) ==
    LET useWeb == /\ "web" \in c.allow
                  /\ ~x.documents
                  /\ "WebSearch" \in ExtractOverrides(x).require \/ "web" \in s
        web    == IF useWeb /\ c.maxSteps >= 2 THEN <<Step("WebSearch", 0)>> ELSE <<>>
        doc    == Append(web, Step("DocRetrieval", Len(web)))
        sql    == IF "sql" \in s THEN AppendStep(doc, Step("Analyst", Len(doc)), c) ELSE doc
    IN  IF "chartable" \in s /\ c.requireViz /\ HasAnalyst(sql)
        THEN AppendStep(sql, Step("Visual", LastAnalyst(sql)), c) ELSE sql

BuildSteps(route, s, c, x) ==
    CASE route = "Clarify"       -> <<Step("Clarify", 0)>>
      [] route = "SimpleAnalyst" -> AnalystSteps(c, x)
      [] route = "AnalystThenVisual" ->
            LET steps == AnalystSteps(c, x)
            IN  AppendStep(steps, Step("Visual", LastAnalyst(steps)), c)
      [] route = "WebSearch"     -> <<Step("WebSearch", 0)>>
      [] route = "DeepResearch"  -> ResearchSteps(s, c, x)

RoutePlan(s, c, x) ==
    LET route == ChooseRoute(s, c, x) IN [route |-> route, steps |-> BuildSteps(route, s, c, x)]

-----------------------------------------------------------------------------
(* Plans of the language model                                             *)

\* _agent_allowed
AgentAllowed(agent, c) ==
    CASE agent \in {"Analyst", "Visual"} -> "sql" \in c.allow
      [] agent = "WebSearch"    -> "web" \in c.allow
      [] agent = "DocRetrieval" -> "research" \in c.allow
      [] OTHER -> TRUE

\* _coerce_llm_plan and _coerce_steps; a plan that is refused is replaced by
\* the router's.
AcceptsLlmPlan(plan, c) ==
    /\ AllowedRoute(plan.route, c)
    /\ plan.route = "AnalystThenVisual" => c.maxSteps >= 2
    /\ plan.steps # <<>>
    /\ Len(plan.steps) <= c.maxSteps
    /\ \A i \in DOMAIN plan.steps : AgentAllowed(plan.steps[i].agent, c)
    /\ plan.route = "Clarify" => Len(plan.steps) = 1 /\ plan.steps[1].agent = "Clarify"

\* The last step of an agent before step i, 0 if there is none.
LastBefore(steps, i, agent) ==
    LET at == {j \in 1..i-1 : steps[j].agent = agent} IN
    IF at = {} THEN 0 ELSE CHOOSE j \in at : \A k \in at : k <= j

Reads == [Visual |-> "Analyst", DocRetrieval |-> "WebSearch", Analyst |-> "DocRetrieval"]

\* _rewrite_step_references: a step without a valid reference reads the last
\* step of the agent whose output it can use, if there is one.
RewriteStepReferences(steps) ==
    [i \in DOMAIN steps |->
        LET agent == steps[i].agent
            last  == IF agent \in DOMAIN Reads THEN LastBefore(steps, i, Reads[agent]) ELSE 0
        IN  IF steps[i].ref \notin DOMAIN steps /\ last # 0 THEN Step(agent, last) ELSE steps[i]]

-----------------------------------------------------------------------------
(* _apply_tool_rewrites                                                    *)

\* The step that a rewrite names if its agent is the one meant, otherwise the
\* first of the agent's steps that no rewrite has taken; 0 if there is none.
TargetStep(steps, taken, rewrite) ==
    LET own  == {i \in DOMAIN steps : steps[i].agent = rewrite.agent}
        free == own \ ToSet(taken)
    IN  IF rewrite.step \in own THEN rewrite.step
        ELSE IF free = {} THEN 0 ELSE Min(free)

\* The steps that the rewrites take, one after the other.
Targets(steps, rewrites) ==
    FoldLeft(LAMBDA taken, r : Append(taken, TargetStep(steps, taken, r)), <<>>, rewrites)

\* source_step_ref is overwritten, unchecked.  A Visual step reads rows_ref, and
\* a search or a question to the user reads no step.
ApplyToolRewrites(steps, rewrites) ==
    LET For(i) == {k \in DOMAIN rewrites : /\ rewrites[k].agent = steps[i].agent
                                           /\ rewrites[k].source # 0
                                           /\ Targets(steps, rewrites)[k] = i}
    IN  [i \in DOMAIN steps |->
            IF steps[i].agent \in {"Analyst", "DocRetrieval"} /\ For(i) # {}
            THEN Step(steps[i].agent, rewrites[Max(For(i))].source) ELSE steps[i]]

\* _should_bypass_llm
BypassesLlm(x) == x.routing # NoOverrides \/ x.reasoning # NoOverrides
=============================================================================
