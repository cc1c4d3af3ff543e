-------------------------- MODULE SupervisorProofs --------------------------
(***************************************************************************)
(* What holds of every turn of an agent, for any question, any constraints *)
(* it is configured with, and whatever the language model and the agents   *)
(* answer: the plans of the router are executable and allowed, and a turn  *)
(* makes the bounded number of calls that AgentTurn promises.              *)
(***************************************************************************)
EXTENDS Supervisor, SequenceLemmas, WellFoundedInduction, TLAPS

-----------------------------------------------------------------------------
(* The plans of the router                                                 *)

Limits   == [allow : SUBSET {"sql", "web", "research"}, maxSteps : 1..10,
             requireViz : BOOLEAN, lowLatency : BOOLEAN]
Contexts == [routing : Overrides, reasoning : Overrides, documents : BOOLEAN, retryError : BOOLEAN]
AnyStep  == [agent : Agents, ref : Nat]
AnyPlan  == [route : Routes, steps : Seq(AnyStep)]

\* What PlanSound asks of the i-th step of a plan that the router made.
StepSound(steps, i, route, c) ==
    /\ \/ AgentAllowed(steps[i].agent, c)
       \/ route = "DeepResearch" /\ steps[i].agent \in {"Analyst", "Visual"}
    /\ steps[i].ref # 0 =>
          steps[i].ref < i /\ steps[steps[i].ref].agent \in {Reads[steps[i].agent], "Analyst"}
    /\ steps[i].agent = "Visual" => steps[i].ref # 0

StepsSound(steps, route, c) ==
    /\ steps \in Seq(AnyStep)
    /\ Len(steps) \in 1..c.maxSteps
    /\ \A i \in DOMAIN steps : StepSound(steps, i, route, c)

\* One of four candidates has the greatest score.
LEMMA BestOfFour ==
    ASSUME NEW B \in [1..4 -> BOOLEAN], NEW G \in [1..4 -> Int], \E i \in 1..4 : B[i]
    PROVE  \E i \in 1..4 : B[i] /\ \A j \in 1..4 : B[j] => G[i] > G[j] \/ (G[i] = G[j] /\ i <= j)
<1> DEFINE Beats(i, j) == B[j] => G[i] > G[j] \/ (G[i] = G[j] /\ i <= j)
<1>1. /\ \A i \in 1..4 : i = 1 \/ i = 2 \/ i = 3 \/ i = 4
      /\ G[1] \in Int /\ G[2] \in Int /\ G[3] \in Int /\ G[4] \in Int
  OBVIOUS
<1>2. \A i \in 1..4 : Beats(i, 1) /\ Beats(i, 2) /\ Beats(i, 3) /\ Beats(i, 4) =>
          \A j \in 1..4 : Beats(i, j)
  BY <1>1
<1>3. \E i \in 1..4 : B[i] /\ Beats(i, 1) /\ Beats(i, 2) /\ Beats(i, 3) /\ Beats(i, 4)
  BY <1>1
<1> QED BY <1>2, <1>3

LEMMA ScoresAreIntegers ==
    ASSUME NEW r \in ToSet(Priority), NEW s, NEW c \in Limits, NEW o
    PROVE  RouteScore(r, s, c, o) \in Int
<1>1. r \in {"SimpleAnalyst", "AnalystThenVisual", "WebSearch", "DeepResearch"}
  BY DEF ToSet, Priority
<1>2. /\ ScoreSimpleAnalyst(s) \in Int /\ ScoreAnalystThenVisual(s) \in Int
      /\ ScoreWebSearch(s, c) \in Int /\ ScoreDeepResearch(s, c) \in Int
  BY DEF ScoreSimpleAnalyst, ScoreAnalystThenVisual, ScoreWebSearch, ScoreDeepResearch, If
<1>3. RequiredBonus(r) \in Int
  BY DEF RequiredBonus
<1> QED BY <1>1, <1>2, <1>3 DEF RouteScore, If

\* The best route is one of the candidates (_select_best_route).
LEMMA BestIsCandidate ==
    ASSUME NEW s, NEW c \in Limits, NEW o, NEW C \in SUBSET ToSet(Priority), C # {}
    PROVE  SelectBestRoute(C, s, c, o) \in C
<1> DEFINE B == [i \in 1..4 |-> Priority[i] \in C]
           G == [i \in 1..4 |-> RouteScore(Priority[i], s, c, o)]
<1>1. DOMAIN Priority = 1..4 /\ \A r \in ToSet(Priority) : \E i \in 1..4 : r = Priority[i]
  BY DEF ToSet, Priority
<1>2. \A i \in 1..4 : Priority[i] \in ToSet(Priority)
  BY <1>1 DEF ToSet
<1>3. \A i \in 1..4 : RouteScore(Priority[i], s, c, o) \in Int
  BY <1>2, ScoresAreIntegers
<1>4. /\ B \in [1..4 -> BOOLEAN]
      /\ G \in [1..4 -> Int]
      /\ \E i \in 1..4 : B[i]
  <2>1. PICK i \in 1..4 : Priority[i] \in C
    BY <1>1
  <2>2. B[i]
    BY <2>1
  <2>3. B \in [1..4 -> BOOLEAN]
    OBVIOUS
  <2>4. G \in [1..4 -> Int]
    BY <1>3
  <2> QED BY <2>2, <2>3, <2>4
<1> DEFINE Best(i) == /\ Priority[i] \in C
                      /\ \A j \in DOMAIN Priority : Priority[j] \in C =>
                           LET a == RouteScore(Priority[i], s, c, o)
                               b == RouteScore(Priority[j], s, c, o)
                           IN  a > b \/ (a = b /\ i <= j)
<1>5. PICK i \in 1..4 : B[i] /\ \A j \in 1..4 : B[j] => G[i] > G[j] \/ (G[i] = G[j] /\ i <= j)
  <2> HIDE DEF B, G
  <2> QED BY <1>4, BestOfFour
<1>6. Best(i)
  BY <1>1, <1>5
<1>7. SelectBestRoute(C, s, c, o) = Priority[CHOOSE n \in DOMAIN Priority : Best(n)]
  BY DEF SelectBestRoute
<1>8. (CHOOSE n \in DOMAIN Priority : Best(n)) \in {n \in DOMAIN Priority : Best(n)}
  <2> HIDE DEF Best
  <2> QED BY <1>1, <1>6
<1> QED BY <1>7, <1>8

\* The overrides in force; a retry avoids what is retried.
LEMMA OverridesInForce ==
    ASSUME NEW x \in Contexts
    PROVE  LET o == ExtractOverrides(x)
               raw == IF x.routing # NoOverrides THEN x.routing ELSE x.reasoning
           IN  /\ o \in Overrides
               /\ o.force = raw.force
               /\ raw.retry /\ raw.previous # None => raw.previous \in o.avoid
<1> DEFINE raw == IF x.routing # NoOverrides THEN x.routing ELSE x.reasoning
           av  == IF raw.retry /\ raw.previous # None THEN raw.avoid \cup {raw.previous} ELSE raw.avoid
<1>1. raw \in Overrides
  BY DEF Contexts
<1>2. ExtractOverrides(x) = [raw EXCEPT !.avoid = av]
  BY DEF ExtractOverrides
<1>3. av \in SUBSET Routes
  BY <1>1 DEF Overrides
<1> HIDE DEF raw, av
<1>4. [raw EXCEPT !.avoid = av] \in Overrides
  BY <1>1, <1>3 DEF Overrides
<1>5. [raw EXCEPT !.avoid = av].force = raw.force /\ [raw EXCEPT !.avoid = av].avoid = av
  BY <1>1 DEF Overrides
<1>6. raw.retry /\ raw.previous # None => raw.previous \in av
  BY DEF av
<1> QED BY <1>2, <1>4, <1>5, <1>6 DEF raw

\* The chart rule of choose_route.
ChartRule(s, c) == "sql" \in c.allow /\ c.requireViz /\ "chartable" \in s /\ c.maxSteps >= 2

\* The route is available, and when something is forced that is not, it is
\* none of those to avoid (choose_route).
LEMMA RouteChosen ==
    ASSUME NEW s, NEW c \in Limits, NEW x \in Contexts
    PROVE  LET route == ChooseRoute(s, c, x)
               o == ExtractOverrides(x)
           IN  /\ route \in Routes
               /\ RouteIsAvailable(route, s, c)
               /\ \/ route = o.force /\ o.force # None
                  \/ route = "Clarify"
                  \/ route = "AnalystThenVisual" /\ ChartRule(s, c)
                  \/ route \notin o.avoid
<1> DEFINE o == ExtractOverrides(x)
           C == Candidates(s, c, o)
           route == ChooseRoute(s, c, x)
<1>1. o \in Overrides /\ o.force \in Routes \cup {None}
  BY OverridesInForce DEF Overrides
<1>2. C \in SUBSET ToSet(Priority) /\ C \in SUBSET Routes
  BY DEF Candidates, ToSet, Priority, Routes
<1>3. \A r \in C : RouteIsAvailable(r, s, c) /\ r \notin o.avoid
  BY DEF Candidates
<1>4. RouteIsAvailable("Clarify", s, c) /\ "Clarify" \in Routes /\ "AnalystThenVisual" \in Routes
  BY DEF RouteIsAvailable, Routes
<1>5. ChartRule(s, c) => RouteIsAvailable("AnalystThenVisual", s, c)
  BY DEF ChartRule, RouteIsAvailable, AllowedRoute, EstimateStepCount
<1> HIDE DEF o, C
<1>6. route = IF o.force # None /\ RouteIsAvailable(o.force, s, c) THEN o.force
              ELSE IF "ambiguous" \in s THEN "Clarify"
              ELSE IF ChartRule(s, c) THEN "AnalystThenVisual"
              ELSE IF C = {} THEN "Clarify" ELSE SelectBestRoute(C, s, c, o)
  BY DEF ChooseRoute, ChartRule, o, C
<1>7. C # {} => SelectBestRoute(C, s, c, o) \in C
  BY <1>2, BestIsCandidate
<1> HIDE DEF route
<1> QED BY <1>1, <1>2, <1>3, <1>4, <1>5, <1>6, <1>7 DEF o, route

-----------------------------------------------------------------------------
(* Steps of the routes                                                     *)

\* A plan with one step that refers to none.
LEMMA OneStep ==
    ASSUME NEW agent \in Agents \ {"Visual"}, NEW c \in Limits, AgentAllowed(agent, c), NEW route
    PROVE  StepsSound(<<Step(agent, 0)>>, route, c)
<1> DEFINE st == <<Step(agent, 0)>>
<1>1. st \in Seq(AnyStep) /\ Len(st) = 1 /\ DOMAIN st = {1} /\ st[1].agent = agent /\ st[1].ref = 0
  BY DEF Step, AnyStep
<1>2. 1 \in 1..c.maxSteps
  BY DEF Limits
<1> HIDE DEF st
<1>3. StepSound(st, 1, route, c)
  BY <1>1 DEF StepSound
<1>4. StepsSound(st, route, c)
  BY <1>1, <1>2, <1>3 DEF StepsSound
<1> QED BY <1>4 DEF st

\* One more step, which reads an earlier one, if there is room (_append_step).
LEMMA StepAppended ==
    ASSUME NEW steps, NEW route, NEW c \in Limits, StepsSound(steps, route, c),
           NEW agent \in Agents, NEW ref \in DOMAIN steps,
           AgentAllowed(agent, c) \/ (route = "DeepResearch" /\ agent \in {"Analyst", "Visual"}),
           steps[ref].agent \in {Reads[agent], "Analyst"}
    PROVE  /\ StepsSound(AppendStep(steps, Step(agent, ref), c), route, c)
           /\ \A i \in DOMAIN steps : AppendStep(steps, Step(agent, ref), c)[i] = steps[i]
           /\ DOMAIN steps \subseteq DOMAIN AppendStep(steps, Step(agent, ref), c)
           /\ \A i \in DOMAIN AppendStep(steps, Step(agent, ref), c) :
                 i \in DOMAIN steps
                 \/ (AppendStep(steps, Step(agent, ref), c)[i].agent = agent /\ i = Len(steps) + 1)
<1> DEFINE st == Step(agent, ref)
<1>1. CASE Len(steps) < c.maxSteps
  <2> DEFINE new == Append(steps, st)
  <2>1. /\ steps \in Seq(AnyStep) /\ ref \in 1..Len(steps) /\ ref \in Nat \ {0}
        /\ st \in AnyStep /\ st.agent = agent /\ st.ref = ref
    BY DEF StepsSound, Step, AnyStep
  <2>2. /\ new \in Seq(AnyStep) /\ Len(new) = Len(steps) + 1
        /\ \A i \in 1..Len(steps) : new[i] = steps[i]
        /\ new[Len(steps) + 1] = st
    BY <2>1
  <2>3. AppendStep(steps, st, c) = new
    BY <1>1 DEF AppendStep
  <2> HIDE DEF st, new
  <2>4. Len(new) \in 1..c.maxSteps
    BY <1>1, <2>1, <2>2 DEF StepsSound, Limits
  <2>5. ASSUME NEW i \in DOMAIN new
        PROVE  StepSound(new, i, route, c)
    <3>1. CASE i \in 1..Len(steps)
      <4>0. i \in DOMAIN steps /\ steps[i] \in AnyStep
        BY <2>1, <3>1
      <4>1. StepSound(steps, i, route, c) /\ new[i] = steps[i] /\ steps[i].ref \in Nat
        BY <2>2, <3>1, <4>0 DEF StepsSound, AnyStep
      <4>2. steps[i].ref # 0 => steps[i].ref \in 1..Len(steps)
        BY <3>1, <4>1 DEF StepSound
      <4> QED BY <2>2, <4>1, <4>2 DEF StepSound
    <3>2. CASE i = Len(steps) + 1
      <4>1. new[i].agent = agent /\ new[i].ref = ref /\ new[ref] = steps[ref] /\ ref < i
        BY <2>1, <2>2, <3>2
      <4> QED BY <2>1, <4>1 DEF StepSound
    <3> QED BY <2>1, <2>2, <2>5, <3>1, <3>2
  <2>6. StepsSound(new, route, c)
    BY <2>2, <2>4, <2>5 DEF StepsSound
  <2>7. DOMAIN steps = 1..Len(steps) /\ DOMAIN new = 1..(Len(steps) + 1)
    BY <2>1, <2>2
  <2>8. new[Len(steps) + 1].agent = agent
    BY <2>1, <2>2
  <2> QED BY <2>1, <2>2, <2>3, <2>6, <2>7, <2>8 DEF st
<1>2. CASE ~(Len(steps) < c.maxSteps)
  <2>1. AppendStep(steps, st, c) = steps
    BY <1>2 DEF AppendStep
  <2> HIDE DEF st
  <2> QED BY <2>1 DEF st
<1> QED BY <1>1, <1>2

LEMMA LastAnalystIs ==
    ASSUME NEW steps, NEW n \in DOMAIN steps, steps[n].agent = "Analyst",
           \A j \in DOMAIN steps : steps[j].agent = "Analyst" => j <= n
    PROVE  LastAnalyst(steps) \in DOMAIN steps /\ steps[LastAnalyst(steps)].agent = "Analyst"
<1> DEFINE IsLast(i) == /\ steps[i].agent = "Analyst"
                        /\ \A j \in DOMAIN steps : steps[j].agent = "Analyst" => j <= i
<1>1. \E i \in DOMAIN steps : IsLast(i)
  OBVIOUS
<1>2. LastAnalyst(steps) = CHOOSE i \in DOMAIN steps : IsLast(i)
  BY DEF LastAnalyst
<1> HIDE DEF IsLast
<1>3. LastAnalyst(steps) \in DOMAIN steps /\ IsLast(LastAnalyst(steps))
  BY <1>1, <1>2
<1> QED BY <1>3 DEF IsLast

\* The analyst alone, or twice when names have to be resolved first.
LEMMA AnalystStepsSound ==
    ASSUME NEW c \in Limits, "sql" \in c.allow, NEW x, NEW route
    PROVE  /\ StepsSound(AnalystSteps(c, x), route, c)
           /\ HasAnalyst(AnalystSteps(c, x))
           /\ LastAnalyst(AnalystSteps(c, x)) \in DOMAIN AnalystSteps(c, x)
           /\ AnalystSteps(c, x)[LastAnalyst(AnalystSteps(c, x))].agent = "Analyst"
<1> DEFINE steps == AnalystSteps(c, x)
           one   == <<Step("Analyst", 0)>>
<1>1. AgentAllowed("Analyst", c) /\ "Analyst" \in Agents \ {"Visual"}
  BY DEF AgentAllowed, Agents
<1>2. StepsSound(one, route, c) /\ DOMAIN one = {1} /\ one[1].agent = "Analyst" /\ Len(one) = 1
  BY <1>1, OneStep DEF Step
<1>3. steps = one \/ (steps = Append(one, Step("Analyst", 1)) /\ c.maxSteps >= 2)
  BY DEF AnalystSteps, EntityResolutionSteps
<1>4. CASE steps = one
  <2>1. LastAnalyst(one) \in DOMAIN one /\ one[LastAnalyst(one)].agent = "Analyst"
    <3> HIDE DEF one
    <3>1. 1 \in DOMAIN one /\ \A j \in DOMAIN one : j <= 1
      BY <1>2
    <3> QED BY <1>2, <3>1, LastAnalystIs
  <2> HIDE DEF steps, one
  <2> QED BY <1>2, <1>4, <2>1 DEF HasAnalyst, steps
<1>5. CASE steps = Append(one, Step("Analyst", 1)) /\ c.maxSteps >= 2
  <2> DEFINE two == Append(one, Step("Analyst", 1))
  <2>1. DOMAIN two = 1..2 /\ two[2].agent = "Analyst"
    BY DEF Step
  <2>2. two = AppendStep(one, Step("Analyst", 1), c)
    BY <1>2, <1>5 DEF AppendStep, Limits
  <2> HIDE DEF one, two
  <2>3. StepsSound(two, route, c)
    BY <1>1, <1>2, <2>2, StepAppended
  <2>4. 2 \in DOMAIN two /\ \A j \in DOMAIN two : j <= 2
    BY <2>1
  <2>5. LastAnalyst(two) \in DOMAIN two /\ two[LastAnalyst(two)].agent = "Analyst"
    BY <2>1, <2>4, LastAnalystIs
  <2>6. steps = two
    BY <1>5 DEF two
  <2> HIDE DEF steps
  <2> QED BY <2>1, <2>3, <2>4, <2>5, <2>6 DEF HasAnalyst, steps
<1> QED BY <1>3, <1>4, <1>5

\* Research: whatever is cut off by the limit, what is there refers to what is
\* there (_build_research_steps).
LEMMA ResearchStepsSound ==
    ASSUME NEW s, NEW c \in Limits, "research" \in c.allow, NEW x
    PROVE  StepsSound(ResearchSteps(s, c, x), "DeepResearch", c)
<1> DEFINE useWeb == /\ "web" \in c.allow
                     /\ ~x.documents
                     /\ "WebSearch" \in ExtractOverrides(x).require \/ "web" \in s
           web    == IF useWeb /\ c.maxSteps >= 2 THEN <<Step("WebSearch", 0)>> ELSE <<>>
           doc    == Append(web, Step("DocRetrieval", Len(web)))
           sql    == IF "sql" \in s THEN AppendStep(doc, Step("Analyst", Len(doc)), c) ELSE doc
           all    == IF "chartable" \in s /\ c.requireViz /\ HasAnalyst(sql)
                     THEN AppendStep(sql, Step("Visual", LastAnalyst(sql)), c) ELSE sql
           route  == "DeepResearch"
<1>1. ResearchSteps(s, c, x) = all
  BY DEF ResearchSteps
<1>2. /\ "WebSearch" \in Agents \ {"Visual"} /\ "DocRetrieval" \in Agents \ {"Visual"}
      /\ "Analyst" \in Agents /\ "Visual" \in Agents /\ AgentAllowed("DocRetrieval", c)
      /\ useWeb => AgentAllowed("WebSearch", c)
      /\ Reads["DocRetrieval"] = "WebSearch" /\ Reads["Analyst"] = "DocRetrieval"
  BY DEF Agents, AgentAllowed, Reads
<1>3. /\ StepsSound(doc, route, c) /\ Len(doc) \in DOMAIN doc /\ doc[Len(doc)].agent = "DocRetrieval"
      /\ \A i \in DOMAIN doc : doc[i].agent # "Analyst"
  <2>1. CASE ~(useWeb /\ c.maxSteps >= 2)
    <3>0. web = <<>> /\ Len(web) = 0
      BY <2>1
    <3>1. doc = <<Step("DocRetrieval", 0)>>
      <4>1. doc = Append(<<>>, Step("DocRetrieval", 0))
        BY <3>0
      <4> QED BY <4>1
    <3>2. StepsSound(doc, route, c)
      BY <1>2, <3>1, OneStep
    <3> QED BY <3>1, <3>2 DEF Step
  <2>2. CASE useWeb /\ c.maxSteps >= 2
    <3> DEFINE one == <<Step("WebSearch", 0)>>
    <3>1. StepsSound(one, route, c) /\ DOMAIN one = {1} /\ one[1].agent = "WebSearch" /\ Len(one) = 1
      BY <1>2, <2>2, OneStep DEF Step
    <3>2. doc = Append(one, Step("DocRetrieval", 1))
      <4>1. web = one
        BY <2>2
      <4> HIDE DEF web, one
      <4> QED BY <3>1, <4>1
    <3>3. doc = AppendStep(one, Step("DocRetrieval", 1), c)
      <4> HIDE DEF one, doc
      <4> QED BY <2>2, <3>1, <3>2 DEF AppendStep, Limits
    <3>4. /\ Len(doc) = 2 /\ DOMAIN doc = 1..2 /\ doc[2].agent = "DocRetrieval"
          /\ \A i \in DOMAIN doc : doc[i].agent # "Analyst"
      <4>1. doc[1] = one[1] /\ doc[2] = Step("DocRetrieval", 1) /\ Len(doc) = 2 /\ DOMAIN doc = 1..2
        <5> HIDE DEF doc
        <5> QED BY <3>1, <3>2 DEF StepsSound, Step
      <4> HIDE DEF doc, one
      <4>2. doc[1].agent = "WebSearch" /\ doc[2].agent = "DocRetrieval"
        BY <3>1, <4>1 DEF Step
      <4> QED BY <4>1, <4>2
    <3> HIDE DEF one, doc
    <3>5. StepsSound(doc, route, c)
      BY <1>2, <3>1, <3>3, StepAppended
    <3> QED BY <3>4, <3>5
  <2> QED BY <2>1, <2>2
<1> HIDE DEF useWeb, doc
<1>4. /\ StepsSound(sql, route, c)
      /\ HasAnalyst(sql) => /\ LastAnalyst(sql) \in DOMAIN sql
                            /\ sql[LastAnalyst(sql)].agent = "Analyst"
  <2>1. CASE "sql" \notin s
    BY <1>3, <2>1 DEF HasAnalyst
  <2>2. CASE "sql" \in s
    <3> DEFINE new == AppendStep(doc, Step("Analyst", Len(doc)), c)
    <3>1. /\ StepsSound(new, route, c)
          /\ \A i \in DOMAIN doc : new[i] = doc[i]
          /\ \A i \in DOMAIN new : i \in DOMAIN doc \/ (new[i].agent = "Analyst" /\ i = Len(doc) + 1)
      BY <1>2, <1>3, StepAppended
    <3> HIDE DEF new
    <3>2. ASSUME HasAnalyst(new)
          PROVE  LastAnalyst(new) \in DOMAIN new /\ new[LastAnalyst(new)].agent = "Analyst"
      <4>1. PICK n \in DOMAIN new : new[n].agent = "Analyst"
        BY <3>2 DEF HasAnalyst
      <4>2. Len(doc) \in Nat
        BY <1>3 DEF StepsSound
      <4>3. \A j \in DOMAIN new : new[j].agent = "Analyst" => j = Len(doc) + 1
        BY <1>3, <3>1
      <4>4. \A j \in DOMAIN new : new[j].agent = "Analyst" => j <= n
        BY <4>1, <4>2, <4>3
      <4> QED BY <4>1, <4>4, LastAnalystIs
    <3>3. sql = new
      BY <2>2 DEF new
    <3> HIDE DEF sql
    <3> QED BY <3>1, <3>2, <3>3
  <2> QED BY <2>1, <2>2
<1> HIDE DEF sql
<1>5. StepsSound(all, route, c)
  <2>1. CASE ~("chartable" \in s /\ c.requireViz /\ HasAnalyst(sql))
    BY <1>4, <2>1
  <2>2. CASE "chartable" \in s /\ c.requireViz /\ HasAnalyst(sql)
    <3>1. StepsSound(AppendStep(sql, Step("Visual", LastAnalyst(sql)), c), route, c)
      BY <1>2, <1>4, <2>2, StepAppended
    <3> QED BY <2>2, <3>1
  <2> QED BY <2>1, <2>2
<1> QED BY <1>1, <1>5

\* A plan of the router is sound, and with the chart route calls the analyst.
LEMMA RouterPlans ==
    ASSUME NEW s, NEW c \in Limits, NEW x \in Contexts
    PROVE  LET p == RoutePlan(s, c, x)
           IN  /\ p \in AnyPlan /\ p.route = ChooseRoute(s, c, x)
               /\ StepsSound(p.steps, p.route, c)
               /\ p.route = "AnalystThenVisual" => HasAnalyst(p.steps)
               /\ p.route = "Clarify" => p.steps = <<Step("Clarify", 0)>>
<1> DEFINE route == ChooseRoute(s, c, x)
           steps == BuildSteps(route, s, c, x)
<1>1. route \in Routes /\ RouteIsAvailable(route, s, c)
  BY RouteChosen
<1>2. RoutePlan(s, c, x) = [route |-> route, steps |-> steps]
  BY DEF RoutePlan
<1> HIDE DEF route
<1>3. /\ StepsSound(steps, route, c)
      /\ route = "AnalystThenVisual" => HasAnalyst(steps)
      /\ route = "Clarify" => steps = <<Step("Clarify", 0)>>
  <2>1. CASE route = "Clarify"
    <3>1. steps = <<Step("Clarify", 0)>>
      BY <2>1 DEF BuildSteps
    <3>2. AgentAllowed("Clarify", c) /\ "Clarify" \in Agents \ {"Visual"}
      BY DEF AgentAllowed, Agents
    <3> QED BY <2>1, <3>1, <3>2, OneStep
  <2>2. CASE route = "SimpleAnalyst"
    <3>1. steps = AnalystSteps(c, x)
      BY <2>2 DEF BuildSteps
    <3>2. "sql" \in c.allow
      BY <1>1, <2>2 DEF RouteIsAvailable, AllowedRoute
    <3> HIDE DEF steps
    <3> QED BY <2>2, <3>1, <3>2, AnalystStepsSound
  <2>3. CASE route = "AnalystThenVisual"
    <3> DEFINE st == AnalystSteps(c, x)
    <3>1. steps = AppendStep(st, Step("Visual", LastAnalyst(st)), c)
      BY <2>3 DEF BuildSteps
    <3>2. "sql" \in c.allow
      BY <1>1, <2>3 DEF RouteIsAvailable, AllowedRoute
    <3>3. /\ StepsSound(st, route, c) /\ HasAnalyst(st)
          /\ LastAnalyst(st) \in DOMAIN st /\ st[LastAnalyst(st)].agent = "Analyst"
      BY <3>2, AnalystStepsSound
    <3>4. "Visual" \in Agents /\ AgentAllowed("Visual", c)
      BY <3>2 DEF Agents, AgentAllowed
    <3> HIDE DEF steps, st
    <3>5. StepsSound(steps, route, c)
      BY <3>1, <3>3, <3>4, StepAppended
    <3>6. DOMAIN st \subseteq DOMAIN steps /\ \A i \in DOMAIN st : steps[i] = st[i]
      BY <3>1, <3>3, <3>4, StepAppended
    <3>7. HasAnalyst(steps)
      BY <3>3, <3>6 DEF HasAnalyst
    <3> QED BY <2>3, <3>5, <3>7
  <2>4. CASE route = "WebSearch"
    <3>1. steps = <<Step("WebSearch", 0)>>
      BY <2>4 DEF BuildSteps
    <3>2. AgentAllowed("WebSearch", c) /\ "WebSearch" \in Agents \ {"Visual"}
      BY <1>1, <2>4 DEF AgentAllowed, Agents, RouteIsAvailable, AllowedRoute
    <3> QED BY <2>4, <3>1, <3>2, OneStep
  <2>5. CASE route = "DeepResearch"
    <3>1. steps = ResearchSteps(s, c, x)
      BY <2>5 DEF BuildSteps
    <3>2. "research" \in c.allow
      BY <1>1, <2>5 DEF RouteIsAvailable, AllowedRoute
    <3> HIDE DEF steps
    <3> QED BY <2>5, <3>1, <3>2, ResearchStepsSound
  <2> QED BY <1>1, <2>1, <2>2, <2>3, <2>4, <2>5 DEF Routes
<1> HIDE DEF steps
<1>4. [route |-> route, steps |-> steps] \in AnyPlan
  BY <1>1, <1>3 DEF AnyPlan, StepsSound
<1> QED BY <1>2, <1>3, <1>4 DEF route

-----------------------------------------------------------------------------
(* The invariant of a turn                                                 *)

Artifacts ==
    [analyst : {"none", "rows", "empty", "error", "denied"}, terminal : BOOLEAN,
     web : {"none", "nothing", "results"}, research : {"none", "nothing", "low", "findings"},
     asked : BOOLEAN, calls : Seq(Agents)]

Typed ==
    /\ TypeOK
    /\ req \in [s : Questions, c : Constraints, scopeDenied : BOOLEAN]
    /\ ctx \in Contexts
    /\ plan \in AnyPlan
    /\ art \in Artifacts
    /\ made \in Seq(Agents)
    /\ outcome = None <=> pc # "done"

\* Every pass of the loop calls at most max_steps agents, one for each step.
Paced ==
    LET m == req.c.maxSteps IN
    /\ pc \in {"preflight", "plan", "step", "reason"} => iter < MaxIterations(req.c)
    /\ pc \in {"preflight", "plan"} => Len(made) <= iter * m
    /\ pc = "step" => at >= 1 /\ Len(plan.steps) <= m /\ Len(made) <= iter * m + (at - 1)
    /\ pc = "reason" => Len(made) <= iter * m + m

\* Who was refused access is asked nothing, calls nobody and plans no more.
Refusals ==
    /\ art.analyst = "denied" => /\ art.terminal /\ ~art.asked
                                 /\ pc \notin {"preflight", "plan"}
                                 /\ pc = "step" => at > Len(plan.steps)
    /\ art.asked /\ pc = "step" => at > Len(plan.steps)

\* A plan to ask the user asks, so what is retried found nothing.
ClarifyAsks ==
    plan.route = "Clarify" =>
        /\ pc = "step" => /\ Len(plan.steps) = 1 /\ plan.steps[1].agent = "Clarify"
                          /\ at # 1 => art.asked
        /\ pc = "reason" => art.asked

\* What a retry asks of the next plan (_build_retry_decision).
RetryPending ==
    /\ pc = "preflight" => decision = "none"
    /\ pc = "plan" /\ decision = "retry" =>
          LET o == ctx.reasoning IN
          /\ o.retry /\ o.previous \in Routes \ {"Clarify"}
          /\ o.force = PickFallbackRoute(o.previous)

SupInv == Typed /\ Paced /\ Refusals /\ PlanSound /\ ClarifyAsks /\ RetryPending /\ RetryElsewhere

-----------------------------------------------------------------------------
(* Arithmetic of the bound                                                 *)

\* The limits an agent may be configured with.
LEMMA ConstraintsInLimits == Constraints \subseteq Limits
BY ConstraintsAssumption DEF Limits

LEMMA IterationsPositive ==
    ASSUME NEW c \in Limits
    PROVE  MaxIterations(c) \in Nat \ {0} /\ MaxIterations(c) <= BaseIterations + 10
<1>1. BaseIterations \in Nat \ {0} /\ c.maxSteps \in 1..10
  BY IterationsAssumption DEF Limits
<1> DEFINE S == {BaseIterations, c.maxSteps}
<1>2. \E x \in S : \A y \in S : x >= y
  BY <1>1
<1>3. Max(S) \in S
  <2> HIDE DEF S
  <2> QED BY <1>2 DEF Max
<1>4. MaxIterations(c) \in {1, Max(S)}
  BY DEF MaxIterations
<1> QED BY <1>1, <1>3, <1>4

\* A bounded set of numbers has a greatest element.
LEMMA GreatestOfBounded ==
    ASSUME NEW S \in SUBSET Nat, S # {}, NEW b \in Nat, \A x \in S : x <= b
    PROVE  \E x \in S : \A y \in S : x >= y
<1> DEFINE U == {u \in Nat : \A x \in S : x <= u}
<1>1. U \subseteq Nat /\ U # {}
  OBVIOUS
<1>2. PICK u \in U : \A v \in U : ~(<<v, u>> \in OpToRel(<, Nat))
  <2> HIDE DEF U
  <2> QED BY <1>1, NatLessThanWellFounded, WFMin, Zenon
<1>3. u \in Nat /\ \A v \in U : v >= u
  <2>1. \A v, w \in Nat : v < w => <<v, w>> \in OpToRel(<, Nat)
    BY DEF OpToRel
  <2>2. u \in Nat /\ \A v \in U : v \in Nat /\ ~(v < u)
    BY <1>2, <2>1
  <2> QED BY <2>2
<1>4. u \in S
  <2>0. SUFFICES ASSUME u \notin S
                 PROVE  FALSE
    OBVIOUS
  <2>1. \A x \in S : x <= u /\ x # u /\ x \in Nat
    BY <2>0
  <2>2. u # 0 /\ \A x \in S : x <= u - 1
    <3>1. \A x \in S : x <= u - 1
      BY <1>3, <2>1
    <3>2. PICK x \in S : TRUE
      OBVIOUS
    <3> QED BY <1>3, <2>1, <3>1, <3>2
  <2>3. u - 1 \in U
    BY <1>3, <2>2
  <2> QED BY <1>3, <2>3
<1> QED BY <1>3, <1>4

LEMMA MaxOfBounded ==
    ASSUME NEW S \in SUBSET Nat, S # {}, NEW b \in Nat, \A x \in S : x <= b
    PROVE  Max(S) \in Nat /\ \A x \in S : x <= Max(S)
<1>1. \E x \in S : \A y \in S : x >= y
  BY GreatestOfBounded
<1>2. Max(S) \in S /\ \A y \in S : Max(S) >= y
  BY <1>1 DEF Max
<1> QED BY <1>2

CallLimit == Max({MaxIterations(c) * c.maxSteps : c \in Constraints})

LEMMA Product ==
    ASSUME NEW a \in Nat, NEW m \in 1..10, NEW k \in Nat, a <= k
    PROVE  a * m \in Nat /\ a * m <= k * 10
<1>1. m = 1 \/ m = 2 \/ m = 3 \/ m = 4 \/ m = 5 \/ m = 6 \/ m = 7 \/ m = 8 \/ m = 9 \/ m = 10
  OBVIOUS
<1> QED BY <1>1

\* No configuration allows a turn more passes times steps than CallLimit.
LEMMA WithinLimit ==
    ASSUME NEW c \in Constraints
    PROVE  CallLimit \in Nat /\ MaxIterations(c) * c.maxSteps <= CallLimit
<1> DEFINE S == {MaxIterations(d) * d.maxSteps : d \in Constraints}
           b == (BaseIterations + 10) * 10
<1>1. ASSUME NEW d \in Constraints
      PROVE  MaxIterations(d) * d.maxSteps \in Nat /\ MaxIterations(d) * d.maxSteps <= b
  <2>1. d \in Limits /\ d.maxSteps \in 1..10
    BY ConstraintsInLimits DEF Limits
  <2>2. MaxIterations(d) \in Nat /\ MaxIterations(d) <= BaseIterations + 10
    BY <2>1, IterationsPositive
  <2>3. BaseIterations + 10 \in Nat
    BY IterationsAssumption
  <2> QED BY <2>1, <2>2, <2>3, Product
<1>2. b \in Nat
  BY IterationsAssumption
<1>3. S \in SUBSET Nat /\ S # {} /\ (\A x \in S : x <= b) /\ MaxIterations(c) * c.maxSteps \in S
  BY <1>1
<1>4. CallLimit = Max(S)
  BY DEF CallLimit
<1> HIDE DEF S, b
<1> QED BY <1>2, <1>3, <1>4, MaxOfBounded

\* A pass that is not the last one leaves room for all its steps.
LEMMA RoomForAPass ==
    ASSUME NEW i \in Nat, NEW k \in Nat, i < k, NEW m \in 1..10
    PROVE  i * m \in Nat /\ i * m + m <= k * m /\ (i + 1) * m = i * m + m
<1>1. m = 1 \/ m = 2 \/ m = 3 \/ m = 4 \/ m = 5 \/ m = 6 \/ m = 7 \/ m = 8 \/ m = 9 \/ m = 10
  OBVIOUS
<1> QED BY <1>1

-----------------------------------------------------------------------------
(* The steps of a turn                                                     *)

LEMMA LastBeforeIs ==
    ASSUME NEW steps \in Seq(AnyStep), NEW i \in DOMAIN steps, NEW agent
    PROVE  LastBefore(steps, i, agent) \in Nat
<1> DEFINE before == {j \in 1..i-1 : steps[j].agent = agent}
<1>1. i \in Nat /\ before \subseteq Nat
  OBVIOUS
<1>2. CASE before = {}
  BY <1>2 DEF LastBefore
<1>3. CASE before # {}
  <2>1. before \in SUBSET Nat /\ \A j \in before : j <= i
    OBVIOUS
  <2> HIDE DEF before
  <2>2. \E j \in before : \A k \in before : k <= j
    <3>1. PICK j \in before : \A k \in before : j >= k
      BY <1>1, <1>3, <2>1, GreatestOfBounded
    <3> QED BY <1>1, <3>1
  <2>3. (CHOOSE j \in before : \A k \in before : k <= j) \in before
    BY <2>2
  <2>4. LastBefore(steps, i, agent) = CHOOSE j \in before : \A k \in before : k <= j
    BY <1>3 DEF LastBefore, before
  <2> QED BY <1>1, <2>3, <2>4
<1> QED BY <1>2, <1>3

\* A plan of the language model keeps its agents and its length.
LEMMA RewritingKeeps ==
    ASSUME NEW steps \in Seq(AnyStep)
    PROVE  /\ RewriteStepReferences(steps) \in Seq(AnyStep)
           /\ Len(RewriteStepReferences(steps)) = Len(steps)
           /\ \A i \in 1..Len(steps) : RewriteStepReferences(steps)[i].agent = steps[i].agent
<1> DEFINE new == RewriteStepReferences(steps)
           last(i)   == IF steps[i].agent \in DOMAIN Reads
                        THEN LastBefore(steps, i, Reads[steps[i].agent]) ELSE 0
           stepAt(i) == IF steps[i].ref \notin DOMAIN steps /\ last(i) # 0
                        THEN Step(steps[i].agent, last(i)) ELSE steps[i]
<1>1. ASSUME NEW i \in 1..Len(steps)
      PROVE  stepAt(i) \in AnyStep /\ stepAt(i).agent = steps[i].agent
  <2>0. steps[i] \in AnyStep /\ i \in DOMAIN steps
    OBVIOUS
  <2>1. steps[i].agent \in Agents
    BY <2>0 DEF AnyStep
  <2>2. last(i) \in Nat
    BY <2>0, LastBeforeIs
  <2> HIDE DEF last
  <2> QED BY <2>0, <2>1, <2>2 DEF Step, AnyStep
<1>2. new = [i \in 1..Len(steps) |-> stepAt(i)]
  BY DEF RewriteStepReferences
<1> HIDE DEF stepAt, new
<1>3. Len(steps) \in Nat
  OBVIOUS
<1>4. new \in Seq(AnyStep) /\ Len(new) = Len(steps)
  BY <1>1, <1>2, <1>3
<1> QED BY <1>1, <1>2, <1>4 DEF new

\* A rewrite points steps elsewhere; it keeps their agents and those that draw.
LEMMA RewritesRedirect ==
    ASSUME NEW steps \in Seq(AnyStep), NEW rewrites \in Seq(ToolRewrites)
    PROVE  LET new == ApplyToolRewrites(steps, rewrites)
           IN  /\ new \in Seq(AnyStep) /\ Len(new) = Len(steps)
               /\ \A i \in 1..Len(steps) :
                     /\ new[i].agent = steps[i].agent
                     /\ \/ new[i] = steps[i]
                        \/ /\ steps[i].agent # "Visual"
                           /\ \E r \in ToSet(rewrites) : r.agent = steps[i].agent /\ r.source = new[i].ref
<1> DEFINE For(i) == {k \in DOMAIN rewrites : /\ rewrites[k].agent = steps[i].agent
                                              /\ rewrites[k].source # 0
                                              /\ Targets(steps, rewrites)[k] = i}
           moved(i)  == steps[i].agent \in {"Analyst", "DocRetrieval"} /\ For(i) # {}
           stepAt(i) == IF moved(i) THEN Step(steps[i].agent, rewrites[Max(For(i))].source) ELSE steps[i]
           new == ApplyToolRewrites(steps, rewrites)
<1>1. new = [i \in 1..Len(steps) |-> stepAt(i)]
  <2>1. DOMAIN steps = 1..Len(steps)
    OBVIOUS
  <2> QED BY <2>1 DEF ApplyToolRewrites
<1>2. ASSUME NEW i \in 1..Len(steps), moved(i)
      PROVE  \E r \in ToSet(rewrites) : /\ r \in ToolRewrites /\ r.agent = steps[i].agent
                                        /\ stepAt(i) = Step(steps[i].agent, r.source)
  <2>1. For(i) \in SUBSET (1..Len(rewrites)) /\ Len(rewrites) \in Nat
    OBVIOUS
  <2>2. Max(For(i)) \in For(i)
    <3> HIDE DEF For
    <3> QED BY <1>2, <2>1, GreatestUpTo
  <2>3. PICK k \in DOMAIN rewrites : k = Max(For(i)) /\ rewrites[k].agent = steps[i].agent
    BY <2>2
  <2>4. rewrites[k] \in ToolRewrites /\ rewrites[k] \in ToSet(rewrites)
    BY DEF ToSet
  <2> QED BY <1>2, <2>3, <2>4
<1>3. ASSUME NEW i \in 1..Len(steps)
      PROVE  steps[i] \in AnyStep
  OBVIOUS
<1>4. ASSUME NEW i \in 1..Len(steps)
      PROVE  /\ stepAt(i) \in AnyStep /\ stepAt(i).agent = steps[i].agent
             /\ \/ stepAt(i) = steps[i]
                \/ /\ steps[i].agent # "Visual"
                   /\ \E r \in ToSet(rewrites) : r.agent = steps[i].agent /\ r.source = stepAt(i).ref
  <2>1. CASE moved(i)
    <3>1. PICK r \in ToSet(rewrites) : /\ r \in ToolRewrites /\ r.agent = steps[i].agent
                                       /\ stepAt(i) = Step(steps[i].agent, r.source)
      BY <1>2, <2>1
    <3>2. steps[i].agent # "Visual" /\ steps[i].agent \in Agents
      BY <1>3, <2>1 DEF AnyStep
    <3>3. r.source \in Nat
      BY <3>1 DEF ToolRewrites
    <3>4. Step(steps[i].agent, r.source) \in AnyStep
      BY <3>2, <3>3 DEF Step, AnyStep
    <3>5. /\ Step(steps[i].agent, r.source).agent = steps[i].agent
          /\ Step(steps[i].agent, r.source).ref = r.source
      BY DEF Step
    <3> HIDE DEF stepAt
    <3>6. stepAt(i) \in AnyStep /\ stepAt(i).agent = steps[i].agent /\ stepAt(i).ref = r.source
      BY <3>1, <3>4, <3>5
    <3> QED BY <3>1, <3>2, <3>6
  <2>2. CASE ~moved(i)
    BY <1>3, <2>2
  <2> QED BY <2>1, <2>2
<1> HIDE DEF stepAt, new
<1>5. Len(steps) \in Nat
  OBVIOUS
<1>6. new \in Seq(AnyStep) /\ Len(new) = Len(steps)
  BY <1>1, <1>4, <1>5
<1> QED BY <1>1, <1>4, <1>6 DEF new

\* An agent other than the user has answered: the next step is up, or the
\* plan is left, and one more call is made.
LEMMA StepEnds ==
    ASSUME SupInv, NEW agent \in Agents, agent # "Clarify", Current(agent),
           NEW newArt \in Artifacts, newArt.asked = art.asked, NEW leave \in BOOLEAN,
           newArt.analyst = "denied" => leave /\ newArt.terminal,
           EndStep(agent, newArt, leave)
    PROVE  SupInv' /\ Turn!Call
<1>1. /\ Typed /\ Paced /\ Refusals /\ PlanSound /\ ClarifyAsks /\ RetryElsewhere
  BY DEF SupInv
<1>2. /\ pc = "step" /\ at <= Len(plan.steps) /\ plan.steps[at].agent = agent
  BY DEF Current
<1>3. /\ at \in Nat /\ at >= 1 /\ Len(plan.steps) \in Nat /\ plan.steps \in Seq(AnyStep)
      /\ iter \in Nat /\ made \in Seq(Agents) /\ Len(made) \in Nat /\ req.c \in Limits
      /\ MaxIterations(req.c) \in Nat /\ req.c.maxSteps \in 1..10 /\ req.c \in Constraints
      /\ iter < MaxIterations(req.c) /\ Len(plan.steps) <= req.c.maxSteps
  <2>1. at \in Nat /\ plan.steps \in Seq(AnyStep) /\ iter \in Nat /\ made \in Seq(Agents)
    <3>1. plan.steps \in Seq(AnyStep) /\ made \in Seq(Agents)
      BY <1>1 DEF Typed, AnyPlan
    <3>2. at \in 0..Len(plan.steps) + 1 /\ iter \in 0..MaxIterations(req.c)
      BY <1>1 DEF Typed, TypeOK
    <3> QED BY <3>1, <3>2
  <2>2. req.c \in Constraints /\ req.c \in Limits
    BY <1>1, ConstraintsInLimits DEF Typed, TypeOK
  <2>3. req.c.maxSteps \in 1..10 /\ MaxIterations(req.c) \in Nat
    BY <2>2, IterationsPositive DEF Limits
  <2> QED BY <1>1, <1>2, <2>1, <2>2, <2>3 DEF Paced
<1>4. /\ art' = [newArt EXCEPT !.calls = Append(@, agent)]
      /\ made' = Append(made, agent)
      /\ at' = IF leave THEN Len(plan.steps) + 1 ELSE at + 1
      /\ tries' = 0
      /\ UNCHANGED <<req, pc, ctx, iter, plan, combined, decision, outcome>>
  BY DEF EndStep
<1>5. art.asked = FALSE /\ art.analyst # "denied"
  BY <1>1, <1>2, <1>3 DEF Refusals, Typed, Artifacts
<1>6. /\ art' \in Artifacts /\ art'.asked = FALSE
      /\ art'.analyst = newArt.analyst /\ art'.terminal = newArt.terminal
  <2> DEFINE new == [newArt EXCEPT !.calls = Append(@, agent)]
  <2>1. Append(newArt.calls, agent) \in Seq(Agents)
    BY DEF Artifacts
  <2>2. /\ new \in Artifacts /\ new.asked = newArt.asked
        /\ new.analyst = newArt.analyst /\ new.terminal = newArt.terminal
    BY <2>1 DEF Artifacts
  <2> HIDE DEF new
  <2>3. art' = new
    BY <1>4 DEF new
  <2> QED BY <1>5, <2>2, <2>3
<1>7. /\ made' \in Seq(Agents) /\ Len(made') = Len(made) + 1
  BY <1>3, <1>4
<1>8. at' \in 0..Len(plan.steps) + 1 /\ at' >= at + 1 /\ (leave => at' = Len(plan.steps) + 1)
  BY <1>2, <1>3, <1>4
<1>9. Typed'
  <2>1. tries' \in 0..MaxRetries
    BY <1>4, IterationsAssumption
  <2>2. /\ art'.analyst \in {"none", "rows", "empty", "error", "denied"}
        /\ art'.web \in {"none", "nothing", "results"}
        /\ art'.research \in {"none", "nothing", "low", "findings"}
    BY <1>6 DEF Artifacts
  <2>3. TypeOK'
    BY <1>1, <1>4, <1>8, <2>1, <2>2 DEF Typed, TypeOK
  <2> QED BY <1>1, <1>4, <1>6, <1>7, <2>3 DEF Typed
<1>10. /\ Paced' /\ Len(made) < CallLimit
  <2>1. Len(made) <= iter * req.c.maxSteps + (at - 1)
    BY <1>1, <1>2 DEF Paced
  <2>2. /\ iter * req.c.maxSteps \in Nat
        /\ iter * req.c.maxSteps + req.c.maxSteps <= MaxIterations(req.c) * req.c.maxSteps
    BY <1>3, RoomForAPass
  <2>3. CallLimit \in Nat /\ MaxIterations(req.c) * req.c.maxSteps <= CallLimit
    BY <1>3, WithinLimit
  <2>4. MaxIterations(req.c) * req.c.maxSteps \in Nat
    BY <1>3, Product
  <2>5. /\ req'.c.maxSteps = req.c.maxSteps /\ iter' = iter /\ pc' = "step"
        /\ plan' = plan /\ MaxIterations(req.c)' = MaxIterations(req.c)
    BY <1>2, <1>4
  <2>6. Len(made') <= iter * req.c.maxSteps + (at' - 1)
    BY <1>3, <1>7, <1>8, <2>1, <2>2
  <2>7. Paced'
    BY <1>3, <1>8, <2>5, <2>6 DEF Paced
  <2>8. ASSUME NEW X \in Nat, NEW Y \in Nat, Len(made) <= X + (at - 1),
               X + req.c.maxSteps <= Y, Y <= CallLimit
        PROVE  Len(made) < CallLimit
    <3>1. PICK k \in Nat : k = CallLimit
      BY <2>3
    <3>2. PICK n \in Nat : n = Len(made)
      BY <1>3
    <3>3. PICK m \in Nat : m = req.c.maxSteps
      BY <1>3
    <3>4. PICK a \in Nat : a = at
      BY <1>3
    <3>5. n <= X + (a - 1) /\ X + m <= Y /\ Y <= k /\ a <= m
      <4>1. a <= m
        BY <1>2, <1>3, <3>3, <3>4
      <4> QED BY <2>8, <3>1, <3>2, <3>3, <3>4, <4>1
    <3>6. n < k
      BY <2>8, <3>5
    <3> QED BY <3>1, <3>2, <3>6
  <2> QED BY <2>1, <2>2, <2>3, <2>4, <2>7, <2>8
<1>11. Refusals'
  BY <1>2, <1>3, <1>4, <1>6, <1>8 DEF Refusals
<1>12. PlanSound' /\ RetryElsewhere'
  BY <1>1, <1>4 DEF PlanSound, RetryElsewhere, Redirected
<1>13. ClarifyAsks' /\ RetryPending'
  <2>1. plan.route # "Clarify"
    BY <1>1, <1>2, <1>3 DEF ClarifyAsks
  <2> QED BY <1>2, <1>4, <2>1 DEF ClarifyAsks, RetryPending
<1>14. Turn!Call
  <2>1. outcome = None /\ outcome' = outcome
    BY <1>1, <1>2, <1>4 DEF Typed
  <2>2. (art'.analyst = "denied") \in BOOLEAN
    OBVIOUS
  <2> QED BY <1>5, <1>7, <1>10, <2>1, <2>2 DEF Turn!Call, CallLimit
<1> QED BY <1>9, <1>10, <1>11, <1>12, <1>13, <1>14 DEF SupInv

\* What a plan has to be to start.
Startable(p, c, x) ==
    /\ p \in AnyPlan
    /\ Len(p.steps) \in 1..c.maxSteps
    /\ \A i \in DOMAIN p.steps :
          /\ \/ AgentAllowed(p.steps[i].agent, c)
             \/ p.route = "DeepResearch" /\ p.steps[i].agent \in {"Analyst", "Visual"}
          /\ BypassesLlm(x) => StepSound(p.steps, i, p.route, c)
    /\ p.route = "Clarify" => Len(p.steps) = 1 /\ p.steps[1].agent = "Clarify"

\* What a retry asks of it.
Elsewhere(p, x) ==
    x.routing = NoOverrides =>
        \/ p.route # x.reasoning.previous
        \/ p.route = "AnalystThenVisual" /\ HasAnalyst(p.steps)

LEMMA PlanStarts ==
    ASSUME SupInv, NEW p, Startable(p, req.c, ctx), decision = "retry" => Elsewhere(p, ctx),
           StartPlan(p)
    PROVE  SupInv' /\ UNCHANGED Turn!turnVars
<1>1. /\ Typed /\ Paced /\ Refusals
  BY DEF SupInv
<1> DEFINE rewrites == ctx.reasoning.rewrites
           steps == ApplyToolRewrites(p.steps, rewrites)
           q == [p EXCEPT !.steps = steps]
<1>2. /\ pc = "plan" /\ plan' = q /\ at' = 1 /\ art' = NoArtifacts /\ pc' = "step"
      /\ UNCHANGED <<req, ctx, iter, tries, combined, decision, made, outcome>>
  BY DEF StartPlan
<1>a. /\ p \in AnyPlan /\ p.steps \in Seq(AnyStep) /\ p.route \in Routes
      /\ Len(p.steps) \in 1..req.c.maxSteps
  BY DEF Startable, AnyPlan
<1>b. rewrites \in Seq(ToolRewrites)
  BY <1>1 DEF Typed, Contexts, Overrides
<1>c. /\ steps \in Seq(AnyStep) /\ Len(steps) = Len(p.steps)
      /\ \A i \in 1..Len(p.steps) :
            /\ steps[i].agent = p.steps[i].agent
            /\ \/ steps[i] = p.steps[i]
               \/ /\ p.steps[i].agent # "Visual"
                  /\ \E r \in ToSet(rewrites) : r.agent = p.steps[i].agent /\ r.source = steps[i].ref
  <2> HIDE DEF rewrites
  <2> QED BY <1>a, <1>b, RewritesRedirect
<1> HIDE DEF rewrites, steps
<1>d. q.steps = steps /\ q.route = p.route
  BY <1>a DEF AnyPlan
<1>3. /\ q \in AnyPlan /\ q.steps \in Seq(AnyStep) /\ q.route \in Routes
      /\ Len(q.steps) \in 1..req.c.maxSteps
  BY <1>a, <1>c DEF AnyPlan
<1>e. /\ DOMAIN steps = 1..Len(p.steps) /\ DOMAIN p.steps = 1..Len(p.steps)
      /\ Len(p.steps) \in Nat
  BY <1>a, <1>c
<1> HIDE DEF q
<1>4. NoArtifacts \in Artifacts /\ NoArtifacts.analyst = "none" /\ NoArtifacts.asked = FALSE
  BY DEF NoArtifacts, Artifacts
<1>5. req.c.maxSteps \in 1..10
  BY <1>1, ConstraintsInLimits DEF Typed, TypeOK, Limits
<1>6. Typed'
  <2>1. TypeOK'
    BY <1>1, <1>2, <1>3, <1>5 DEF Typed, TypeOK, NoArtifacts
  <2>2. art' \in Artifacts
    BY <1>2, <1>4
  <2> QED BY <1>1, <1>2, <1>3, <2>1, <2>2 DEF Typed
<1>7. Paced'
  <2>1. iter' < MaxIterations(req'.c) /\ Len(made') <= iter' * req'.c.maxSteps
    BY <1>1, <1>2 DEF Paced
  <2>2. Len(plan'.steps) <= req'.c.maxSteps /\ at' >= 1
    BY <1>2, <1>3, <1>5
  <2>3. at' - 1 = 0 /\ iter' * req'.c.maxSteps \in Nat
    <3>1. iter \in Nat
      BY <1>1 DEF Typed, TypeOK
    <3> QED BY <1>2, <1>5, <3>1
  <2>4. Len(made') <= iter' * req'.c.maxSteps + (at' - 1)
    BY <2>1, <2>3
  <2> QED BY <1>2, <2>1, <2>2, <2>4 DEF Paced
<1>8. Refusals' /\ ClarifyAsks' /\ RetryPending'
  <2>1. Refusals'
    BY <1>2, <1>4 DEF Refusals
  <2>2. ClarifyAsks'
    <3>1. p.route = "Clarify" => Len(p.steps) = 1 /\ p.steps[1].agent = "Clarify"
      BY DEF Startable
    <3> QED BY <1>2, <1>c, <1>d, <3>1 DEF ClarifyAsks
  <2> QED BY <1>2, <2>1, <2>2 DEF RetryPending
<1>9. PlanSound'
  <2>1. ASSUME NEW i \in DOMAIN steps
        PROVE  /\ \/ AgentAllowed(steps[i].agent, req.c)
                  \/ p.route = "DeepResearch" /\ steps[i].agent \in {"Analyst", "Visual"}
               /\ BypassesLlm(ctx) /\ steps[i].ref # 0 =>
                     \/ steps[i].ref < i /\ steps[steps[i].ref].agent \in {Reads[steps[i].agent], "Analyst"}
                     \/ steps[i].agent # "Visual" /\ Redirected(steps[i])
               /\ BypassesLlm(ctx) /\ steps[i].agent = "Visual" => steps[i].ref # 0
    <3>1. /\ \/ AgentAllowed(p.steps[i].agent, req.c)
             \/ p.route = "DeepResearch" /\ p.steps[i].agent \in {"Analyst", "Visual"}
          /\ BypassesLlm(ctx) => StepSound(p.steps, i, p.route, req.c)
      BY <1>e DEF Startable
    <3>2. steps[i].agent = p.steps[i].agent
      BY <1>c, <1>e
    <3>3. CASE steps[i] = p.steps[i]
      <4>1. p.steps[i] \in AnyStep /\ p.steps[i].ref \in Nat
        <5>1. p.steps \in Seq(AnyStep) /\ i \in 1..Len(p.steps)
          BY <1>a, <1>e
        <5>2. p.steps[i] \in AnyStep
          BY <5>1
        <5> QED BY <5>2 DEF AnyStep
      <4>2. ASSUME BypassesLlm(ctx), steps[i].ref # 0
            PROVE  steps[i].ref < i /\ steps[steps[i].ref].agent \in {Reads[steps[i].agent], "Analyst"}
        <5>1. p.steps[i].ref < i /\ p.steps[p.steps[i].ref].agent \in {Reads[p.steps[i].agent], "Analyst"}
          BY <3>1, <3>3, <4>2 DEF StepSound
        <5>2. p.steps[i].ref \in 1..Len(p.steps)
          BY <1>e, <3>3, <4>1, <4>2, <5>1
        <5> QED BY <1>c, <3>3, <5>1, <5>2
      <4> QED BY <3>1, <3>2, <3>3, <4>2 DEF StepSound
    <3>4. CASE steps[i] # p.steps[i]
      <4>1. /\ p.steps[i].agent # "Visual"
            /\ \E r \in ToSet(rewrites) : r.agent = p.steps[i].agent /\ r.source = steps[i].ref
        BY <1>c, <1>e, <3>4
      <4>2. Redirected(steps[i])
        BY <3>2, <4>1 DEF Redirected, rewrites
      <4> QED BY <3>1, <3>2, <4>1, <4>2
    <3> QED BY <3>3, <3>4
  <2>2. \A step : Redirected(step)' <=> Redirected(step)
    BY <1>2 DEF Redirected
  <2>3. Len(steps) \in 1..req.c.maxSteps
    BY <1>3, <1>d
  <2> QED BY <1>2, <1>d, <2>1, <2>2, <2>3 DEF PlanSound, Redirected
<1>10. RetryElsewhere'
  <2>1. HasAnalyst(p.steps) => HasAnalyst(steps)
    BY <1>c, <1>e DEF HasAnalyst
  <2> QED BY <1>2, <1>d, <2>1 DEF RetryElsewhere, Elsewhere
<1>11. art.analyst # "denied"
  BY <1>1, <1>2 DEF Refusals
<1>12. UNCHANGED Turn!turnVars
  BY <1>2, <1>4, <1>11 DEF Turn!turnVars
<1> QED BY <1>6, <1>7, <1>8, <1>9, <1>10, <1>12 DEF SupInv

\* The router's plan can start, and a retry gets another route.
LEMMA RouterStep ==
    ASSUME SupInv, PlanWithRouter
    PROVE  SupInv' /\ UNCHANGED Turn!turnVars
<1>1. /\ Typed /\ RetryPending
  BY DEF SupInv
<1>2. /\ req.c \in Limits /\ ctx \in Contexts
  BY <1>1, ConstraintsInLimits DEF Typed, TypeOK
<1>3. PICK p : p = RoutePlan(req.s, req.c, ctx)
  OBVIOUS
<1>4. /\ p \in AnyPlan /\ p.route = ChooseRoute(req.s, req.c, ctx)
      /\ StepsSound(p.steps, p.route, req.c)
      /\ p.route = "AnalystThenVisual" => HasAnalyst(p.steps)
      /\ p.route = "Clarify" => p.steps = <<Step("Clarify", 0)>>
  BY <1>2, <1>3, RouterPlans
<1>5. pc = "plan" /\ StartPlan(p)
  BY <1>3 DEF PlanWithRouter, StartPlan
<1>6. Startable(p, req.c, ctx)
  <2>1. p.route = "Clarify" => Len(p.steps) = 1 /\ p.steps[1].agent = "Clarify"
    BY <1>4 DEF Step
  <2> QED BY <1>4, <2>1 DEF Startable, StepsSound, StepSound
<1>7. ASSUME decision = "retry", ctx.routing = NoOverrides
      PROVE  p.route # ctx.reasoning.previous \/ (p.route = "AnalystThenVisual" /\ HasAnalyst(p.steps))
  <2> DEFINE r == ctx.reasoning
             o == ExtractOverrides(ctx)
  <2>1. /\ r.retry /\ r.previous \in Routes \ {"Clarify"}
        /\ r.force = PickFallbackRoute(r.previous)
    BY <1>1, <1>5, <1>7 DEF RetryPending
  <2>2. r.previous # None
    BY <2>1, NoneAssumption
  <2>3. o.force = r.force /\ r.previous \in o.avoid
    BY <1>2, <1>7, <2>1, <2>2, OverridesInForce
  <2>4. r.force # r.previous
    BY <2>1 DEF PickFallbackRoute
  <2> HIDE DEF o, r
  <2>5. \/ p.route = o.force
        \/ p.route = "Clarify"
        \/ p.route = "AnalystThenVisual"
        \/ p.route \notin o.avoid
    BY <1>2, <1>4, RouteChosen DEF o
  <2>6. p.route # r.previous \/ (p.route = "AnalystThenVisual" /\ HasAnalyst(p.steps))
    BY <1>4, <2>1, <2>3, <2>4, <2>5
  <2> QED BY <2>6 DEF r
<1>8. decision = "retry" => Elsewhere(p, ctx)
  BY <1>7 DEF Elsewhere
<1> QED BY <1>5, <1>6, <1>8, PlanStarts

\* So can a plan of the language model that is accepted; it is not asked for a
\* plan when a retry is due.
LEMMA LlmStep ==
    ASSUME SupInv, NEW q \in LlmPlans, PlanWithLlm(q)
    PROVE  SupInv' /\ UNCHANGED Turn!turnVars
<1>1. /\ Typed /\ RetryPending
  BY DEF SupInv
<1>2. req.c \in Limits /\ req.c.maxSteps \in 1..10
  BY <1>1, ConstraintsInLimits DEF Typed, TypeOK, Limits
<1>3. /\ ~BypassesLlm(ctx) /\ AcceptsLlmPlan(q, req.c) /\ pc = "plan"
  BY DEF PlanWithLlm, StartPlan
<1>4. q \in AnyPlan /\ q.steps \in Seq(AnyStep) /\ q.route \in Routes
  BY PlansAssumption DEF AnyPlan, AnyStep
<1>5. PICK p : p = [q EXCEPT !.steps = RewriteStepReferences(@)]
  OBVIOUS
<1>6. StartPlan(p)
  BY <1>5 DEF PlanWithLlm
<1>7. /\ p.route = q.route /\ p.steps = RewriteStepReferences(q.steps)
      /\ p \in AnyPlan
  <2>1. RewriteStepReferences(q.steps) \in Seq(AnyStep)
    BY <1>4, RewritingKeeps
  <2> QED BY <1>4, <1>5, <2>1 DEF AnyPlan
<1>8. /\ Len(p.steps) = Len(q.steps) /\ DOMAIN p.steps = 1..Len(q.steps)
      /\ DOMAIN q.steps = 1..Len(q.steps)
      /\ \A i \in 1..Len(q.steps) : p.steps[i].agent = q.steps[i].agent
  <2>1. p.steps \in Seq(AnyStep)
    BY <1>7 DEF AnyPlan
  <2> QED BY <1>4, <1>7, <2>1, RewritingKeeps
<1>9. Startable(p, req.c, ctx)
  <2>1. Len(p.steps) \in 1..req.c.maxSteps
    <3>1. q.steps # <<>> /\ Len(q.steps) <= req.c.maxSteps
      BY <1>3 DEF AcceptsLlmPlan
    <3>2. Len(q.steps) \in Nat \ {0}
      BY <1>4, <3>1
    <3> QED BY <1>2, <1>8, <3>1, <3>2
  <2>2. \A i \in DOMAIN p.steps : AgentAllowed(p.steps[i].agent, req.c)
    BY <1>3, <1>8 DEF AcceptsLlmPlan
  <2>3. p.route = "Clarify" => Len(p.steps) = 1 /\ p.steps[1].agent = "Clarify"
    <3>1. p.route = "Clarify" => Len(q.steps) = 1 /\ q.steps[1].agent = "Clarify"
      BY <1>3, <1>7 DEF AcceptsLlmPlan
    <3> QED BY <1>8, <3>1
  <2> QED BY <1>3, <1>7, <2>1, <2>2, <2>3 DEF Startable
<1>10. decision # "retry"
  <2>1. SUFFICES ASSUME decision = "retry"
                 PROVE  FALSE
    OBVIOUS
  <2>2. /\ ctx.reasoning.previous \in Routes \ {"Clarify"}
        /\ ctx.reasoning.force = PickFallbackRoute(ctx.reasoning.previous)
    BY <1>1, <1>3, <2>1 DEF RetryPending
  <2>3. ctx.reasoning.force \in Routes
    BY <2>2 DEF PickFallbackRoute, Routes
  <2>4. ctx.reasoning.force # None
    BY <2>3, NoneAssumption
  <2>5. ctx.reasoning = NoOverrides /\ NoOverrides.force = None
    BY <1>3 DEF BypassesLlm, NoOverrides
  <2> QED BY <2>4, <2>5
<1> QED BY <1>6, <1>9, <1>10, PlanStarts

\* The agents: every outcome of theirs ends a step, but an empty or wrong
\* result that the analyst tries again.
LEMMA AgentStep ==
    ASSUME SupInv,
           \/ \E o \in {"denied", "error"} : AnalystRefuses(o)
           \/ \E res \in {"rows", "empty", "recoverable", "fatal"}, hinted \in BOOLEAN :
                 AnalystTries(res, hinted)
           \/ RunVisual
           \/ \E res \in {"nothing", "results"} : RunWebSearch(res)
           \/ \E res \in {"nothing", "low", "findings"} : RunDocRetrieval(res)
    PROVE  SupInv' /\ (Turn!Call \/ UNCHANGED Turn!turnVars)
<1>1. Typed /\ Refusals
  BY DEF SupInv
<1>2. ASSUME pc = "step", at <= Len(plan.steps)
      PROVE  art \in Artifacts /\ art.analyst # "denied"
  BY <1>1, <1>2 DEF Typed, Refusals, TypeOK, AnyPlan
<1>3. {"Analyst", "Visual", "WebSearch", "DocRetrieval"} \subseteq Agents
  BY DEF Agents
<1>4. ASSUME NEW o \in {"denied", "error"}, AnalystRefuses(o)
      PROVE  SupInv' /\ Turn!Call
  <2>1. PICK newArt : newArt = WithAnalyst([analyst |-> o, terminal |-> TRUE])
    OBVIOUS
  <2>2. Current("Analyst") /\ art \in Artifacts
    BY <1>2, <1>4 DEF AnalystRefuses, Current
  <2>3. /\ newArt \in Artifacts /\ newArt.asked = art.asked
        /\ newArt.analyst = o /\ newArt.terminal = TRUE
    BY <2>1, <2>2 DEF WithAnalyst, Artifacts
  <2>4. EndStep("Analyst", newArt, o = "denied")
    BY <1>4, <2>1 DEF AnalystRefuses
  <2>5. (o = "denied") \in BOOLEAN /\ (newArt.analyst = "denied" => (o = "denied") /\ newArt.terminal)
    BY <2>3
  <2> QED BY <1>3, <2>2, <2>3, <2>4, <2>5, StepEnds
<1>5. ASSUME NEW res \in {"rows", "empty", "recoverable", "fatal"}, NEW hinted \in BOOLEAN,
             AnalystTries(res, hinted)
      PROVE  SupInv' /\ (Turn!Call \/ UNCHANGED Turn!turnVars)
  <2>1. Current("Analyst") /\ art \in Artifacts
    BY <1>2, <1>5 DEF AnalystTries, Current
  <2>2. CASE ShouldRetry(res, hinted)
    <3>1. /\ tries' = tries + 1 /\ tries < MaxRetries /\ pc = "step"
          /\ UNCHANGED <<req, pc, ctx, iter, plan, at, art, combined, decision, made, outcome>>
      BY <1>5, <2>2 DEF AnalystTries, ShouldRetry, Current
    <3>2. tries' \in 0..MaxRetries
      BY <1>1, <3>1, IterationsAssumption DEF Typed, TypeOK
    <3>3. Typed'
      BY <1>1, <3>1, <3>2 DEF Typed, TypeOK
    <3>4. Paced' /\ Refusals' /\ PlanSound' /\ ClarifyAsks' /\ RetryPending' /\ RetryElsewhere'
      BY <3>1 DEF SupInv, Paced, Refusals, PlanSound, Redirected, ClarifyAsks, RetryPending, RetryElsewhere
    <3>5. UNCHANGED Turn!turnVars
      BY <3>1 DEF Turn!turnVars
    <3> QED BY <3>3, <3>4, <3>5 DEF SupInv
  <2>3. CASE ~ShouldRetry(res, hinted)
    <3>1. PICK o : o = FinalizeOutcome(res)
      OBVIOUS
    <3>2. o.analyst \in {"rows", "empty", "error"} /\ o.terminal \in BOOLEAN
      <4> DEFINE last == tries >= MaxRetries
                 over == res = "fatal" \/ tries >= MaxRetries
      <4>1. last \in BOOLEAN /\ over \in BOOLEAN
        OBVIOUS
      <4>2. \/ o = [analyst |-> "rows", terminal |-> TRUE]
            \/ o = [analyst |-> "empty", terminal |-> last]
            \/ o = [analyst |-> "error", terminal |-> over]
        BY <3>1 DEF FinalizeOutcome
      <4> HIDE DEF last, over
      <4>3. PICK l \in BOOLEAN, v \in BOOLEAN : l = last /\ v = over
        BY <4>1, Zenon
      <4>4. /\ o.analyst \in {"rows", "empty", "error"}
            /\ o.terminal = TRUE \/ o.terminal = l \/ o.terminal = v
        BY <4>2, <4>3
      <4> QED BY <4>3, <4>4, Zenon
    <3>3. PICK newArt : newArt = WithAnalyst(o)
      OBVIOUS
    <3>4. newArt \in Artifacts /\ newArt.asked = art.asked /\ newArt.analyst # "denied"
      BY <2>1, <3>2, <3>3 DEF WithAnalyst, Artifacts
    <3>5. EndStep("Analyst", newArt, FALSE)
      BY <1>5, <2>3, <3>1, <3>3 DEF AnalystTries
    <3> QED BY <1>3, <2>1, <3>4, <3>5, StepEnds
  <2> QED BY <2>2, <2>3
<1>6. ASSUME RunVisual
      PROVE  SupInv' /\ Turn!Call
  <2>1. Current("Visual") /\ art \in Artifacts /\ art.analyst # "denied"
    BY <1>2, <1>6 DEF RunVisual, Current
  <2>2. PICK newArt : newArt = art
    OBVIOUS
  <2>3. EndStep("Visual", newArt, FALSE)
    BY <1>6, <2>2 DEF RunVisual
  <2> QED BY <1>3, <2>1, <2>2, <2>3, StepEnds
<1>7. ASSUME NEW res \in {"nothing", "results"}, RunWebSearch(res)
      PROVE  SupInv' /\ Turn!Call
  <2>1. Current("WebSearch") /\ art \in Artifacts /\ art.analyst # "denied"
    BY <1>2, <1>7 DEF RunWebSearch, Current
  <2>2. PICK newArt : newArt = [art EXCEPT !.web = res]
    OBVIOUS
  <2>3. newArt \in Artifacts /\ newArt.asked = art.asked /\ newArt.analyst = art.analyst
    BY <2>1, <2>2 DEF Artifacts
  <2>4. EndStep("WebSearch", newArt, FALSE)
    BY <1>7, <2>2 DEF RunWebSearch
  <2> QED BY <1>3, <2>1, <2>3, <2>4, StepEnds
<1>8. ASSUME NEW res \in {"nothing", "low", "findings"}, RunDocRetrieval(res)
      PROVE  SupInv' /\ Turn!Call
  <2>1. Current("DocRetrieval") /\ art \in Artifacts /\ art.analyst # "denied"
    BY <1>2, <1>8 DEF RunDocRetrieval, Current
  <2>2. PICK newArt : newArt = [art EXCEPT !.research = res]
    OBVIOUS
  <2>3. newArt \in Artifacts /\ newArt.asked = art.asked /\ newArt.analyst = art.analyst
    BY <2>1, <2>2 DEF Artifacts
  <2>4. EndStep("DocRetrieval", newArt, FALSE)
    BY <1>8, <2>2 DEF RunDocRetrieval
  <2> QED BY <1>3, <2>1, <2>3, <2>4, StepEnds
<1> QED BY <1>4, <1>5, <1>6, <1>7, <1>8

\* The user is to be asked, or the steps are done.
LEMMA PlanEnds ==
    ASSUME SupInv, RunClarify \/ EndPlan
    PROVE  SupInv' /\ UNCHANGED Turn!turnVars
<1>1. /\ Typed /\ Paced /\ Refusals /\ PlanSound /\ ClarifyAsks /\ RetryPending /\ RetryElsewhere
  BY DEF SupInv
<1>2. /\ at \in Nat /\ plan.steps \in Seq(AnyStep) /\ Len(plan.steps) \in Nat
      /\ req.c.maxSteps \in 1..10 /\ iter \in Nat /\ Len(made) \in Nat
      /\ iter * req.c.maxSteps \in Nat
  <2>1. plan.steps \in Seq(AnyStep) /\ made \in Seq(Agents)
    BY <1>1 DEF Typed, AnyPlan
  <2>2. req.c \in Limits /\ at \in Nat /\ iter \in Nat
    BY <1>1, <2>1, ConstraintsInLimits DEF Typed, TypeOK
  <2>3. req.c.maxSteps \in 1..10
    BY <2>2 DEF Limits
  <2> QED BY <2>1, <2>2, <2>3
<1>3. CASE RunClarify
  <2>1. /\ pc = "step" /\ at <= Len(plan.steps) /\ plan.steps[at].agent = "Clarify"
        /\ art' = [art EXCEPT !.asked = TRUE]
        /\ at' = Len(plan.steps) + 1
        /\ UNCHANGED <<req, pc, ctx, iter, plan, tries, combined, decision, made, outcome>>
    BY <1>3 DEF RunClarify, Current
  <2>2. /\ art' \in Artifacts /\ art'.asked = TRUE /\ art'.analyst = art.analyst
        /\ art'.web = art.web /\ art'.research = art.research
    <3> DEFINE new == [art EXCEPT !.asked = TRUE]
    <3>1. /\ new \in Artifacts /\ new.asked = TRUE /\ new.analyst = art.analyst
          /\ new.web = art.web /\ new.research = art.research
      BY <1>1 DEF Typed, Artifacts
    <3> HIDE DEF new
    <3>2. art' = new
      BY <2>1 DEF new
    <3> QED BY <3>1, <3>2
  <2>3. at' \in 0..Len(plan.steps) + 1
    BY <1>2, <2>1
  <2>4. TypeOK'
    BY <1>1, <2>1, <2>2, <2>3 DEF Typed, TypeOK
  <2>5. Typed'
    BY <1>1, <2>1, <2>2, <2>4 DEF Typed
  <2>6. Paced'
    <3>1. at <= at' - 1 /\ at' >= 1
      BY <1>2, <2>1
    <3>2. /\ iter < MaxIterations(req.c) /\ Len(plan.steps) <= req.c.maxSteps
          /\ Len(made) <= iter * req.c.maxSteps + (at - 1)
      BY <1>1, <2>1 DEF Paced
    <3>3. Len(made) <= iter * req.c.maxSteps + (at' - 1)
      <4>1. PICK X \in Nat : X = iter * req.c.maxSteps
        BY <1>2
      <4>2. PICK n \in Nat, a \in Nat, b \in Nat : n = Len(made) /\ a = at /\ b = at'
        BY <1>2, <2>3
      <4>3. n <= X + (a - 1) /\ a <= b - 1
        BY <3>1, <3>2, <4>1, <4>2
      <4>4. n <= X + (b - 1)
        BY <4>3
      <4> QED BY <4>1, <4>2, <4>4
    <3> QED BY <2>1, <3>1, <3>2, <3>3 DEF Paced
  <2>7. art.analyst # "denied"
    BY <1>1, <1>2, <2>1 DEF Refusals
  <2>8. Refusals' /\ ClarifyAsks'
    BY <1>1, <1>2, <2>1, <2>2, <2>7 DEF Refusals, ClarifyAsks
  <2>9. PlanSound' /\ RetryPending' /\ RetryElsewhere'
    BY <1>1, <2>1 DEF PlanSound, Redirected, RetryPending, RetryElsewhere
  <2>10. UNCHANGED Turn!turnVars
    BY <2>1, <2>2 DEF Turn!turnVars
  <2> QED BY <2>5, <2>6, <2>8, <2>9, <2>10 DEF SupInv
<1>4. CASE EndPlan
  <2>1. /\ pc = "step" /\ at > Len(plan.steps) /\ pc' = "reason"
        /\ combined' = combined \o art.calls
        /\ UNCHANGED <<req, ctx, iter, plan, at, tries, art, decision, made, outcome>>
    BY <1>4 DEF EndPlan, MergeArtifacts
  <2>2. combined' \in Seq(Agents)
    BY <1>1, <2>1 DEF Typed, TypeOK, Artifacts
  <2>3. Typed'
    BY <1>1, <2>1, <2>2 DEF Typed, TypeOK
  <2>4. Paced'
    <3>1. /\ iter < MaxIterations(req.c) /\ Len(plan.steps) <= req.c.maxSteps
          /\ Len(made) <= iter * req.c.maxSteps + (at - 1)
      BY <1>1, <2>1 DEF Paced
    <3>2. at <= Len(plan.steps) + 1
      BY <1>1 DEF Typed, TypeOK
    <3>3. PICK X \in Nat : X = iter * req.c.maxSteps
      BY <1>2
    <3>4. PICK n \in Nat, a \in Nat : n = Len(made) /\ a = at
      BY <1>2
    <3>5. PICK m \in Nat, k \in Nat : m = req.c.maxSteps /\ k = Len(plan.steps)
      <4>1. req.c.maxSteps \in Nat
        BY <1>2
      <4> QED BY <1>2, <4>1
    <3>6. Len(made) <= iter * req.c.maxSteps + req.c.maxSteps
      <4>1. n <= X + (a - 1) /\ a <= k + 1 /\ k <= m
        BY <3>1, <3>2, <3>3, <3>4, <3>5
      <4>2. n <= X + m
        BY <4>1
      <4> QED BY <3>3, <3>4, <3>5, <4>2
    <3> QED BY <2>1, <3>1, <3>6 DEF Paced
  <2>5. Refusals' /\ PlanSound' /\ RetryPending' /\ RetryElsewhere'
    BY <1>1, <2>1 DEF Refusals, PlanSound, RetryPending, RetryElsewhere
  <2>6. ClarifyAsks'
    BY <1>1, <1>2, <2>1 DEF ClarifyAsks
  <2>7. UNCHANGED Turn!turnVars
    BY <2>1 DEF Turn!turnVars
  <2> QED BY <2>3, <2>4, <2>5, <2>6, <2>7 DEF SupInv
<1> QED BY <1>3, <1>4

-----------------------------------------------------------------------------
(* The reasoning agent                                                     *)

\* evaluate goes on only when there is a pass left, nobody is to be asked and
\* no error is final; a retry takes the fallback route.
LEMMA Decisions ==
    ASSUME Typed, NEW llm \in LlmAnswers, NEW same \in BOOLEAN, NEW d, d = Evaluate(llm, same)
    PROVE  /\ d.go \in BOOLEAN /\ d.why \in DecisionKinds
           /\ d.go => /\ d.update \in Overrides /\ d.docs \in BOOLEAN
                      /\ ~art.asked /\ ~(IsError /\ art.terminal)
                      /\ ~(iter + 1 >= MaxIterations(req.c))
           /\ d.why = "retry" => d.go /\ d.update = [NoOverrides EXCEPT
                                    !.force = PickFallbackRoute(plan.route),
                                    !.previous = plan.route, !.retry = TRUE]
<1> DEFINE retried == [NoOverrides EXCEPT !.force = PickFallbackRoute(plan.route),
                                          !.previous = plan.route, !.retry = TRUE]
           IsStop(e) == e.go = FALSE /\ e.why \in DecisionKinds \ {"retry"}
           IsMore(e) == /\ e.go = TRUE /\ e.why \in DecisionKinds
                        /\ e.update \in Overrides /\ e.docs \in BOOLEAN
                        /\ e.why = "retry" => e.update = retried
<1>1. NoOverrides \in Overrides /\ plan.route \in Routes
  BY DEF Typed, AnyPlan, NoOverrides, Overrides
<1>2. \A why \in DecisionKinds \ {"retry"} : IsStop(Stop(why))
  BY DEF Stop, Decide
<1>3. IsMore(Retry)
  <2>1. PickFallbackRoute(plan.route) \in Routes
    BY DEF PickFallbackRoute, Routes
  <2>2. retried \in Overrides
    BY <1>1, <2>1 DEF Overrides
  <2>3. Retry = [go |-> TRUE, why |-> "retry", update |-> retried, docs |-> FALSE]
    BY DEF Retry, Decide
  <2> HIDE DEF retried
  <2> QED BY <2>2, <2>3 DEF DecisionKinds
<1>4. IsMore(Heuristics) \/ IsStop(Heuristics)
  <2> DEFINE u1 == [NoOverrides EXCEPT !.previous = plan.route, !.entity = "probe"]
             u2 == [NoOverrides EXCEPT !.force = "DeepResearch", !.previous = plan.route]
             u3 == [NoOverrides EXCEPT !.force = "WebSearch", !.previous = plan.route, !.retry = TRUE]
  <2>1. u1 \in Overrides /\ u2 \in Overrides /\ u3 \in Overrides
    BY <1>1 DEF Overrides, Routes
  <2>2. \/ Heuristics = [go |-> TRUE, why |-> "probe", update |-> u1, docs |-> FALSE]
        \/ Heuristics = Retry
        \/ Heuristics = [go |-> TRUE, why |-> "promote", update |-> u2, docs |-> TRUE]
        \/ Heuristics = [go |-> TRUE, why |-> "broaden", update |-> u3, docs |-> FALSE]
        \/ Heuristics = Stop("sufficient")
    BY DEF Heuristics, Decide
  <2> HIDE DEF u1, u2, u3
  <2>3. \A u \in Overrides, b \in BOOLEAN : \A why \in {"probe", "promote", "broaden"} :
           IsMore([go |-> TRUE, why |-> why, update |-> u, docs |-> b])
    BY DEF DecisionKinds
  <2>4. "sufficient" \in DecisionKinds \ {"retry"}
    BY DEF DecisionKinds
  <2> HIDE DEF IsMore, IsStop
  <2> QED BY <1>2, <1>3, <2>1, <2>2, <2>3, <2>4
<1>5. IsMore(StopWithSafeguards) \/ IsStop(StopWithSafeguards)
  <2>1. StopWithSafeguards = Retry \/ StopWithSafeguards = Stop("sufficient")
    BY DEF StopWithSafeguards
  <2>2. "sufficient" \in DecisionKinds \ {"retry"}
    BY DEF DecisionKinds
  <2> HIDE DEF IsMore, IsStop
  <2> QED BY <1>2, <1>3, <2>1, <2>2
<1>6. ASSUME NEW o \in LlmDecisions
      PROVE  IsMore(ContinueWithSafeguards(o))
  <2>1. o \in Overrides /\ o.retry \in BOOLEAN
    BY DecisionsAssumption DEF Overrides
  <2> DEFINE low == o.retry \/ BareError \/ ~HasData \/ art.research = "low"
             u   == [o EXCEPT !.previous = plan.route, !.retry = low]
  <2>2. low \in BOOLEAN
    OBVIOUS
  <2>3. u \in Overrides
    <3> HIDE DEF low
    <3> QED BY <1>1, <2>1, <2>2 DEF Overrides
  <2>4. ContinueWithSafeguards(o) = [go |-> TRUE, why |-> "llm", update |-> u, docs |-> FALSE]
    BY DEF ContinueWithSafeguards, Decide
  <2> HIDE DEF u
  <2> QED BY <2>3, <2>4 DEF DecisionKinds
<1>7. /\ {"asked", "last", "repeated", "terminal"} \subseteq DecisionKinds \ {"retry"}
      /\ llm.says \in {"nothing", "stop", "continue"}
      /\ llm.says = "continue" => llm.overrides \in LlmDecisions
  BY DEF DecisionKinds, LlmAnswers
<1> HIDE DEF IsMore, IsStop
<1>8. \/ d = Stop("asked") \/ d = Stop("last") \/ d = Stop("repeated") \/ d = Stop("terminal")
      \/ /\ ~art.asked /\ ~(IsError /\ art.terminal) /\ ~(iter + 1 >= MaxIterations(req.c))
         /\ \/ d = Heuristics
            \/ d = StopWithSafeguards
            \/ llm.says = "continue" /\ d = ContinueWithSafeguards(llm.overrides)
  BY <1>7 DEF Evaluate
<1>9. \/ IsStop(d)
      \/ IsMore(d) /\ ~art.asked /\ ~(IsError /\ art.terminal) /\ ~(iter + 1 >= MaxIterations(req.c))
  BY <1>2, <1>4, <1>5, <1>6, <1>7, <1>8
<1> QED BY <1>9 DEF IsStop, IsMore

\* What is remembered of an update of the context (_merge_context).
LEMMA Merged ==
    ASSUME NEW old \in Overrides, NEW new \in Overrides
    PROVE  LET m == MergeReasoning(old, new)
           IN  /\ m \in Overrides
               /\ new.force # None => m.force = new.force
               /\ m.previous = new.previous
               /\ new.retry => m.retry
<1> DEFINE f == IF new.force # None THEN new.force ELSE old.force
           p == IF new.prefer # {} THEN new.prefer ELSE old.prefer
           a == IF new.avoid # {} THEN new.avoid ELSE old.avoid
           t == old.retry \/ new.retry
           q == old.require \cup new.require
           e == IF new.entity # "none" THEN new.entity ELSE old.entity
           w == IF new.rewrites # <<>> THEN new.rewrites ELSE old.rewrites
           m == [force |-> f, prefer |-> p, avoid |-> a, previous |-> new.previous,
                 retry |-> t, require |-> q, entity |-> e, rewrites |-> w]
<1>1. MergeReasoning(old, new) = m
  BY DEF MergeReasoning
<1>2. /\ f \in Routes \cup {None} /\ p \in SUBSET Routes /\ a \in SUBSET Routes
      /\ new.previous \in Routes \cup {None} /\ q \in SUBSET Routes
      /\ e \in {"none", "probe", "llm"} /\ w \in Seq(ToolRewrites)
  BY DEF Overrides
<1>3. t \in BOOLEAN
  OBVIOUS
<1>4. /\ new.force # None => f = new.force
      /\ new.retry => t
  OBVIOUS
<1> HIDE DEF f, p, a, t, q, e, w
<1>5. m \in Overrides
  BY <1>2, <1>3 DEF Overrides
<1>6. m.force = f /\ m.previous = new.previous /\ m.retry = t
  OBVIOUS
<1> HIDE DEF m
<1> QED BY <1>1, <1>4, <1>5, <1>6

LEMMA ReasonStep ==
    ASSUME SupInv, NEW llm \in LlmAnswers, NEW same \in BOOLEAN, Reason(llm, same)
    PROVE  SupInv' /\ UNCHANGED Turn!turnVars
<1>1. /\ Typed /\ Paced /\ Refusals /\ PlanSound /\ ClarifyAsks
  BY DEF SupInv
<1>2. PICK d : d = Evaluate(llm, same)
  OBVIOUS
<1>3. /\ d.go \in BOOLEAN /\ d.why \in DecisionKinds
      /\ d.go => /\ d.update \in Overrides /\ d.docs \in BOOLEAN
                 /\ ~art.asked /\ ~(IsError /\ art.terminal)
                 /\ ~(iter + 1 >= MaxIterations(req.c))
      /\ d.why = "retry" => d.go /\ d.update = [NoOverrides EXCEPT
                               !.force = PickFallbackRoute(plan.route),
                               !.previous = plan.route, !.retry = TRUE]
  BY <1>1, <1>2, Decisions
<1>4. /\ pc = "reason" /\ decision' = d.why /\ iter' = iter + 1
      /\ UNCHANGED <<req, plan, at, tries, art, combined, made, outcome>>
      /\ d.go => pc' = IF iter + 1 = MaxIterations(req.c) THEN "exhausted" ELSE "plan"
      /\ ~d.go => UNCHANGED ctx /\ pc' = "answer"
  BY <1>2 DEF Reason
<1>5. d.go => ctx' = [ctx EXCEPT !.reasoning = MergeReasoning(@, d.update),
                                 !.documents = @ \/ d.docs,
                                 !.retryError = @ \/ (BareError /\ d.update.retry)]
  BY <1>2 DEF Reason
<1>6. /\ iter \in Nat /\ MaxIterations(req.c) \in Nat /\ iter < MaxIterations(req.c)
      /\ req.c.maxSteps \in 1..10
  <2>1. req.c \in Limits /\ iter \in 0..MaxIterations(req.c)
    BY <1>1, ConstraintsInLimits DEF Typed, TypeOK
  <2>2. MaxIterations(req.c) \in Nat
    BY <2>1, IterationsPositive
  <2> QED BY <1>1, <1>4, <2>1, <2>2 DEF Paced, Limits
<1>7. d.go => pc' = "plan" /\ iter + 1 < MaxIterations(req.c)
  BY <1>3, <1>4, <1>6
<1>8. ASSUME d.go
      PROVE  /\ ctx' \in Contexts
             /\ ctx'.reasoning = MergeReasoning(ctx.reasoning, d.update)
  <2> DEFINE doc == ctx.documents \/ d.docs
             err == ctx.retryError \/ (BareError /\ d.update.retry)
  <2>1. doc \in BOOLEAN /\ err \in BOOLEAN
    OBVIOUS
  <2>2. ctx \in Contexts /\ ctx.reasoning \in Overrides
    BY <1>1 DEF Typed, Contexts
  <2>3. MergeReasoning(ctx.reasoning, d.update) \in Overrides
    BY <1>3, <1>8, <2>2, Merged
  <2>4. ctx' = [ctx EXCEPT !.reasoning = MergeReasoning(ctx.reasoning, d.update),
                           !.documents = doc, !.retryError = err]
    BY <1>5, <1>8, <2>2 DEF Contexts
  <2> HIDE DEF doc, err
  <2> QED BY <2>1, <2>2, <2>3, <2>4 DEF Contexts
<1>9. Typed'
  <2>1. ctx' \in Contexts
    BY <1>1, <1>3, <1>4, <1>8 DEF Typed
  <2>2. iter' \in 0..MaxIterations(req.c)
    BY <1>4, <1>6
  <2>3. pc' \in {"plan", "answer"}
    BY <1>3, <1>4, <1>7
  <2>4. TypeOK'
    <3>1. /\ ctx'.routing \in Overrides /\ ctx'.reasoning \in Overrides
          /\ ctx'.documents \in BOOLEAN /\ ctx'.retryError \in BOOLEAN
      BY <2>1 DEF Contexts
    <3> QED BY <1>1, <1>3, <1>4, <2>2, <2>3, <3>1 DEF Typed, TypeOK
  <2> QED BY <1>1, <1>4, <2>1, <2>3, <2>4 DEF Typed
<1>10. Paced'
  <2>1. CASE d.go
    <3>1. Len(made) <= iter * req.c.maxSteps + req.c.maxSteps
      BY <1>1, <1>4 DEF Paced
    <3>2. (iter + 1) * req.c.maxSteps = iter * req.c.maxSteps + req.c.maxSteps
      BY <1>6, RoomForAPass
    <3>3. Len(made') <= iter' * req'.c.maxSteps
      BY <1>4, <3>1, <3>2
    <3>4. iter' < MaxIterations(req'.c)
      BY <1>4, <1>7, <2>1
    <3> QED BY <1>7, <2>1, <3>3, <3>4 DEF Paced
  <2>2. CASE ~d.go
    BY <1>4, <2>2 DEF Paced
  <2> QED BY <2>1, <2>2
<1>11. Refusals'
  <2>1. d.go => art.analyst # "denied"
    <3>1. art.analyst = "denied" => IsError /\ art.terminal
      BY <1>1 DEF Refusals, IsError
    <3> QED BY <1>3, <3>1
  <2> QED BY <1>1, <1>3, <1>4, <1>7, <2>1 DEF Refusals
<1>12. pc' # "step" /\ pc' # "reason"
  BY <1>3, <1>4, <1>7
<1>13. PlanSound' /\ ClarifyAsks' /\ RetryElsewhere'
  BY <1>12 DEF PlanSound, ClarifyAsks, RetryElsewhere
<1>14. RetryPending'
  <2>1. SUFFICES ASSUME d.why = "retry"
                 PROVE  LET o == ctx'.reasoning IN
                        /\ o.retry /\ o.previous \in Routes \ {"Clarify"}
                        /\ o.force = PickFallbackRoute(o.previous)
    BY <1>4 DEF RetryPending, PickFallbackRoute
  <2>2. d.go
    BY <1>3, <2>1
  <2>3. plan.route # "Clarify" /\ plan.route \in Routes
    BY <1>1, <1>3, <1>4, <2>2 DEF ClarifyAsks, Typed, AnyPlan
  <2>4. /\ d.update.force = PickFallbackRoute(plan.route)
        /\ d.update.previous = plan.route /\ d.update.retry = TRUE
    BY <1>3, <2>1 DEF NoOverrides
  <2>5. d.update.force # None
    BY <2>4, NoneAssumption DEF PickFallbackRoute, Routes
  <2>6. ctx.reasoning \in Overrides /\ d.update \in Overrides
    BY <1>1, <1>3, <2>2 DEF Typed, Contexts
  <2>7. /\ ctx'.reasoning.force = d.update.force
        /\ ctx'.reasoning.previous = d.update.previous
        /\ ctx'.reasoning.retry
    BY <1>8, <2>2, <2>4, <2>5, <2>6, Merged
  <2> QED BY <2>3, <2>4, <2>7
<1>15. UNCHANGED Turn!turnVars
  BY <1>4 DEF Turn!turnVars
<1> QED BY <1>9, <1>10, <1>11, <1>13, <1>14, <1>15 DEF SupInv

\* The turn is over, in the preflight, by an exception, or with its answer.
LEMMA TurnEnds ==
    ASSUME SupInv, NEW o \in {"answer", "question", "denied", "raised"}, Done(o), pc # "done",
           UNCHANGED <<req, ctx, iter, plan, at, tries, art, combined, decision, made>>,
           art.analyst = "denied" => o = "answer"
    PROVE  SupInv' /\ Turn!End
<1>1. Typed /\ Paced /\ Refusals
  BY DEF SupInv
<1>2. pc' = "done" /\ outcome' = o /\ o # None
  BY NoneAssumption DEF Done
<1>3. Typed'
  BY <1>1, <1>2 DEF Typed, TypeOK
<1>4. Paced' /\ PlanSound' /\ ClarifyAsks' /\ RetryPending' /\ RetryElsewhere'
  BY <1>2 DEF Paced, PlanSound, ClarifyAsks, RetryPending, RetryElsewhere
<1>5. Refusals'
  BY <1>1, <1>2 DEF Refusals
<1>6. Turn!End
  <2>1. outcome = None
    BY <1>1 DEF Typed
  <2> QED BY <1>2, <2>1 DEF Turn!End, Turn!Outcomes
<1> QED BY <1>3, <1>4, <1>5, <1>6 DEF SupInv

LEMMA PreflightStep ==
    ASSUME SupInv, NEW hint \in Routes \cup {None}, NEW sure \in BOOLEAN,
           NEW clarify \in {"no", "ask", "assume"}, Preflight(hint, sure, clarify)
    PROVE  SupInv' /\ (Turn!End \/ UNCHANGED Turn!turnVars)
<1>1. /\ Typed /\ Paced /\ Refusals
  BY DEF SupInv
<1>2. /\ pc = "preflight" /\ art.analyst # "denied"
      /\ UNCHANGED <<req, iter, plan, at, tries, art, combined, decision, made>>
  BY <1>1 DEF Preflight, Refusals
<1>3. CASE Done("denied") /\ UNCHANGED ctx
  BY <1>2, <1>3, TurnEnds
<1>4. CASE Done("question") /\ UNCHANGED ctx
  BY <1>2, <1>4, TurnEnds
<1>5. CASE /\ ctx' = [ctx EXCEPT !.routing = PreflightRouting(hint, sure, clarify)]
           /\ pc' = "plan" /\ UNCHANGED outcome
  <2> DEFINE r == PreflightRouting(hint, sure, clarify)
             f == IF sure /\ hint # "Clarify" THEN hint ELSE None
             a == IF clarify = "assume" THEN {"Clarify"} ELSE {}
  <2>1. f \in Routes \cup {None} /\ a \in SUBSET Routes
    BY DEF Routes
  <2>2. r = [NoOverrides EXCEPT !.force = f, !.avoid = a]
    BY DEF PreflightRouting
  <2> HIDE DEF f, a
  <2>3. r \in Overrides
    <3>1. NoOverrides \in Overrides
      BY DEF NoOverrides, Overrides
    <3> QED BY <2>1, <2>2, <3>1 DEF Overrides
  <2> HIDE DEF r
  <2>4. ctx' \in Contexts
    BY <1>1, <1>5, <2>3 DEF Typed, Contexts, r
  <2>5. Typed'
    <3>1. /\ ctx'.routing \in Overrides /\ ctx'.reasoning \in Overrides
          /\ ctx'.documents \in BOOLEAN /\ ctx'.retryError \in BOOLEAN
      BY <2>4 DEF Contexts
    <3>2. TypeOK'
      BY <1>1, <1>2, <1>5, <3>1 DEF Typed, TypeOK
    <3> QED BY <1>1, <1>2, <1>5, <2>4, <3>2 DEF Typed
  <2>6. Paced'
    BY <1>1, <1>2, <1>5 DEF Paced
  <2>7. Refusals' /\ PlanSound' /\ ClarifyAsks' /\ RetryElsewhere'
    BY <1>2, <1>5 DEF Refusals, PlanSound, ClarifyAsks, RetryElsewhere
  <2>8. RetryPending'
    BY <1>2, <1>5 DEF SupInv, RetryPending
  <2>9. UNCHANGED Turn!turnVars
    BY <1>2, <1>5 DEF Turn!turnVars
  <2> QED BY <2>5, <2>6, <2>7, <2>8, <2>9 DEF SupInv
<1>6. \/ Done("denied") /\ UNCHANGED ctx
      \/ Done("question") /\ UNCHANGED ctx
      \/ /\ ctx' = [ctx EXCEPT !.routing = PreflightRouting(hint, sure, clarify)]
         /\ pc' = "plan" /\ UNCHANGED outcome
  BY DEF Preflight
<1> QED BY <1>3, <1>4, <1>5, <1>6

-----------------------------------------------------------------------------
(* The theorems                                                            *)

LEMMA SupInit == Init => SupInv /\ Turn!TurnInit
<1> SUFFICES ASSUME Init
             PROVE  SupInv /\ Turn!TurnInit
  OBVIOUS
<1>1. /\ req \in [s : Questions, c : Constraints, scopeDenied : BOOLEAN]
      /\ pc = "preflight" /\ ctx = EmptyContext /\ iter = 0 /\ plan = NoPlan /\ at = 0
      /\ tries = 0 /\ art = NoArtifacts /\ combined = <<>> /\ decision = "none"
      /\ made = <<>> /\ outcome = None
  BY DEF Init
<1>2. NoOverrides \in Overrides
  BY DEF NoOverrides, Overrides
<1>3. /\ req.c \in Constraints /\ req.c \in Limits /\ req.s \in Questions
      /\ req.scopeDenied \in BOOLEAN
  BY <1>1, ConstraintsInLimits
<1>4. MaxIterations(req.c) \in Nat \ {0}
  BY <1>3, IterationsPositive
<1>5. req.c.maxSteps \in 1..10
  BY <1>3 DEF Limits
<1>6. Typed
  <2>1. ctx \in Contexts /\ ctx.routing \in Overrides /\ ctx.reasoning \in Overrides
        /\ ctx.documents \in BOOLEAN /\ ctx.retryError \in BOOLEAN
    BY <1>1, <1>2 DEF EmptyContext, Contexts
  <2>2. plan \in AnyPlan /\ plan.steps = <<>> /\ plan.route \in Routes
    BY <1>1 DEF NoPlan, AnyPlan, Routes
  <2>3. art \in Artifacts
    BY <1>1 DEF NoArtifacts, Artifacts
  <2>4. tries \in 0..MaxRetries /\ iter \in 0..MaxIterations(req.c)
    BY <1>1, <1>4, IterationsAssumption
  <2>5. at \in 0..Len(plan.steps) + 1
    BY <1>1, <2>2
  <2>6. TypeOK
    BY <1>1, <1>3, <2>1, <2>2, <2>4, <2>5 DEF TypeOK, NoArtifacts, DecisionKinds
  <2> QED BY <1>1, <2>1, <2>2, <2>3, <2>6 DEF Typed
<1>7. Paced
  <2>1. Len(made) = 0 /\ iter * req.c.maxSteps = 0 /\ iter < MaxIterations(req.c)
    BY <1>1, <1>4, <1>5
  <2> QED BY <1>1, <2>1 DEF Paced
<1>8. Refusals /\ PlanSound /\ ClarifyAsks /\ RetryPending /\ RetryElsewhere
  BY <1>1 DEF Refusals, PlanSound, ClarifyAsks, RetryPending, RetryElsewhere, NoArtifacts
<1>9. Turn!TurnInit
  BY <1>1 DEF Turn!TurnInit, NoArtifacts
<1> QED BY <1>6, <1>7, <1>8, <1>9 DEF SupInv

\* Every step keeps the invariant and is a call or the end of the turn that
\* AgentTurn promises, or goes unseen.
LEMMA SupStep == SupInv /\ [Next]_vars => SupInv' /\ [Turn!TurnNext]_Turn!turnVars
<1> SUFFICES ASSUME SupInv, [Next]_vars
             PROVE  SupInv' /\ (Turn!Call \/ Turn!End \/ UNCHANGED Turn!turnVars)
  BY DEF Turn!TurnNext
<1>1. CASE UNCHANGED vars
  <2>1. Typed' /\ Paced' /\ Refusals'
    BY <1>1 DEF SupInv, vars, Typed, TypeOK, Paced, Refusals
  <2>2. PlanSound' /\ ClarifyAsks' /\ RetryPending' /\ RetryElsewhere'
    BY <1>1 DEF SupInv, vars, PlanSound, Redirected, ClarifyAsks, RetryPending, RetryElsewhere
  <2>3. UNCHANGED Turn!turnVars
    BY <1>1 DEF vars, Turn!turnVars
  <2> QED BY <2>1, <2>2, <2>3 DEF SupInv
<1>2. ASSUME NEW hint \in Routes \cup {None}, NEW sure \in BOOLEAN,
             NEW clarify \in {"no", "ask", "assume"}, Preflight(hint, sure, clarify)
      PROVE  SupInv' /\ (Turn!End \/ UNCHANGED Turn!turnVars)
  BY <1>2, PreflightStep
<1>3. CASE PlanWithRouter
  BY <1>3, RouterStep
<1>4. ASSUME NEW p \in LlmPlans, PlanWithLlm(p)
      PROVE  SupInv' /\ UNCHANGED Turn!turnVars
  BY <1>4, LlmStep
<1>5. CASE RunClarify \/ EndPlan
  BY <1>5, PlanEnds
<1>6. CASE AgentRaises
  <2>1. /\ pc = "step" /\ at <= Len(plan.steps) /\ Done("raised")
        /\ UNCHANGED <<req, ctx, iter, plan, at, tries, art, combined, decision, made>>
    BY <1>6 DEF AgentRaises
  <2>2. art.analyst # "denied"
    <3>1. Typed /\ Refusals /\ at \in Nat /\ Len(plan.steps) \in Nat
      BY DEF SupInv, Typed, TypeOK, AnyPlan
    <3> QED BY <2>1, <3>1 DEF Refusals
  <2> QED BY <2>1, <2>2, TurnEnds
<1>7. ASSUME NEW llm \in LlmAnswers, NEW same \in BOOLEAN, Reason(llm, same)
      PROVE  SupInv' /\ UNCHANGED Turn!turnVars
  BY <1>7, ReasonStep
<1>8. CASE Answer
  <2>1. PICK o \in {"question", "answer"} : o = IF art.asked THEN "question" ELSE "answer"
    OBVIOUS
  <2>2. /\ pc # "done" /\ Done(o)
        /\ UNCHANGED <<req, ctx, iter, plan, at, tries, art, combined, decision, made>>
    BY <1>8, <2>1 DEF Answer
  <2>3. art.analyst = "denied" => o = "answer"
    BY <2>1 DEF SupInv, Refusals
  <2> QED BY <2>2, <2>3, TurnEnds
<1> QED BY <1>1, <1>2, <1>3, <1>4, <1>5, <1>6, <1>7, <1>8, AgentStep DEF Next

\* Every plan that runs is executable and allowed, whoever made it, and a retry
\* because nothing was found takes another route (handle, choose_route,
\* build_steps, _coerce_llm_plan, _build_retry_decision).  The exception is
\* named: a step that draws nothing may read what a tool rewrite of the reasoning
\* model names, a step or none (_apply_tool_rewrites).
THEOREM PlansAreSound == Spec => []PlansSound
<1>1. SupInv => PlansSound
  BY DEF SupInv, PlansSound
<1> QED BY <1>1, SupInit, SupStep, PTL DEF Spec

\* A turn of the supervisor does what AgentTurn promises: no more calls than
\* passes times steps, none after access was refused, and then the answer
\* that says so (handle, evaluate, AnalystAgent.execute).
THEOREM TurnsKeepTheirPromise == Spec => Turn!TurnSafe
<1> QED BY SupInit, SupStep, PTL DEF Spec, Turn!TurnSafe
=============================================================================
