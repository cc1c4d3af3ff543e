----------------------------- MODULE Supervisor -----------------------------
(***************************************************************************)
(* SupervisorOrchestrator.handle: one turn of an agent.  Preflight         *)
(* classifies the question; then the planner and the reasoning agent take  *)
(* turns: a plan is made, its steps are run one after the other, and the   *)
(* reasoning agent decides whether to plan again and with which routing    *)
(* overrides.  What the language model and the agents answer is a          *)
(* nondeterministic choice; what the program makes of it is not.           *)
(***************************************************************************)
EXTENDS PlanRouter, FiniteSetsExt

CONSTANTS
    Questions,        \* the sets of signals a question may have
    Constraints,      \* the constraints an agent may be configured with
    BaseIterations,   \* execution.max_iterations
    MaxRetries,       \* AnalystAgent.max_retries
    LlmPlans,         \* plans the language model may propose
    LlmDecisions      \* overrides it may ask for when it wants to continue

ASSUME NoneAssumption       == None \notin Routes \cup {"answer", "question", "denied", "raised"}
ASSUME IterationsAssumption == BaseIterations \in Nat \ {0} /\ MaxRetries \in Nat
ASSUME QuestionsAssumption  == Questions \subseteq SUBSET SignalNames
ASSUME DecisionsAssumption  == LlmDecisions \subseteq Overrides
ASSUME PlansAssumption      == LlmPlans \subseteq [route : Routes, steps : Seq([agent : Agents, ref : Nat])]

\* _build_planning_constraints keeps max_steps between 1 and 10.
ASSUME ConstraintsAssumption ==
    Constraints \subseteq [allow : SUBSET {"sql", "web", "research"}, maxSteps : 1..10,
                          requireViz : BOOLEAN, lowLatency : BOOLEAN]

VARIABLES
    req,       \* the request: signals s, constraints c, scopeDenied
    pc,        \* where handle() is
    ctx,       \* extra_context: routing, reasoning, documents, retryError
    iter,      \* iterations completed
    plan,      \* the current plan
    at,        \* the step that is running
    tries,     \* retry_count of the analyst
    art,       \* PlanExecutionArtifacts of the current plan
    combined,  \* tool calls of the plans that have ended
    decision,  \* why the last reasoning pass stopped or continued
    made,      \* calls of agents so far
    outcome    \* None while the turn is under way

vars == <<req, pc, ctx, iter, plan, at, tries, art, combined, decision, made, outcome>>

\* _build_planning_constraints and _build_reasoning_agent
MaxIterations(c) == IF c.lowLatency THEN 1 ELSE Max({BaseIterations, c.maxSteps})

NoArtifacts == [analyst |-> "none", terminal |-> FALSE, web |-> "none",
                research |-> "none", asked |-> FALSE, calls |-> <<>>]

EmptyContext == [routing |-> NoOverrides, reasoning |-> NoOverrides,
                 documents |-> FALSE, retryError |-> FALSE]

NoPlan == [route |-> "Clarify", steps |-> <<>>]

DecisionKinds == {"none", "asked", "last", "repeated", "terminal", "sufficient",
                  "retry", "probe", "promote", "broaden", "llm"}

TypeOK ==
    /\ req.s \in Questions /\ req.c \in Constraints /\ req.scopeDenied \in BOOLEAN
    /\ pc \in {"preflight", "plan", "step", "reason", "answer", "exhausted", "done"}
    /\ ctx.routing \in Overrides /\ ctx.reasoning \in Overrides
    /\ ctx.documents \in BOOLEAN /\ ctx.retryError \in BOOLEAN
    /\ iter \in 0..MaxIterations(req.c)
    /\ plan.route \in Routes
    /\ at \in 0..Len(plan.steps) + 1
    /\ tries \in 0..MaxRetries
    /\ art.analyst \in {"none", "rows", "empty", "error", "denied"}
    /\ art.web \in {"none", "nothing", "results"}
    /\ art.research \in {"none", "nothing", "low", "findings"}
    /\ combined \in Seq(Agents)
    /\ decision \in DecisionKinds
    /\ outcome \in {None, "answer", "question", "denied", "raised"}

Init ==
    /\ req \in [s : Questions, c : Constraints, scopeDenied : BOOLEAN]
    /\ pc = "preflight"
    /\ ctx = EmptyContext
    /\ iter = 0
    /\ plan = NoPlan
    /\ at = 0
    /\ tries = 0
    /\ art = NoArtifacts
    /\ combined = <<>>
    /\ decision = "none"
    /\ made = <<>>
    /\ outcome = None

Done(o) == pc' = "done" /\ outcome' = o

-----------------------------------------------------------------------------
(* Preflight                                                               *)

\* _should_block_analytical_request_due_to_access_scope
BlockedByScope(hint) ==
    /\ req.scopeDenied
    /\ \/ hint \in {"SimpleAnalyst", "AnalystThenVisual"}
       \/ req.s \cap {"sql", "chartable", "entity", "time"} # {}

\* The routing context of _run_preflight: a hint the classifier is sure of,
\* and no clarification once its budget is used up.
PreflightRouting(hint, sure, clarify) ==
    [NoOverrides EXCEPT
        !.force = IF sure /\ hint # "Clarify" THEN hint ELSE None,
        !.avoid = IF clarify = "assume" THEN {"Clarify"} ELSE {}]

\* clarify is the decision of the ClarificationManager (module Conversation).
Preflight(hint, sure, clarify) ==
    /\ pc = "preflight"
    /\ CASE BlockedByScope(hint) -> Done("denied") /\ UNCHANGED ctx
         [] ~BlockedByScope(hint) /\ clarify = "ask" -> Done("question") /\ UNCHANGED ctx
         [] OTHER -> /\ ctx' = [ctx EXCEPT !.routing = PreflightRouting(hint, sure, clarify)]
                     /\ pc' = "plan"
                     /\ UNCHANGED outcome
    /\ UNCHANGED <<req, iter, plan, at, tries, art, combined, decision, made>>

-----------------------------------------------------------------------------
(* Planning                                                                *)

\* The tool rewrites that the reasoning agent asked for are applied last.
StartPlan(p) ==
    /\ pc = "plan"
    /\ plan' = [p EXCEPT !.steps = ApplyToolRewrites(@, ctx.reasoning.rewrites)]
    /\ at' = 1
    /\ art' = NoArtifacts
    /\ pc' = "step"
    /\ UNCHANGED <<req, ctx, iter, tries, combined, decision, made, outcome>>

\* The language model is not asked, fails, or proposes what is refused.
PlanWithRouter == \E p \in {RoutePlan(req.s, req.c, ctx)} : StartPlan(p)

PlanWithLlm(p) ==
    /\ ~BypassesLlm(ctx)
    /\ AcceptsLlmPlan(p, req.c)
    /\ StartPlan([p EXCEPT !.steps = RewriteStepReferences(@)])

-----------------------------------------------------------------------------
(* The steps of a plan                                                     *)

Current(agent) == pc = "step" /\ at <= Len(plan.steps) /\ plan.steps[at].agent = agent

\* The step's artifacts are stored and the next one is up, or the plan is left.
EndStep(agent, newArt, leave) ==
    /\ art' = [newArt EXCEPT !.calls = Append(@, agent)]
    /\ made' = Append(made, agent)
    /\ at' = IF leave THEN Len(plan.steps) + 1 ELSE at + 1
    /\ tries' = 0
    /\ UNCHANGED <<req, pc, ctx, iter, plan, combined, decision, outcome>>

\* _finalize_response of what the SQL tool returned.
FinalizeOutcome(res) ==
    CASE res = "rows"  -> [analyst |-> "rows", terminal |-> TRUE]
      [] res = "empty" -> [analyst |-> "empty", terminal |-> tries >= MaxRetries]
      [] OTHER         -> [analyst |-> "error",
                           terminal |-> res = "fatal" \/ tries >= MaxRetries]

WithAnalyst(o) ==
    [art EXCEPT !.analyst = o.analyst, !.terminal = o.terminal]

\* The analyst refuses before it runs a tool: access denied, which ends the
\* plan, or an invalid request or selection error, which does not.
AnalystRefuses(o) ==
    /\ Current("Analyst")
    /\ tries = 0
    /\ o \in {"denied", "error"}
    /\ EndStep("Analyst", WithAnalyst([analyst |-> o, terminal |-> TRUE]), o = "denied")

\* _should_retry; whether an empty result is worth it depends on the wording.
ShouldRetry(res, hinted) ==
    tries < MaxRetries /\ (res = "recoverable" \/ (res = "empty" /\ hinted))

AnalystTries(res, hinted) ==
    /\ Current("Analyst")
    /\ IF ShouldRetry(res, hinted)
       THEN /\ tries' = tries + 1
            /\ UNCHANGED <<req, pc, ctx, iter, plan, at, art, combined, decision, made, outcome>>
       ELSE EndStep("Analyst", WithAnalyst(FinalizeOutcome(res)), FALSE)

RunVisual == Current("Visual") /\ EndStep("Visual", art, FALSE)

RunWebSearch(res) ==
    Current("WebSearch") /\ EndStep("WebSearch", [art EXCEPT !.web = res], FALSE)

RunDocRetrieval(res) ==
    Current("DocRetrieval") /\ EndStep("DocRetrieval", [art EXCEPT !.research = res], FALSE)

\* A clarification step ends the plan; it is no tool call.
RunClarify ==
    /\ Current("Clarify")
    /\ art' = [art EXCEPT !.asked = TRUE]
    /\ at' = Len(plan.steps) + 1
    /\ UNCHANGED <<req, pc, ctx, iter, plan, tries, combined, decision, made, outcome>>

\* An agent raises: handle() raises and the artifacts are lost.
AgentRaises ==
    /\ pc = "step"
    /\ at <= Len(plan.steps)
    /\ plan.steps[at].agent # "Clarify"
    /\ Done("raised")
    /\ UNCHANGED <<req, ctx, iter, plan, at, tries, art, combined, decision, made>>

\* _merge_artifacts, of which the answer uses the calls.
MergeArtifacts(base, updates) == base \o updates

EndPlan ==
    /\ pc = "step"
    /\ at > Len(plan.steps)
    /\ combined' = MergeArtifacts(combined, art.calls)
    /\ pc' = "reason"
    /\ UNCHANGED <<req, ctx, iter, plan, at, tries, art, decision, made, outcome>>

-----------------------------------------------------------------------------
(* The reasoning agent                                                     *)

HasResearch == art.research \in {"low", "findings"}
HasWeb      == art.web = "results"
HasRows     == art.analyst \in {"rows", "empty"}
HasData     == HasRows \/ HasWeb \/ HasResearch
IsError     == art.analyst \in {"error", "denied"}
BareError   == IsError /\ ~HasWeb /\ ~HasResearch

Decide(go, why, update, docs) == [go |-> go, why |-> why, update |-> update, docs |-> docs]
Stop(why) == Decide(FALSE, why, NoOverrides, FALSE)

\* Mutant of PickFallbackRoute: the route that failed is taken again.
PickSameRoute(route) == IF route = "Clarify" THEN "WebSearch" ELSE route

\* _pick_fallback_route
PickFallbackRoute(route) == IF route = "WebSearch" THEN "DeepResearch" ELSE "WebSearch"

\* _build_retry_decision
Retry == Decide(TRUE, "retry",
    [NoOverrides EXCEPT !.force = PickFallbackRoute(plan.route), !.previous = plan.route,
                        !.retry = TRUE], FALSE)

\* What evaluate decides when the language model gives no usable decision.
Heuristics ==
    CASE /\ art.analyst = "empty" /\ ~HasWeb /\ ~HasResearch
         /\ plan.route \in {"SimpleAnalyst", "AnalystThenVisual"}
         /\ "target" \in req.s /\ ctx.reasoning.entity # "probe" ->
            Decide(TRUE, "probe",
                   [NoOverrides EXCEPT !.previous = plan.route, !.entity = "probe"], FALSE)
      [] BareError \/ ~HasData -> Retry
      [] HasWeb /\ ~HasResearch /\ "research" \in req.s ->
            Decide(TRUE, "promote",
                   [NoOverrides EXCEPT !.force = "DeepResearch", !.previous = plan.route], TRUE)
      [] art.research = "low" /\ ~HasWeb ->
            Decide(TRUE, "broaden",
                   [NoOverrides EXCEPT !.force = "WebSearch", !.previous = plan.route,
                                       !.retry = TRUE], FALSE)
      [] OTHER -> Stop("sufficient")

\* _apply_llm_safeguards of a decision to stop, and of one to continue.
StopWithSafeguards == IF BareError \/ ~HasData THEN Retry ELSE Stop("sufficient")

ContinueWithSafeguards(o) ==
    Decide(TRUE, "llm",
           [o EXCEPT !.previous = plan.route,
                     !.retry = @ \/ BareError \/ ~HasData \/ art.research = "low"], FALSE)

\* _evaluate_with_llm: no usable answer, stop, or continue with overrides.
LlmAnswers == [says : {"nothing", "stop"}, overrides : {NoOverrides}]
              \cup [says : {"continue"}, overrides : LlmDecisions]

\* Mutant of Evaluate: a terminal outcome of the analyst is not looked at.
EvaluateNoTerminal(llm, same) ==
    IF art.asked THEN Stop("asked")
    ELSE IF iter + 1 >= MaxIterations(req.c) THEN Stop("last") ELSE Heuristics

\* evaluate; llm is the decision of the language model, same whether an error
\* resembles the one that was retried.
Evaluate(llm, same) ==
    IF art.asked THEN Stop("asked")
    ELSE IF iter + 1 >= MaxIterations(req.c) THEN Stop("last")
    ELSE IF IsError /\ ctx.retryError /\ same THEN Stop("repeated")
    ELSE IF IsError /\ art.terminal THEN Stop("terminal")
    ELSE CASE llm.says = "nothing"  -> Heuristics
           [] llm.says = "stop"     -> StopWithSafeguards
           [] llm.says = "continue" -> ContinueWithSafeguards(llm.overrides)

\* _merge_context: the keys of the update win, the others stay as they were.
MergeReasoning(old, new) ==
    [force    |-> IF new.force # None THEN new.force ELSE old.force,
     prefer   |-> IF new.prefer # {} THEN new.prefer ELSE old.prefer,
     avoid    |-> IF new.avoid # {} THEN new.avoid ELSE old.avoid,
     previous |-> new.previous,
     retry    |-> old.retry \/ new.retry,
     require  |-> old.require \cup new.require,
     entity   |-> IF new.entity # "none" THEN new.entity ELSE old.entity,
     rewrites |-> IF new.rewrites # <<>> THEN new.rewrites ELSE old.rewrites]

Reason(llm, same) ==
    LET d == Evaluate(llm, same) IN
    /\ pc = "reason"
    /\ decision' = d.why
    /\ iter' = iter + 1
    /\ IF d.go
       THEN /\ ctx' = [ctx EXCEPT !.reasoning = MergeReasoning(@, d.update),
                                  !.documents = @ \/ d.docs,
                                  !.retryError = @ \/ (BareError /\ d.update.retry)]
            /\ pc' = IF iter + 1 = MaxIterations(req.c) THEN "exhausted" ELSE "plan"
       ELSE UNCHANGED ctx /\ pc' = "answer"
    /\ UNCHANGED <<req, plan, at, tries, art, combined, made, outcome>>

\* The answer is made of the last plan's artifacts; a missing visualization
\* and the summary are best effort.
Answer ==
    /\ pc \in {"answer", "exhausted"}
    /\ Done(IF art.asked THEN "question" ELSE "answer")
    /\ UNCHANGED <<req, ctx, iter, plan, at, tries, art, combined, decision, made>>

-----------------------------------------------------------------------------

Next ==
    \/ \E hint \in Routes \cup {None}, sure \in BOOLEAN, clarify \in {"no", "ask", "assume"} :
          Preflight(hint, sure, clarify)
    \/ PlanWithRouter
    \/ \E p \in LlmPlans : PlanWithLlm(p)
    \/ \E o \in {"denied", "error"} : AnalystRefuses(o)
    \/ \E res \in {"rows", "empty", "recoverable", "fatal"}, hinted \in BOOLEAN :
          AnalystTries(res, hinted)
    \/ RunVisual
    \/ \E res \in {"nothing", "results"} : RunWebSearch(res)
    \/ \E res \in {"nothing", "low", "findings"} : RunDocRetrieval(res)
    \/ RunClarify
    \/ AgentRaises
    \/ EndPlan
    \/ \E llm \in LlmAnswers, same \in BOOLEAN : Reason(llm, same)
    \/ Answer

\* Agents and the language model are assumed to return or raise.
Spec == Init /\ [][Next]_vars /\ WF_vars(Next)

-----------------------------------------------------------------------------
(* Properties                                                              *)

\* A rewrite in force asked for what the step reads.
Redirected(step) ==
    \E r \in ToSet(ctx.reasoning.rewrites) : r.agent = step.agent /\ r.source = step.ref

\* A plan has between one and max_steps steps, calls only agents that the
\* constraints allow (the validation of research results excepted, which the
\* router adds unasked), and every step of the router reads an earlier step of
\* the agent whose output it can use.  The reasoning model can point a step
\* elsewhere, at a step that is not there even, but not one that draws.
PlanSound ==
    pc = "step" =>
      /\ Len(plan.steps) \in 1..req.c.maxSteps
      /\ \A i \in DOMAIN plan.steps :
           LET step == plan.steps[i] IN
           /\ \/ AgentAllowed(step.agent, req.c)
              \/ plan.route = "DeepResearch" /\ step.agent \in {"Analyst", "Visual"}
           /\ BypassesLlm(ctx) /\ step.ref # 0 =>
                 \/ step.ref < i /\ plan.steps[step.ref].agent \in {Reads[step.agent], "Analyst"}
                 \/ step.agent # "Visual" /\ Redirected(step)
           /\ BypassesLlm(ctx) /\ step.agent = "Visual" => step.ref # 0

\* A retry because nothing was found takes another route than the one that
\* found nothing, unless the preflight has fixed the routing, or the rule for
\* charts takes its route whatever is to be avoided: then the analyst is asked,
\* which the language model's plan had left out.
RetryElsewhere ==
    pc = "step" /\ decision = "retry" /\ ctx.routing = NoOverrides
        => \/ plan.route # ctx.reasoning.previous
           \/ plan.route = "AnalystThenVisual" /\ HasAnalyst(plan.steps)

\* Plans are executable and allowed, and a retry takes another one.
PlansSound == PlanSound /\ RetryElsewhere

\* A turn of the supervisor is a turn as AgentTurn promises it.
Turn == INSTANCE AgentTurn WITH
    MaxCalls <- Max({MaxIterations(c) * c.maxSteps : c \in Constraints}),
    status   <- IF outcome = None THEN "working" ELSE outcome,
    calls    <- Len(made),
    refused  <- art.analyst = "denied"

ImplementsTurn == Turn!TurnSpec
=============================================================================
