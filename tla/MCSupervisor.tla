---------------------------- MODULE MCSupervisor ----------------------------
(***************************************************************************)
(* An instance of Supervisor for TLC: questions of each kind the router    *)
(* tells apart, agents configured with all tools, with some and in single  *)
(* step mode, and a language model that proposes good and bad plans.       *)
(***************************************************************************)
EXTENDS Supervisor, TLC

SomeQuestions == {
    {"sql", "entity", "target"},
    {"sql", "chartable", "visual"},
    {"research", "web"},
    {"research", "sql", "web", "chartable"},
    {"ambiguous"},
    {} }

Configured(allow, steps, viz, single) ==
    [allow |-> allow, maxSteps |-> steps, requireViz |-> viz, lowLatency |-> single]

SomeConstraints == {
    Configured({"sql", "web", "research"}, 4, TRUE, FALSE),
    Configured({"sql", "web", "research"}, 1, TRUE, TRUE),
    Configured({"sql", "research"}, 2, TRUE, FALSE),
    Configured({"web", "research"}, 3, TRUE, FALSE),
    Configured({"web"}, 2, TRUE, FALSE) }

SomeLlmPlans == {
    [route |-> "SimpleAnalyst", steps |-> <<Step("Analyst", 0)>>],
    [route |-> "DeepResearch",
     steps |-> <<Step("WebSearch", 0), Step("DocRetrieval", 0), Step("Analyst", 0)>>],
    [route |-> "Clarify", steps |-> <<Step("Clarify", 0)>>],
    [route |-> "AnalystThenVisual", steps |-> <<Step("Visual", 0)>>],
    [route |-> "WebSearch", steps |-> <<>>] }

SomeLlmDecisions == {
    NoOverrides,
    [NoOverrides EXCEPT !.prefer = {"SimpleAnalyst"}, !.avoid = {"WebSearch"}],
    [NoOverrides EXCEPT
        !.force = "DeepResearch", !.require = {"WebSearch"}, !.entity = "llm",
        !.rewrites = <<[agent |-> "DocRetrieval", step |-> 1, source |-> 9],
                       [agent |-> "Analyst", step |-> 2, source |-> 0],
                       [agent |-> "Analyst", step |-> 0, source |-> 2]>>] }
=============================================================================
