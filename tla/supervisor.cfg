SPECIFICATION Spec
CONSTANTS
    None = None
    Questions <- SomeQuestions
    Constraints <- SomeConstraints
    BaseIterations = 3
    MaxRetries = 1
    LlmPlans <- SomeLlmPlans
    LlmDecisions <- SomeLlmDecisions
CHECK_DEADLOCK FALSE
INVARIANT PlansSound
PROPERTY ImplementsTurn
