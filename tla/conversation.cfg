SPECIFICATION AgentsSpec
CONSTANTS
    a1 = a1
    a2 = a2
    q1 = q1
    q2 = q2
    q3 = q3
    None = None
    Stores <- BothStores
    Asks <- TwoAsks
    Questions <- ThreeQuestions
    MaxTurns = 2
    MaxAsks = 3
    MaxCrashes = 1
    d1 = d1
    m1 = m1
    r1 = r1
    p1 = p1
    p2 = p2
    p3 = p3
    p4 = p4
    p5 = p5
    NoRef = NoRef
    Invented = Invented
    Fails = Fails
    Subject = "q"
    Queries = {"q", "s1", "s2", "s3", "a", "b"}
    SubQuestions <- Subs
    Facts <- SomeFacts
    Fit <- AFit
    WebFit <- AWebFit
    Alike <- SameText
    Instant <- AnInstant
    Lite <- ALite
    Refinements <- SomeRefinements
    Contexts <- SomeContexts
    LlmPlans <- SomePlans
    DefaultSteps = 4
    MaxResults = 2
    PerStep = 2
    Diversity = 3
    cx = cx
    cy = cy
    NoConnector = NoConnector
    DatasetRows <- SomeDatasets
    ModelRows <- SomeModels
    Toolkits <- SomeToolkits
    Policies <- SomePolicies
    Inquiries <- SomeInquiries
    AnalystRetries = 1
    g1 = g1
    g2 = g2
    k1 = k1
    k2 = k2
    NoKid = NoKid
    Secret = Secret
    Requests <- TwoRequests
    KeySets <- SomeKeySets
    Tokens <- SomeTokens
    Setups <- SomeSetups
    Churning = {"none"}
    KeyTTL = 2
    MaxTime = 3
    MaxArrivals = 3
    Tables <- SomeTables
    Traits <- SomeTraits
    AnswerQuestions <- SomeAnswerQuestions
    NoCell = NoCell
    NoNumber = NoNumber
    NoTime = NoTime
    Raises = Raises
    NoColumn = NoColumn
    GroundingRows = 5
    TimeRows = 4
    ChartTimes = 3
    ChartRows = 5
    MaxCategories = 3
    MaxSlices = 2
CHECK_DEADLOCK FALSE
INVARIANT ThreadIntact
INVARIANT ReportGrounded
INVARIANT OutcomeSettled
INVARIANT KeysFollowed
INVARIANT AnswerTrue
PROPERTY AsksEnd
