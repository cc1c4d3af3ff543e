SPECIFICATION AnswersSpec
CONSTANTS
    int1 = int1
    text1 = text1
    int2 = int2
    blank = blank
    key1 = key1
    key2 = key2
    NoQuery = NoQuery
    NoIdentity = NoIdentity
    RawIds <- FourRawIds
    IdentityOf <- IdentityMap
    RowVersions <- TwoVersions
    HasPrimaryKey = TRUE
    MaxBatch = 2
    MaxRows = 3
    Keys = {1, 2}
    Values = {1}
    PlanQueries <- SomePlanQueries
    PlanTables <- SmallTables
    DatasetOrder <- ThreeDatasets
    Relationships <- SomeRelationships
    SemanticQueries <- SomeSemanticQueries
    RowIds = {1, 2}
    NoRow = NoRow
    NoKey = NoKey
    c1 = c1
    k1 = k1
    k2 = k2
    SqlDatasets <- SomeDatasets
    OwnAlias <- SomeAliases
    DatasetConn <- OneConnector
    QueryConns <- JustOne
    VirtualTables <- TablesOverBoth
    DefaultKey <- SecondTable
    ModelIds = {"m1", "m2"}
    ModelForms <- SomeForms
    QueryIds = {"q1", "q2"}
    QueryRequests <- SomeRequests
    MaxCatalogEdits = 1
    InitialRows <- SomeRows
    Plain = Plain
    Jobs = {"j1", "j2"}
    Selections = {"s1", "s2"}
    Templates = {"plain", "schema"}
    BaseName <- NamesBy
    AliasOf <- AliasBy
    Broken = {}
    Requests <- SomeBulk
    Uris = {"u1", "u2"}
    JobDialects = {"sqlite", "postgres"}
    MaxJobs = 3
INVARIANT PlanComputesQuery
INVARIANT SelectSound
INVARIANT CountsOnce
INVARIANT AliasDenotes
INVARIANT JobsTrue
PROPERTY ActsAsMergeRows
CHECK_DEADLOCK FALSE
