SPECIFICATION PagingSpec
CONSTANTS
    MaxRecords = 4
    Initial = 3
    MaxStamp = 3
    MaxChanges = 2
    PageSize = 2
    MaxPages = 2
    TextRank <- MCTextRank
    Kinds <- MCKinds
    Pagings <- MCPagings
INVARIANT NothingMissed
PROPERTY CatchesUp
CHECK_DEADLOCK FALSE
