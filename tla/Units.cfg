SPECIFICATION MCSpec
CONSTANTS
    Sets = {0, 1}
    Tags = {0, 1}
    Ids = {1, 2, 3}
    IdRange = 2
    Memory <- MemoryOfLines
    Empty = Empty
    Depth = 2
    Ways <- TwoLevels
    ShadowFill = TRUE
    Pages = {0, 1}
    PagesPerTag = 1
    Asids = {0, 1}
    Frames = {0, 1, 10, 11, 20}
    NoFrame = NoFrame
    NoEntry = NoEntry
    r1 = r1
    r2 = r2
    Roots = {r1, r2}
    Bare = Bare
    Table <- TwoTables
    WalkLevels = 3
    Requests <- AllRequests
    None = None
    Ppns <- MCPpns
    RefillLines <- MCRefillLines
    TlbPages <- MCTlbPages
    TlbFrames <- MCTlbFrames
    Lanes = 2
INVARIANTS
    TlbMatchesSatp
    SameWalk
PROPERTIES
    AnswersAreOwn
    AnsweredFillIsMemory
    AccessTranslated
    SecondRunTranslates
    EventuallyTranslated
    WalkEnds
    RequestsAreServed
