SPECIFICATION MCSpec
CONSTANTS
    Analysts = {"market", "social", "news"}
    ToolUsers = {"market", "news"}
    Plans <- MCPlans
    MaxRounds = 3
    RecursionLimit = 25
    None = None
    Days = {1, 2, 3}
    Today = 3
    MaxStale = 1
    CacheLimit = 1
    BrowserFallback = TRUE
    Chains <- MCChains
    VendorReplies <- MCVendorReplies
    Feeds <- MCFeeds
    Posts <- MCPosts
    AsofDays = {2, 3}
    Spans = {1}
    Primary = 1
    Fallbacks = {2}
    MaxWindow = 2
INVARIANTS
    AnalystsInTurn
    DebatesAreWhole
    VerdictIsOfTheChain
    NothingFromTheFuture
    AbstainsForWantOfEvidence
