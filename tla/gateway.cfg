SPECIFICATION GatewaySpec
CONSTANTS
    Creds = {c1, c2}
    Alternatives = 1
    PoolProxies = {p1, p2}
    Says <- SomeMessages
    MaxMessages = 4
    ToolNames = {"a", "b"}
    ChatTexts <- SomeTexts
    ChatTools = {"n"}
    ChatIds = {"x"}
    MaxChatEvents = 4
    ReplyTexts <- SomeTexts
    ReplyTools = {p1, p2}
    ReplyIds = {"x"}
    MaxReplyEvents = 4
    FrameBytes = 3
    PRELUDE_SIZE = 2
    MaxErrors = 2
    MaxBufferSize = 7
    MaxFrames = 4
    StoreClients = {p1, p2}
    ResponsesTtl = 1
    HistoryDepth = 2
    MaxResponses = 4
    MaxStoreTime = 3
    Messages = {p1, p2}
    MESSAGE_PERMITS = 1
    MaxChunks = 1
    MIN_RECENT_MESSAGES = 2
    BodyLimits = {0, 6, 8, 10, 12}
    Payloads <- SomePayloads
    ThinkingSuffixes = {"", "t"}
    MappedTo <- SomeTargets
    MIN_BUDGET = 2
    SUFFIX_BUDGET = 2
    MaxEdits = 1
    ChatSays <- SomeChats
    ReplyItems <- SomeItems
    ToolLists <- SomeToolLists
    MaxItems = 4
    AnswerTexts <- SomeWholeTexts
    AnswerIds <- SomeIds
    AnswerTools = {p1, p2}
    MaxAnswerEvents = 3
    Prompts <- SomePrompts
    RatioPercent = 85
    MIN_CACHEABLE = 3
    DEFAULT_TTL = 1
    HOUR_TTL = 2
    MaxPrompts = 3
    MaxProfileTime = 3
    Findings <- SomeFindings
    ChunkSize = 2
    MaxSearches = 2
    Dated = {"s1"}
    ToolNamed <- SomeToolNames
    TOOL_NAME_MAX_LEN = 2
    MaxNames = 3
SYMMETRY GatewaySymmetry
CHECK_DEADLOCK FALSE
INVARIANTS
    FailureCountedOnce
    TruncationIsSafe
    NothingUsersSayIsLost
    ChatTextInOrder
    ItemsWellFormed
    DamagedDataSkipped
    HistoryComplete
    AccountedAndReleased
    PreparedAsAsked
    TurnsKept
    AnswerTellsAll
    ReadWhatWasSent
    SearchTold
    NamesComeBack
