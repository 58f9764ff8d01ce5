SPECIFICATION Spec
CONSTANTS
    Chunks <- AllChunks
    ToolIds = {x, y}
    n = n
    m = m
    ToolNames = {n, m}
    NameOf <- IdsOfN
    NoId = NoId
    MaxEvents = 4
CHECK_DEADLOCK FALSE
INVARIANTS
    EventsWellFormed
    TextComplete
    ToolUseDelivered
