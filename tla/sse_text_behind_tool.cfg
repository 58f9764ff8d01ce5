SPECIFICATION Spec
CONSTANTS
    Chunks <- FewChunks
    ToolIds = {x}
    n = n
    m = m
    ToolNames = {n}
    NameOf <- IdsOfN
    NoId = NoId
    MaxEvents = 4
CHECK_DEADLOCK FALSE
INVARIANTS
    TextBeforeTool
