CONSTANTS
    ThisYear = 2025
    Words <- MCWords
    VWords = {"v1:0"}
    Configs <- MCConfigs
    Requests <- MCRequests
    DEFAULT_MAX_TOKENS = 4
    I32Max = 7
SPECIFICATION MappingSpec
INVARIANTS
    PlainIsRouted
    ContextIsSent
    PinnedModelKept
    ConversationKept
    AnswerAsAsked
CHECK_DEADLOCK FALSE
