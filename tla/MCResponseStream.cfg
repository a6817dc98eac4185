SPECIFICATION FairSpec
CONSTANTS
    Answers <- MCAnswers
    Tokens = {"a", "b"}
    MaxPosts = 2
INVARIANTS
    ErrorsCountedOnce
    TextIntact
    TimedIffHeard
PROPERTIES
    RelayHolds
    LogCollectsAll
CHECK_DEADLOCK FALSE
