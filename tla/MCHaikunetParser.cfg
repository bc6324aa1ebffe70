CONSTANTS
    Name = {"a", "b"}
    MaxTokens = 13
    MaxLines = 2
SPECIFICATION FairSpec
CHECK_DEADLOCK FALSE
INVARIANTS
    DecidesRightly
    ReferencesInv
PROPERTIES
    EventuallyDecided
