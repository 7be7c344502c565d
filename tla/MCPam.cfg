CONSTANTS
    MaxConvs = 2
    MaxMessages = 2
    MaxResponses = 3
SPECIFICATION PamSpec
INVARIANTS
    PidIsOfChild
    ResponsesMatch
PROPERTIES
    ConversationEnds
CHECK_DEADLOCK FALSE
