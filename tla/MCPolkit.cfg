SPECIFICATION Spec
CONSTANTS
    MaxRequests = 2
    Agents = {"first", "new"}
    NoAgent = "none"
    NoPath = ""
    Generation <- MCGeneration
    Path <- MCPath
    MaxSessions = 3
    MaxAnswers = 2
INVARIANTS ActiveIsOpen ServedIsLive AnsweredBeforeFreed
PROPERTY KeepsPromise
CHECK_DEADLOCK FALSE
