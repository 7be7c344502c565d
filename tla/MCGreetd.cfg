SPECIFICATION FairSpec
CONSTANTS
    Users = {"alice", "bob"}
    NoUser = "nobody"
    Errors = {"auth_error", "error"}
    Cancels = TRUE
    Drops = TRUE
    MaxCalls = 4
    MaxQuestions = 3
INVARIANTS PatientReadyIsAuthenticated PatientUserIsCurrent NobodyWaits
PROPERTIES TargetReached Quiesces
CHECK_DEADLOCK FALSE
