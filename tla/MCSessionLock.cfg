SPECIFICATION FairSpec
CONSTANTS
    Elements = {"main", "other"}
    Components = {"good", "bad", "null"}
    Outputs = {"left", "right"}
    Evicts = TRUE
    MaxLocks = 2
    MaxSent = 2
INVARIANTS LockedIsCovered ActiveIsHeld PatientSurvives
PROPERTY LockResolves
CHECK_DEADLOCK FALSE
