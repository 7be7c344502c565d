SPECIFICATION Spec
CONSTANTS
    n1 = n1
    n2 = n2
    l1 = l1
    l2 = l2
    Objects = {n1, n2}
    Locks = {l1, l2}
    None = None
    Wrap = 8
    MaxLocks = 1
    MaxStray = 1
    MaxAgain = 1
    Handlers = {"nothing", "track", "close"}
SYMMETRY Symmetry
INVARIANTS
    ListsAgree
    ToldOnce
    CountExact
    RetainedOnlyIfHeld
PROPERTY LockedIsRetained
CHECK_DEADLOCK FALSE
