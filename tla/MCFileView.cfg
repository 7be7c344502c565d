CONSTANTS
    file = file
    other = other
    x = x
    y = y
    Empty = Empty
    Paths = {file, other}
    NoPath = NoPath
    Texts = {Empty, x, y}
    Absent = Absent
    NoText = NoText
    CareSets <- OneAtATime
    MaxOps = 3
    MaxCalls = 4
    MaxEdits = 1
SPECIFICATION Spec
SYMMETRY Symmetry
INVARIANTS
    ResultsAreOfPath
    OneWriter
    SetIsKept
    
CHECK_DEADLOCK FALSE
