CONSTANTS
    file = file
    other = other
    x = x
    y = y
    Empty = Empty
    Paths = {file}
    NoPath = NoPath
    Texts = {Empty, x, y}
    Absent = Absent
    NoText = NoText
    CareSets <- SettersOnly
    MaxOps = 3
    MaxCalls = 4
    MaxEdits = 0
SPECIFICATION Spec
INVARIANT LastSetIsWritten
CHECK_DEADLOCK FALSE
