CONSTANTS
    a = a
    b = b
    c = c
    Keys = {a, b, c}
    Data = {1, 2}
    MaxLen = 3
    Values <- MCValues
SPECIFICATION Spec
INVARIANTS
    ViewFollows
    DoneIsNew
    NeverTwice
    OnlyNewCreated
