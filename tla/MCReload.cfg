SPECIFICATION Spec
CONSTANTS
    Root = "shell"
    Empty = "empty"
    Absent = "absent"
    Imports <- MCImports
    Holds <- MCHolds
    Files = {"shell", "dep"}
    Contents = {"empty", "a", "imports", "quiet", "none", "bad"}
    ScanBad = {"bad"}
    Broken = {"bad"}
    NoObject = {"none"}
    Quiet = {"quiet"}
    MaxGen = 3
    MaxEdits = 2
    MaxCalls = 1
    Saves = {"write", "replace", "while loading"}
INVARIANTS DestroyedOnce CurrentExists SoftPostReloadAfterDrop
