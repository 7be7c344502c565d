SPECIFICATION FairSpec
CONSTANTS
    Root = "shell"
    Empty = "empty"
    Absent = "absent"
    Imports <- MCImports
    Holds <- MCHolds
    Files = {"shell", "dep"}
    Contents = {"a", "imports", "odd", "bad", "empty"}
    ScanBad = {"odd"}
    Broken = {"bad"}
    NoObject = {}
    Quiet = {}
    MaxGen = 4
    MaxEdits = 2
    MaxCalls = 1
    Saves = {"write"}
PROPERTIES  QuitTerminates
