SPECIFICATION FairSpec
CONSTANTS
    Bytes = {"m", "x"}
    Marker <- MCMarker
    NoCommand = "no command"
    Commands = {"good", "missing"}
    Missing = {"missing"}
    Parsers <- MCParsers
    NewParsers = {"none", "collect"}
    MaxBytes = 4
    MaxCalls = 3
INVARIANTS AllHeard QmlKnows
PROPERTY StartsAnew
CHECK_DEADLOCK FALSE
