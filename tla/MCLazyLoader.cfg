SPECIFICATION LoaderSpec
CONSTANTS
    Components = {"c", "broken"}
    Sources = {"s.qml", "missing.qml"}
    Broken = {"broken"}
    Missing = {"missing.qml"}
    None = "none"
    Steps = 2
INVARIANTS WantedIsLoaded NoLostWakeup
PROPERTY LoadEnds
CHECK_DEADLOCK FALSE
