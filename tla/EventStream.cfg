SPECIFICATION Spec
CONSTANTS
    Words = {"progress", "notify", "done"}
    LastWord = "done"
    MaxEvents = 4
    MaxDrops = 2
    MaxReopens = 1
INVARIANTS
    TypeOK
    ShownToTheEnd
PROPERTIES
    PrefixShown
    EventsArrive
CHECK_DEADLOCK FALSE
