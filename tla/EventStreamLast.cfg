SPECIFICATION Spec
CONSTANTS
    Words = {"progress", "done"}
    LastWord = "done"
    MaxEvents = 2
    MaxDrops = 0
    MaxReopens = 0
INVARIANTS LastWordShown
CHECK_DEADLOCK FALSE
