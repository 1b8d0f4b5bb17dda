SPECIFICATION Spec
CONSTANTS
    Worker = {"w1", "w2"}
    Starter = "w1"
    Poller = "poller"
    Nobody = "nobody"
    MaxCards = 3
    MaxSteps = 1
    MaxMessages = 2
    MaxMishaps = 0
INVARIANT YesIsForItsCard
CHECK_DEADLOCK FALSE
