SPECIFICATION FairSpec
CONSTANTS
    Worker = {"w1", "w2"}
    Starter = "w1"
    Poller = "poller"
    Nobody = "nobody"
    MaxCards = 2
    MaxSteps = 2
    MaxMessages = 1
    MaxMishaps = 0
PROPERTIES MessagesHandled EscalationsClose WaitsEnd
CHECK_DEADLOCK FALSE
