SPECIFICATION Spec
CONSTANTS
    Worker = {"w1", "w2"}
    Starter = "w1"
    Poller = "poller"
    Nobody = "nobody"
    MaxCards = 3
    MaxSteps = 2
    MaxMessages = 1
    MaxMishaps = 1
INVARIANTS TypeOK EscalationHasReaper ParkedHasTimer GrantFitsCard RunningIsDriven
PROPERTIES StoppedIsFinal
CHECK_DEADLOCK FALSE
