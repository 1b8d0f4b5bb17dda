SPECIFICATION Spec
CONSTANTS
    Visitors = {"v1"}
    MaxLaunches = 2
    MaxSessions = 1
    PerHour = 1
    FundedPerVisitor = 1
    MaxRestarts = 1
INVARIANTS
    TypeOK
    SlotsAreHeld
    ReaperSparesSessions
PROPERTIES
    AllEnds
CHECK_DEADLOCK FALSE
