SPECIFICATION FairSpec
CONSTANTS
    n1 = n1
    n2 = n2
    r1 = r1
    r2 = r2
    r3 = r3
    NoNode = NoNode
    Nodes = {n1}
    Requests = {r1, r2, r3}
    Pollers = {r3}
    Serves <- EveryNode
    Degraded = {}
    Slots = 2
    HourlyLimit = 1
    Cancels = FALSE
    Bans = TRUE
    Window = 1
    MinRequests = 2
    FailNum = 1
    FailDen = 2
    OpenFor = 2
    Probes = 1
    MaxEvents = 2
INVARIANTS
    SlotsReturned
    BudgetSlack
PROPERTIES
    OpenEnds
