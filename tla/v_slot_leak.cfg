SPECIFICATION Spec
CONSTANTS
    n1 = n1
    n2 = n2
    r1 = r1
    r2 = r2
    r3 = r3
    NoNode = NoNode
    Nodes = {n1}
    Requests = {r1, r2}
    Pollers = {}
    Serves <- EveryNode
    Degraded = {}
    Slots = 1
    HourlyLimit = 0
    Cancels = TRUE
    Bans = FALSE
    Window = 1
    MinRequests = 2
    FailNum = 1
    FailDen = 2
    OpenFor = 1
    Probes = 1
    MaxEvents = 2
INVARIANTS
    SlotsReturned
