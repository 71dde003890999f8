SPECIFICATION FairSpec
CONSTANTS
    n1 = n1
    n2 = n2
    r1 = r1
    r2 = r2
    r3 = r3
    NoNode = NoNode
    Nodes = {n1, n2}
    Requests = {r1}
    Pollers = {}
    Serves <- EveryNode
    Degraded = {}
    Slots = 1
    HourlyLimit = 0
    Cancels = FALSE
    Bans = FALSE
    Window = 1
    MinRequests = 1
    FailNum = 1
    FailDen = 2
    OpenFor = 2
    Probes = 1
    MaxEvents = 2
PROPERTIES
    HalfOpenEnds
