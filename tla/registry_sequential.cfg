SPECIFICATION Spec
CONSTANTS
    n1 = n1
    n2 = n2
    p1 = p1
    p2 = p2
    a = a
    b = b
    c = c
    r1 = r1
    NoNode = NoNode
    Nodes = {n1, n2}
    Procs = {p1}
    Workers = {a}
    Requests = {}
    EndpointOf <- OneEndpoint
    TokenNodes = {n2}
    Home <- OneProcess
    Jobs <- SequentialJobs
    SlotsScarce = TRUE
    Faults = FALSE
INVARIANTS
    TypeOK
    SettledPoolAgrees
    BannedEndpointClosed
CHECK_DEADLOCK FALSE
