SPECIFICATION FairSpec
CONSTANTS
    n1 = n1
    n2 = n2
    p1 = p1
    p2 = p2
    a = a
    b = b
    c = c
    r1 = r1
    NoNode = NoNode
    Nodes = {n1}
    Procs = {p1, p2}
    Workers = {a, b, c}
    Requests = {}
    EndpointOf <- OneEndpoint
    TokenNodes = {}
    Home <- TwoProcesses
    Jobs <- LiveJobs
    SlotsScarce = TRUE
    Faults = FALSE
PROPERTIES
    ReplicaConverges
    LapsedConsentEnds
CHECK_DEADLOCK FALSE
