SPECIFICATION Spec
CONSTANTS
    n1 = n1
    n2 = n2
    p1 = p1
    p2 = p2
    a = a
    b = b
    c = c
    r1 = r1
    NoNode = NoNode
    Nodes = {n1}
    Procs = {p1}
    Workers = {a, b}
    Requests = {}
    EndpointOf <- OneEndpoint
    TokenNodes = {}
    Home <- OneProcess
    Jobs <- RaceJobs
    SlotsScarce = TRUE
    Faults = TRUE
INVARIANTS
    NoTrafficBeforeProof
PROPERTIES
    ConsentRestoredByProof
    DeletedStaysDeleted
CHECK_DEADLOCK FALSE
