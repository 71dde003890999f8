SPECIFICATION FairSpec
CONSTANTS
    k1 = k1
    k2 = k2
    g1 = g1
    g2 = g2
    g3 = g3
    g4 = g4
    reader = reader
    global = global
    m1 = m1
    Keys = {k1, k2}
    Requests = {g1, g2, g3, g4, reader}
    Readers = {reader}
    Streaming = {g1, g2}
    Buckets = {global, k1, k2, m1}
    KeyOf <- KeyOfRequest
    Charged <- ChargedBuckets
    Capacity <- Capacities
    OwnLimit <- OwnLimits
    Budget <- Budgets
    Policies <- TwoPolicies
    MaxLimit = 2
    Cost = 1
INVARIANTS
    TypeOK
    UserSlotsBalance
    QuotaOvershoot
PROPERTIES
    KeyServedAgain
