\* Smaller, and without symmetry: it is not sound for liveness.
SPECIFICATION LiveSpec
CONSTANTS
    Parts = {"breaker", "slots"}
    Requests = {c1, c2}
    Operators = {o}
    Threshold = 1
    HalfOpenMax = 1
    SuccessesToClose = 2
    MaxDisturbances = 0
    Calls = {c1, c2}
    Instances = {i}
    NoInstance = NoInstance
    Limits = {0, 1}
    Tries = 2
    MaxSlotFaults = 1
    GwCalls = {c1, c2}
    Profiles <- MCProfiles
    Users = {u1, u2}
    IdemKeys = {key}
    NoKey = NoKey
    Payloads = {p1, p2}
    NoCall = NoCall
    Cost = 1
    Funds = 2
    Quota = 1
    MaxVersion = 2
    MaxGwFaults = 1
    Clients = {c1, c2}
    Checkers = {c1, c2}
    RequestLimit = 2
    CostLimit = 1
    Estimate = 1
    MaxCost = 1
    WarnAt = 1
    ExceededAt = 2
    MaxRequests = 3
    MaxTenantFaults = 1
    u1 = u1
    u2 = u2
    key = key
    p1 = p1
    p2 = p2
PROPERTIES NeverGivenUp FullRecovers
CHECK_DEADLOCK FALSE
