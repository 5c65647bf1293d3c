\* Two creations, two token requests, two threads, two dispatches.
SPECIFICATION MCSpec
SYMMETRY Symmetry
VIEW Own
CONSTANTS
    Parts = {"keys", "tokens", "pool", "choice"}
    Tasks = {t1, t2}
    Keys = {k1}
    Creators = {c1, c2}
    Workers = {}
    Api = api
    Providers = {p1}
    Instances = {}
    NoInstance = NoInstance
    None = None
    BatchSize = 2
    Concurrency = 1
    MaxPolls = 0
    MaxFaults = 1
    Tokens = {t1, t2}
    Actors = {c1, c2}
    NoToken = NoToken
    NoCopy = NoCopy
    TokenLimit = 1
    Grants <- MCGrants
    Fee = 1
    MaxMishaps = 1
    Threads = {c1, c2}
    Nobody = Nobody
    Accounts = {a1, a2}
    NoAccount = NoAccount
    Sessions = {s1, s2}
    NoSession = NoSession
    Pools = {q1, q2, q3}
    NoPool = NoPool
    Stored <- MCStored
    MaxClock = 1
    MaxEdits = 2
    a1 = a1
    a2 = a2
    s1 = s1
    Dispatches = {c1, c2}
    Admins = {o}
    Sources = {x1, x2}
    NoSource = NoSource
    Dialogs = {d1}
    NoDialog = NoDialog
    Canaries = {x2}
    MaxRetries = 2
    MaxDispatches = 2
    MaxChanges = 1
    MaxLapses = 1
INVARIANTS
    DuplicateHasCause LimitKept TokenLedger DisabledStaysOut
    SoleUse PoolIsCurrent ChainIsWhole SessionSticks DecisionsKept
CHECK_DEADLOCK FALSE
