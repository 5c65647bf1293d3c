SPECIFICATION Spec
CONSTANTS
    Tasks = {t1, t2}
    Keys = {k1}
    Creators = {c1, c2}
    Workers = {}
    Api = api
    Providers = {p1}
    Instances = {}
    NoInstance = NoInstance
    None = None
    BatchSize = 2
    Concurrency = 1
    MaxPolls = 0
    MaxFaults = 1
INVARIANTS
    OneTaskPerKey
CHECK_DEADLOCK FALSE
