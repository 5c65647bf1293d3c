SPECIFICATION Spec
CONSTANTS
    Tasks = {t1}
    Keys = {}
    Creators = {c1}
    Workers = {w1}
    Api = api
    Providers = {p1, p2}
    Instances = {i1}
    NoInstance = NoInstance
    None = None
    BatchSize = 2
    Concurrency = 1
    MaxPolls = 2
    MaxFaults = 1
INVARIANTS
    ChargedOnce
CHECK_DEADLOCK FALSE
