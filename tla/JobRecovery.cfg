SPECIFICATION FairSpec
CONSTANTS
    Tasks = {t1}
    Keys = {}
    Creators = {c1}
    Workers = {w1, w2}
    Api = api
    Providers = {p1}
    Instances = {}
    NoInstance = NoInstance
    None = None
    BatchSize = 2
    Concurrency = 1
    MaxPolls = 0
    MaxFaults = 1
PROPERTIES
    EveryTaskEnds
CHECK_DEADLOCK FALSE
