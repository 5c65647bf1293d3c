SPECIFICATION FairSpec
CONSTANTS
    Providers = {http, ws}
    WebSocket = {ws}
    None = None
    MaxLines = 2
    MaxFaults = 1
INVARIANTS
    NoSwitchOnceLocked
    SoleLive
    ChargedForCompleteAnswer
    EntryHasOwner
PROPERTIES
    RequestEnds
    Implements
CHECK_DEADLOCK FALSE
