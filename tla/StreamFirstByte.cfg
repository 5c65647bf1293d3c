SPECIFICATION Spec
CONSTANTS
    Providers = {http, ws}
    WebSocket = {ws}
    None = None
    MaxLines = 2
    MaxFaults = 1
PROPERTIES
    NoSwitchAfterFirstByte
CHECK_DEADLOCK FALSE
