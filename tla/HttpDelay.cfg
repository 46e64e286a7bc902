SPECIFICATION Spec
CONSTANTS
    c1 = c1
    c2 = c2
    c3 = c3
    None = None
    Calls = {c1}
    BadEndpoint = {}
    Codes = {200, 404, 503}
    RetryOnStatus = {503}
    MaxAttempts = 3
    BaseDelay = 7
    MaxDelay = 12
    Half = 16
CHECK_DEADLOCK FALSE
INVARIANT
    WaitsWithinConfig
