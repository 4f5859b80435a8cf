SPECIFICATION Spec
CONSTANTS
    r1 = r1  r2 = r2  r3 = r3  dom = dom  other = other
    Ids = {r1}
    Requests <- MCRequests
    TTL = 1
    MaxTime = 1
    ApiKeySet = TRUE
    CorsOn = FALSE
    LimitOn = TRUE
    AllowBrute = FALSE
INVARIANTS DefaultsAreOn
CHECK_DEADLOCK FALSE
