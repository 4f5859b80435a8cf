SPECIFICATION FairSpec
CONSTANTS
    r1 = r1  r2 = r2  r3 = r3  dom = dom  other = other
    Ids = {r1, r2, r3}
    Requests <- MCRequests
    TTL = 1
    MaxTime = 2
    ApiKeySet = TRUE
    CorsOn = FALSE
    LimitOn = TRUE
    AllowBrute = FALSE
INVARIANTS TypeOK ResultIsOfTheRequest WorkIsAuthorised
PROPERTIES ServedIsFresh NoWorkTwice CachePromise WorkIsAnswered
CHECK_DEADLOCK FALSE
