SPECIFICATION FairSpec
CONSTANTS
    k1 = k1  k2 = k2  ip = ip  gone = gone  alive = alive
    NHosts = 2
    Workers = {k1, k2}
    IPs = {ip}
    Targets = {alive}
    Service = {alive}
    Dangling = {}
    AddrTypes = {"A"}
    EnableOwner = TRUE
    EnableTakeover = TRUE
    QueriesFail = FALSE
    CtxCauses = {"canceled"}
INVARIANTS TypeOK OwnersAccounted FindingFollowsChain
PROPERTIES OneRecordEach Converges EnrichEnds FalseAlarmsAreOfTheEnd
CHECK_DEADLOCK FALSE
