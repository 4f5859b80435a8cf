SPECIFICATION Spec
CONSTANTS
    k1 = k1  k2 = k2  ip = ip  gone = gone  alive = alive
    NHosts = 1
    Workers = {k1}
    IPs = {ip}
    Targets = {gone, alive}
    Service = {gone, alive}
    Dangling = {gone}
    AddrTypes = {"A", "AAAA"}
    EnableOwner = TRUE
    EnableTakeover = TRUE
    QueriesFail = FALSE
    CtxCauses = {"canceled"}
INVARIANTS OwnersAreOfIPs
CHECK_DEADLOCK FALSE
