SPECIFICATION FairSpec
CONSTANTS
    apex = apex  sub = sub  foreign = foreign  ns1 = ns1  ns2 = ns2
    Names = {apex, sub}
    Apex = apex
    InScope = {apex, sub}
    Nameservers = {ns1, ns2}
    WithKey = {}
    Passive = {}
    EnableAXFR = TRUE
    EnableBrute = TRUE
    EnableWhois = FALSE
    CtxCauses = {"canceled"}
    MaxAttempts = 2
INVARIANTS OkIsComplete
PROPERTIES Converges DiscoverReturns
CHECK_DEADLOCK FALSE
