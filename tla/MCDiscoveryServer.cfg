SPECIFICATION Spec
CONSTANTS
    apex = apex  sub = sub  foreign = foreign  ns1 = ns1  ns2 = ns2
    Names = {apex, sub, foreign}
    Apex = apex
    InScope = {apex, sub}
    Nameservers = {ns1}
    WithKey = {}
    Passive = {"hackertarget", "virustotal"}
    EnableAXFR = FALSE
    EnableBrute = FALSE
    EnableWhois = TRUE
    CtxCauses = {"deadline", "canceled"}
    MaxAttempts = 2
INVARIANTS TypeOK OnlyTheDomain NoPartialSource
PROPERTIES Promise CancelIsNoTimeout
CHECK_DEADLOCK FALSE
