------------------------------ MODULE MCServer ------------------------------
(* Instance of Server for TLC.  The requests: a scan with the defaults of    *)
(* GET; one by POST that leaves the owners out, which is not the same; one   *)
(* of another domain that comes to the same options, asking in vain for      *)
(* brute force; a discovery; an enrichment; and two that a layer stops.      *)
EXTENDS Server

CONSTANTS r1, r2, r3, dom, other

R(method, path, domain, keyed, given) ==
    [method |-> method, path |-> path, keyed |-> keyed, given |-> given,
     domain |-> domain, valid |-> TRUE]

Defaults == [t \in Toggles |-> "absent"]
All == [t \in Toggles |-> "yes"]

MCRequests == {
    R("GET", "/api/scan", dom, TRUE, Defaults),
    R("POST", "/api/scan", dom, TRUE, [All EXCEPT !["owner"] = "absent"]),
    R("POST", "/api/scan", other, TRUE, All),
    R("GET", "/api/discover", dom, TRUE, Defaults),
    R("POST", "/api/enrich", dom, TRUE, All),
    R("GET", "/api/scan", dom, FALSE, Defaults),
    R("OPTIONS", "/api/scan", dom, FALSE, Defaults)}
=============================================================================
