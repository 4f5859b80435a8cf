----------------------------- MODULE MCPipeline -----------------------------
(* Instance of Pipeline for TLC: one domain with two subdomains, of which   *)
(* one is odd, and one without any; /api/enrich takes one or two hosts.     *)
EXTENDS Pipeline

CONSTANTS d1, d2, apex1, apex2, www, mail, odd

MCHostsOf == [d \in {d1, d2} |-> IF d = d1 THEN {apex1, www, mail, odd} ELSE {apex2}]
MCApex == [d \in {d1, d2} |-> IF d = d1 THEN apex1 ELSE apex2]
=============================================================================
