-------------------------- MODULE EnrichmentClaims --------------------------
(***************************************************************************)
(* What comments of the repository say of enrichment and the code does not *)
(* do.  Each statement is refuted by a run of its own.                     *)
(***************************************************************************)
EXTENDS MCEnrichment

\* internal/model/model.go:24: "Owners maps each A/AAAA IP to who holds it".
\* resolver.go:218-219 renders the CNAME records of an address answer into A
\* and AAAA too, and rdap.IP is asked who holds those names.
OwnersAreOfIPs == \A k \in Workers : stage[k] = "owner" => open[k] \subseteq IPs

\* internal/takeover/takeover.go:3: a host is flagged when "the underlying
\* target does not resolve (NXDOMAIN)".  Exists is false as well when its
\* queries fail, and all do once the context has ended: if that happens after
\* the queries for the host went out, its CNAME is known, and its target is
\* flagged without having been looked up.
AlarmIsReal == \A r \in Reported : r.takeover.dangling => r.takeover.target \in Dangling
==============================================================================
