---------------------------- MODULE MCEnrichment ----------------------------
(* Instances of Enrichment for TLC: two workers and two hosts, with one   *)
(* address and one CNAME target, which exists; for EnrichmentClaims one   *)
(* host with two targets, of which one does not exist.                    *)
EXTENDS EnrichmentProgress

CONSTANTS k1, k2, ip, gone, alive
=============================================================================
