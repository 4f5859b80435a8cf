---------------------------- MODULE MCDiscovery ----------------------------
(* Instances of Discovery for TLC: the apex and one name under it, for    *)
(* the server a foreign name too, for the command line two name servers;  *)
(* two crt.sh attempts.                                                   *)
EXTENDS DiscoveryProgress

CONSTANTS apex, sub, foreign, ns1, ns2
=============================================================================
