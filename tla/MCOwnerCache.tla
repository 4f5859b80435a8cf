---------------------------- MODULE MCOwnerCache ----------------------------
(* Instance of OwnerCache for TLC: two goroutines, two addresses, and an    *)
(* rdap.org that may change its mind.                                       *)
EXTENDS OwnerCache

CONSTANTS c1, c2, i1, i2, org1, org2, as
=============================================================================
