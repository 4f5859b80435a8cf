------------------------------ MODULE MCBrute ------------------------------
(* The instance of Brute for TLC: two workers, more words than workers,   *)
(* every way for a host to exist and one word whose host does not.        *)
EXTENDS BruteProgress

CONSTANTS k1, k2
=============================================================================
