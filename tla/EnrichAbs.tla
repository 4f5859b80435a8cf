------------------------------ MODULE EnrichAbs ------------------------------
(***************************************************************************)
(* What scan.Options.EnrichHosts promises its callers, with the pool, the  *)
(* queries and the context left out: every entry of the host list given is *)
(* recorded exactly once, and the report is made when all have been.       *)
(***************************************************************************)
EXTENDS Naturals

CONSTANT Jobs      \* the positions of the host list

VARIABLES records,   \* records[j]: how many records position j has got
          reported   \* whether the report has been made
absVars == <<records, reported>>

Init == /\ records = [j \in Jobs |-> 0]
        /\ reported = FALSE

Record(j) == /\ records[j] = 0
             /\ records' = [records EXCEPT ![j] = 1]
             /\ UNCHANGED reported

Report == /\ ~reported
          /\ \A j \in Jobs : records[j] = 1
          /\ reported' = TRUE
          /\ UNCHANGED records

Next == Report \/ \E j \in Jobs : Record(j)

Spec == Init /\ [][Next]_absVars
==============================================================================
