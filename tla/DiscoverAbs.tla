----------------------------- MODULE DiscoverAbs -----------------------------
(***************************************************************************)
(* What scan.Options.Discover promises its callers, with the goroutines,   *)
(* contexts and retries left out: each enabled source contributes hosts    *)
(* until it settles on one verdict, and the single report is made of       *)
(* everything the settled sources contributed, no more and no less.        *)
(***************************************************************************)
CONSTANTS Sources,   \* the discovery sources of this scan
          Hosts,     \* the host names that may be reported
          Verdicts,  \* "ok", "failed", "skipped", "timeout"
          Pending,   \* a source that has not settled
          NoReport   \* Discover has not collected its report

VARIABLES contrib,   \* contrib[s]: the hosts source s has added
          verdict,   \* verdict[s]: the outcome of s, or Pending
          report     \* NoReport, or the collected report
absVars == <<contrib, verdict, report>>

Init == /\ contrib = [s \in Sources |-> {}]
        /\ verdict = [s \in Sources |-> Pending]
        /\ report = NoReport

\* A source that has not settled adds a host.
Contribute(s, h) == /\ verdict[s] = Pending
                    /\ contrib' = [contrib EXCEPT ![s] = @ \cup {h}]
                    /\ UNCHANGED <<verdict, report>>

\* A source settles, once.
Settle(s, v) == /\ verdict[s] = Pending
                /\ verdict' = [verdict EXCEPT ![s] = v]
                /\ UNCHANGED <<contrib, report>>

\* The report attributes to every source its verdict and all it contributed.
Publish == /\ report = NoReport
           /\ \A s \in Sources : verdict[s] # Pending
           /\ report' = [s \in Sources |-> [state |-> verdict[s], hosts |-> contrib[s]]]
           /\ UNCHANGED <<contrib, verdict>>

Next == \/ \E s \in Sources, h \in Hosts : Contribute(s, h)
        \/ \E s \in Sources, v \in Verdicts : Settle(s, v)
        \/ Publish

Spec == Init /\ [][Next]_absVars
==============================================================================
