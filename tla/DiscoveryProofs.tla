--------------------------- MODULE DiscoveryProofs ---------------------------
(***************************************************************************)
(* Proofs about Discovery for every set of names and sources, every number *)
(* of crt.sh attempts and every way of the caller's context to end.        *)
(***************************************************************************)
EXTENDS DiscoveryProgress, FiniteSetTheorems, TLAPS

LEMMA SourceNames ==
    /\ "crtsh" \in Budgeted /\ Budgeted \subseteq Sources /\ Passive \subseteq Budgeted
    /\ EnableAXFR => "axfr" \in Sources
    /\ EnableBrute => "brute" \in Sources
    /\ {"seed", "axfr", "brute"} \cap Budgeted = {}
    /\ "crtsh" \notin Passive /\ "seed" \notin Sources
BY DiscoveryAssumption DEF Sources, Budgeted, Keyed, DiscoveryAssumption

\* The switch of the wrapper says "ok" of a nil error only, and "timeout" only
\* of a source whose own context has run out of time.
LEMMA StateOf ==
    ASSUME NEW s \in Sources
    PROVE  /\ State(s) \in Verdicts
           /\ State(s) = "ok" <=> err[s] = "nil"
           /\ State(s) = "timeout" => s \in Budgeted /\ sctx[s] = "deadline"
BY DEF State, Verdicts

\* Every state of Discovery is made of values of the expected kinds; in
\* particular crt.sh is never asked more than MaxAttempts times.
THEOREM TypeCorrect == Spec => []TypeOK
<1>1. Init => TypeOK
  BY DiscoveryAssumption DEF DiscoveryAssumption, Init, TypeOK, Tags
<1>2. ASSUME TypeOK, [Next]_vars PROVE TypeOK'
  <2> USE <1>2, SourceNames DEF TypeOK
  <2>1. ASSUME NEW cause \in CtxCauses, CtxEnds(cause) PROVE TypeOK'
    BY <2>1 DEF CtxEnds, sourceVars, mainVars
  <2>2. ASSUME NEW s \in Budgeted, BudgetExpires(s) PROVE TypeOK'
    BY <2>2 DEF BudgetExpires, sourceVars, mainVars
  <2>3. ASSUME NEW s \in Sources, Skip(s) PROVE TypeOK'
    BY <2>3 DEF Skip, Return, mainVars
  <2>4. ASSUME NEW s \in Sources, Fetched(s) PROVE TypeOK'
    BY <2>4 DEF Fetched, Goto, mainVars
  <2>5. ASSUME NEW s \in Sources, FetchFails(s) PROVE TypeOK'
    BY <2>5 DEF FetchFails, Return, mainVars
  <2>6. ASSUME NEW s \in Sources, Finish(s) PROVE TypeOK'
    BY <2>6 DEF Finish, Return, mainVars
  <2>7. ASSUME NEW s \in Sources, Settle(s) PROVE TypeOK'
    BY <2>7, StateOf DEF Settle, mainVars
  <2>8. ASSUME NEW s \in Sources, NEW h \in Names, Add(s, h) PROVE TypeOK'
    BY <2>8 DEF Add, Tags, mainVars
  <2>9. CASE CrtShTry
    BY <2>9 DEF CrtShTry, Goto, Return, mainVars
  <2>10. CASE CrtShFails
    BY <2>10 DEF CrtShFails, Goto, mainVars
  <2>11. CASE CrtShBackoff
    BY <2>11, DiscoveryAssumption
    DEF CrtShBackoff, MayRetry, Goto, Return, mainVars, DiscoveryAssumption
  <2>12. CASE AxfrLookup
    BY <2>12 DEF AxfrLookup, Goto, mainVars
  <2>13. CASE AxfrTransfer
    BY <2>13 DEF AxfrTransfer, mainVars
  <2>14. CASE BruteReturns
    BY <2>14 DEF BruteReturns, Return, mainVars
  <2>15. ASSUME NEW h \in Names, BruteFinds(h) PROVE TypeOK'
    BY <2>15 DEF BruteFinds, Tags, mainVars
  <2>16. CASE Collect
    BY <2>16 DEF Collect, sourceVars
  <2>17. CASE Whois
    BY <2>17 DEF Whois, sourceVars
  <2>18. CASE UNCHANGED vars
    BY <2>18 DEF vars
  <2> QED
    BY <2>1, <2>2, <2>3, <2>4, <2>5, <2>6, <2>7, <2>8, <2>9, <2>10, <2>11, <2>12,
       <2>13, <2>14, <2>15, <2>16, <2>17, <2>18
    DEF Next, SourceStep, CrtShStep, AxfrStep, BruteStep
<1> QED BY <1>1, <1>2, PTL DEF Spec
------------------------------------------------------------------------------
(***************************************************************************)
(* The inductive invariant.  The properties speak of the report; what is   *)
(* needed is that it is still true of the set it was taken from, for which *)
(* no source may act once Discover has gone on, and what each source's     *)
(* position says about the names it has added.                             *)
(***************************************************************************)

\* A source is done when its status is set, and Discover only goes on when all
\* are; the report is then the set itself.
Joining ==
    /\ \A s \in Sources : pc[s] = "done" <=> verdict[s] # "none"
    /\ main # "waiting" => items = found /\ \A s \in Sources : pc[s] = "done"

\* The state of a source agrees with what its function returned.
Truthful == \A s \in Sources :
    /\ verdict[s] = "ok" => err[s] = "nil"
    /\ verdict[s] \notin {"ok", "none"} => err[s] # "nil"
    /\ s \in Budgeted /\ verdict[s] = "timeout" => sctx[s] = "deadline"

\* The apex is in the set, and nothing but names in scope.
Scoped == "seed" \in found[Apex] /\ \A h \in Names : found[h] # {} => h \in InScope

\* A source whose function returned nil has added all it was given.
Complete == \A s \in Sources \ {"brute"} :
    pc[s] \in {"returned", "done"} /\ err[s] = "nil" => AllAdded(s)

\* A source other than hackertarget and brute has added nothing before it has
\* its upstream's whole answer, and adds nothing when it fails.
Clean == \A s \in Sources \ {"hackertarget", "brute"} :
    pc[s] \in {"try", "fetch", "backoff"} \/ (pc[s] \in {"returned", "done"} /\ err[s] # "nil")
        => \A h \in Names : s \notin found[h]

Inv == TypeOK /\ Joining /\ Truthful /\ Scoped /\ Complete /\ Clean

LEMMA Settled == ASSUME Inv, main # "waiting"
                 PROVE  \A s \in Sources : pc[s] = "done"
BY DEF Inv, Joining

LEMMA InvHolds == Spec => []Inv
<1>1. Init => Inv
  BY SourceNames, DiscoveryAssumption
  DEF DiscoveryAssumption, Init, Inv, TypeOK, Tags, Joining, Truthful, Scoped, Complete, Clean
<1>2. ASSUME Inv, TypeOK', [Next]_vars PROVE Inv'
  <2> USE SourceNames
  <2>0. TypeOK /\ Joining /\ Truthful /\ Scoped /\ Complete /\ Clean
    BY <1>2 DEF Inv
  <2> SUFFICES (Joining /\ Truthful /\ Scoped /\ Complete /\ Clean)'
    BY <1>2 DEF Inv
  <2>1. ASSUME NEW cause \in CtxCauses, CtxEnds(cause)
        PROVE  (Joining /\ Truthful /\ Scoped /\ Complete /\ Clean)'
    BY <2>0, <2>1 DEF CtxEnds, sourceVars, mainVars, TypeOK,
       Joining, Truthful, Scoped, Complete, Clean, AllAdded, Kept
  <2>2. ASSUME NEW s \in Budgeted, BudgetExpires(s)
        PROVE  (Joining /\ Truthful /\ Scoped /\ Complete /\ Clean)'
    BY <2>0, <2>2 DEF BudgetExpires, sourceVars, mainVars, TypeOK,
       Joining, Truthful, Scoped, Complete, Clean, AllAdded, Kept
  <2>3. ASSUME NEW s \in Sources, Skip(s)
        PROVE  (Joining /\ Truthful /\ Scoped /\ Complete /\ Clean)'
    BY <2>0, <2>3 DEF Skip, Return, mainVars, TypeOK,
       Joining, Truthful, Scoped, Complete, Clean, AllAdded, Kept
  <2>4. ASSUME NEW s \in Sources, Fetched(s)
        PROVE  (Joining /\ Truthful /\ Scoped /\ Complete /\ Clean)'
    BY <2>0, <2>4 DEF Fetched, Goto, mainVars, TypeOK,
       Joining, Truthful, Scoped, Complete, Clean, AllAdded, Kept
  <2>5. ASSUME NEW s \in Sources, FetchFails(s)
        PROVE  (Joining /\ Truthful /\ Scoped /\ Complete /\ Clean)'
    BY <2>0, <2>5 DEF FetchFails, CanBreak, Return, mainVars, TypeOK,
       Joining, Truthful, Scoped, Complete, Clean, AllAdded, Kept
  <2>6. ASSUME NEW s \in Sources, Finish(s)
        PROVE  (Joining /\ Truthful /\ Scoped /\ Complete /\ Clean)'
    BY <2>0, <2>6 DEF Finish, Finished, Return, mainVars, TypeOK,
       Joining, Truthful, Scoped, Complete, Clean, AllAdded, Kept
  <2>7. ASSUME NEW s \in Sources, Settle(s)
        PROVE  (Joining /\ Truthful /\ Scoped /\ Complete /\ Clean)'
    <3>1. Joining'
      BY <2>0, <2>7, StateOf DEF Settle, mainVars, TypeOK, Joining, Verdicts
    <3>2. Truthful'
      BY <2>0, <2>7, StateOf DEF Settle, mainVars, TypeOK, Truthful
    <3>3. Scoped' /\ Complete' /\ Clean'
      BY <2>0, <2>7 DEF Settle, mainVars, TypeOK, Scoped, Complete, Clean, AllAdded, Kept
    <3> QED BY <3>1, <3>2, <3>3
  <2>8. ASSUME NEW s \in Sources, NEW h \in Names, Add(s, h)
        PROVE  (Joining /\ Truthful /\ Scoped /\ Complete /\ Clean)'
    BY <2>0, <2>8 DEF Add, mainVars, TypeOK,
       Joining, Truthful, Scoped, Complete, Clean, AllAdded, Kept
  <2>9. CASE CrtShTry
    BY <2>0, <2>9 DEF CrtShTry, Goto, Return, mainVars, TypeOK,
       Joining, Truthful, Scoped, Complete, Clean, AllAdded, Kept
  <2>10. CASE CrtShFails
    BY <2>0, <2>10 DEF CrtShFails, CanBreak, Goto, mainVars, TypeOK,
       Joining, Truthful, Scoped, Complete, Clean, AllAdded, Kept
  <2>11. CASE CrtShBackoff
    BY <2>0, <2>11 DEF CrtShBackoff, Goto, Return, mainVars, TypeOK,
       Joining, Truthful, Scoped, Complete, Clean, AllAdded, Kept
  <2>12. CASE AxfrLookup
    BY <2>0, <2>12 DEF AxfrLookup, Goto, mainVars, TypeOK,
       Joining, Truthful, Scoped, Complete, Clean, AllAdded, Kept
  <2>13. CASE AxfrTransfer
    BY <2>0, <2>13 DEF AxfrTransfer, mainVars, TypeOK,
       Joining, Truthful, Scoped, Complete, Clean, AllAdded, Kept
  <2>14. CASE BruteReturns
    BY <2>0, <2>14 DEF BruteReturns, Return, mainVars, TypeOK,
       Joining, Truthful, Scoped, Complete, Clean, AllAdded, Kept
  <2>15. ASSUME NEW h \in Names, BruteFinds(h)
        PROVE  (Joining /\ Truthful /\ Scoped /\ Complete /\ Clean)'
    BY <2>0, <2>15 DEF BruteFinds, mainVars, TypeOK,
       Joining, Truthful, Scoped, Complete, Clean, AllAdded, Kept
  <2>16. CASE Collect
    BY <2>0, <2>16 DEF Collect, Joined, sourceVars, TypeOK,
       Joining, Truthful, Scoped, Complete, Clean, AllAdded, Kept
  <2>17. CASE Whois
    BY <2>0, <2>17 DEF Whois, sourceVars, TypeOK,
       Joining, Truthful, Scoped, Complete, Clean, AllAdded, Kept
  <2>18. CASE UNCHANGED vars
    BY <2>0, <2>18 DEF vars, TypeOK, Joining, Truthful, Scoped, Complete, Clean, AllAdded, Kept
  <2> QED
    BY <1>2, <2>1, <2>2, <2>3, <2>4, <2>5, <2>6, <2>7, <2>8, <2>9, <2>10, <2>11, <2>12,
       <2>13, <2>14, <2>15, <2>16, <2>17, <2>18
    DEF Next, SourceStep, CrtShStep, AxfrStep, BruteStep
<1> QED BY <1>1, <1>2, TypeCorrect, PTL DEF Spec
------------------------------------------------------------------------------
\* Whatever upstreams answer, the report holds the apex and otherwise only
\* names that normalizeHost has accepted for the domain.
THEOREM ReportsOnlyTheDomain == Spec => []OnlyTheDomain
<1>1. ASSUME Inv PROVE OnlyTheDomain
  BY <1>1, DiscoveryAssumption
  DEF DiscoveryAssumption, Inv, Joining, Scoped, OnlyTheDomain, HostsOf
<1> QED BY <1>1, InvHolds, PTL

\* Axfr has what the servers it has asked handed over, and when it returns it has
\* asked all of them.
Asked == EnableAXFR =>
    /\ \A ns \in Nameservers \ nsLeft : zones[ns] \subseteq answer["axfr"]
    /\ pc["axfr"] \in {"returned", "done"} => nsLeft = {}

LEMMA AskedHolds == Spec => []Asked
<1>1. Init => Asked
  BY SourceNames DEF Init, Asked
<1>2. ASSUME TypeOK, Asked, [Next]_vars PROVE Asked'
  <2> SUFFICES ASSUME EnableAXFR PROVE Asked'
    BY DEF Asked
  <2>0. /\ "axfr" \in Sources /\ "axfr" \notin Budgeted \cup Passive /\ "axfr" # "crtsh"
        /\ answer \in [Sources -> SUBSET Names] /\ zones \in [Nameservers -> SUBSET Names]
        /\ nsLeft \subseteq Nameservers
        /\ pc \in [Sources -> {"try", "fetch", "backoff", "adding", "returned", "done"}]
    BY <1>2, SourceNames DEF TypeOK
  <2>1. ASSUME UNCHANGED <<nsLeft, zones>>, answer'["axfr"] = answer["axfr"],
               pc'["axfr"] = pc["axfr"] \/ pc["axfr"] = "returned" \/ nsLeft = {}
        PROVE  Asked'
    BY <1>2, <2>1 DEF Asked
  <2>2. ASSUME NEW s \in Sources, Skip(s) \/ Fetched(s) \/ FetchFails(s) PROVE Asked'
    <3>1. s # "axfr"
      BY <2>0, <2>2 DEF Skip, Fetched, FetchFails
    <3> QED BY <2>0, <2>1, <2>2, <3>1 DEF Skip, Fetched, FetchFails, Return, Goto
  <2>3. ASSUME NEW s \in Sources, Finish(s) PROVE Asked'
    BY <2>0, <2>1, <2>3 DEF Finish, Finished, Return
  <2>4. ASSUME NEW s \in Sources, Settle(s) PROVE Asked'
    BY <2>0, <2>1, <2>4 DEF Settle
  <2>5. CASE CrtShStep
    BY <2>0, <2>1, <2>5 DEF CrtShStep, CrtShTry, CrtShFails, CrtShBackoff, Return, Goto
  <2>6. CASE AxfrLookup
    <3>1. /\ \A ns \in Nameservers \ nsLeft' : zones'[ns] = {}
          /\ pc'["axfr"] = "adding" /\ answer' = answer
      BY <2>0, <2>6 DEF AxfrLookup, Goto
    <3> QED BY <3>1 DEF Asked
  <2>7. CASE AxfrTransfer
    <3>1. PICK ns \in nsLeft : /\ nsLeft' = nsLeft \ {ns}
                               /\ answer' = [answer EXCEPT !["axfr"] = @ \cup zones[ns]]
      BY <2>7 DEF AxfrTransfer
    <3>2. answer'["axfr"] = answer["axfr"] \cup zones[ns] /\ zones' = zones /\ pc' = pc
          /\ pc["axfr"] = "adding"
      BY <2>0, <2>7, <3>1 DEF AxfrTransfer
    <3> QED BY <1>2, <3>1, <3>2 DEF Asked
  <2>8. CASE BruteStep
    BY <2>0, <2>1, <2>8 DEF BruteStep, BruteReturns, BruteFinds, Return
  <2>9. CASE UNCHANGED <<pc, nsLeft, zones, answer>>
    BY <2>1, <2>9
  <2> QED BY <1>2, <2>2, <2>3, <2>4, <2>5, <2>6, <2>7, <2>8, <2>9
          DEF Next, vars, sourceVars, SourceStep, AxfrStep, CtxEnds, BudgetExpires, Add, Collect, Whois
<1> QED BY <1>1, <1>2, TypeCorrect, PTL DEF Spec

\* A source the report calls "ok" has nothing left to say: all in-scope names
\* its upstreams had are in the report under its tag, and those of axfr are all
\* the name servers that were found (scan.go:113, axfr.go:19).
THEOREM OkMeansComplete == Spec => []OkIsComplete
<1>1. ASSUME Inv, Asked PROVE OkIsComplete
  <2> SUFFICES ASSUME main # "waiting", NEW s \in Sources \ {"brute"}, verdict[s] = "ok",
                      NEW h \in Offered(s) \cap InScope
               PROVE  s \in items[h]
    BY DEF OkIsComplete
  <2>1. pc[s] = "done" /\ items = found /\ AllAdded(s)
    BY <1>1 DEF Inv, Joining, Truthful, Complete
  <2>2. h \in answer[s]
    <3>1. CASE s = "axfr"
      <4>1. EnableAXFR /\ nsLeft = {}
        BY <1>1, <2>1, <3>1, DiscoveryAssumption
        DEF Asked, Sources, Budgeted, Keyed, DiscoveryAssumption
      <4> QED BY <1>1, <3>1, <4>1 DEF Asked, Offered
    <3> QED BY <3>1 DEF Offered
  <2> QED BY <2>1, <2>2 DEF AllAdded, Kept
<1> QED BY <1>1, InvHolds, AskedHolds, PTL

\* A source that did not end "ok" is credited with no host, hackertarget and
\* brute apart.
THEOREM FailureIsClean == Spec => []NoPartialSource
<1>1. ASSUME Inv PROVE NoPartialSource
  <2> SUFFICES ASSUME main # "waiting", NEW s \in Sources \ {"hackertarget", "brute"},
                      verdict[s] # "ok"
               PROVE  Counted(items, s) = 0
    BY DEF NoPartialSource
  <2>1. pc[s] = "done" /\ err[s] # "nil" /\ items = found
    BY <1>1 DEF Inv, Joining, Truthful
  <2>2. {h \in Names : s \in items[h]} = {}
    BY <1>1, <2>1 DEF Inv, Clean
  <2> QED BY <2>2, FS_EmptySet DEF Counted
<1> QED BY <1>1, InvHolds, PTL

\* No source of a cancelled scan is reported as having exceeded its budget.
THEOREM CancelledIsNotBlamed == Spec => CancelIsNoTimeout
<1>1. ASSUME Inv, Inv', [Next]_vars
      PROVE  [\A s \in Budgeted : sctx[s] = "canceled" => verdict'[s] # "timeout"]_vars
  <2> SUFFICES ASSUME Next, NEW s \in Budgeted, sctx[s] = "canceled"
               PROVE  verdict'[s] # "timeout"
    BY <1>1 DEF Inv, Truthful, vars
  <2>1. sctx'[s] = "canceled"
    <3>1. ASSUME NEW cause \in CtxCauses, CtxEnds(cause) PROVE sctx'[s] = "canceled"
      BY <3>1 DEF CtxEnds
    <3>2. ASSUME NEW t \in Budgeted, BudgetExpires(t) PROVE sctx'[s] = "canceled"
      BY <1>1, <3>2 DEF BudgetExpires, Inv, TypeOK
    <3>3. CASE UNCHANGED sctx
      BY <3>3
    <3> QED BY <3>1, <3>2, <3>3 DEF Next, SourceStep, CrtShStep, AxfrStep, BruteStep,
          Skip, Fetched, FetchFails, Finish, Settle, Add, CrtShTry, CrtShFails, CrtShBackoff,
          AxfrLookup, AxfrTransfer, BruteReturns, BruteFinds, Collect, Whois
  <2>2. Truthful'
    BY <1>1 DEF Inv
  <2> QED BY <2>1, <2>2, SourceNames DEF Truthful
<1> QED BY <1>1, InvHolds, PTL DEF Spec, CancelIsNoTimeout

\* Discover keeps the promise of DiscoverAbs: one verdict per source, no host
\* after it, and a report that is exactly what was contributed.
THEOREM PromiseKept == Spec => Promise
<1> DEFINE Of(set, s) == {h \in Names : s \in set[h]}
           contrib == [s \in Sources |-> Of(found, s)]
           report == IF main = "waiting" THEN <<>>
                     ELSE [s \in Sources |-> [state |-> verdict[s], hosts |-> Of(items, s)]]
<1>1. Init => Abs!Init
  BY SourceNames DEF Init, Abs!Init
<1>2. ASSUME Inv, Inv', [Next]_vars PROVE [Abs!Next]_(Abs!absVars)
  <2> USE SourceNames DEF Inv
  <2>1. ASSUME NEW s \in Sources, NEW h \in Names, verdict[s] = "none",
               found' = [found EXCEPT ![h] = @ \cup {s}], UNCHANGED <<verdict, mainVars>>
        PROVE  Abs!Contribute(s, h)
    <3>1. main = "waiting"
      BY <1>2, <2>1 DEF Joining
    <3>2. contrib' = [contrib EXCEPT ![s] = @ \cup {h}]
      <4>1. ASSUME NEW t \in Sources
            PROVE  Of(found', t) = IF t = s THEN Of(found, t) \cup {h} ELSE Of(found, t)
        BY <1>2, <2>1 DEF TypeOK
      <4> HIDE DEF Of
      <4>2. contrib' = [t \in Sources |-> Of(found', t)]
        BY DEF Of
      <4> QED BY <4>1, <4>2
    <3> QED BY <2>1, <3>1, <3>2 DEF Abs!Contribute, mainVars
  <2>2. ASSUME NEW s \in Sources, Settle(s)
        PROVE  \E v \in Verdicts : Abs!Settle(s, v)
    <3>1. verdict[s] = "none" /\ main = "waiting"
      BY <1>2, <2>2 DEF Joining, Settle
    <3>2. Abs!Settle(s, State(s))
      BY <2>2, <3>1 DEF Abs!Settle, Settle, mainVars
    <3> QED BY <3>2, StateOf
  <2>3. CASE Collect
    <3>1. \A s \in Sources : verdict[s] # "none"
      BY <1>2, <2>3 DEF Collect, Joined, Joining
    <3>2. report' = [s \in Sources |-> [state |-> verdict[s], hosts |-> contrib[s]]]
      BY <2>3 DEF Collect, sourceVars
    <3>3. UNCHANGED <<contrib, verdict>>
      BY <2>3 DEF Collect, sourceVars
    <3>4. report = <<>>
      BY <2>3 DEF Collect
    <3> QED BY <3>1, <3>2, <3>3, <3>4 DEF Abs!Next, Abs!Publish
  <2>4. CASE Whois
    BY <2>4 DEF Whois, sourceVars, Abs!absVars
  <2>5. CASE UNCHANGED <<found, verdict, mainVars>>
    BY <2>5 DEF mainVars, Abs!absVars
  <2>6. ASSUME NEW s \in Sources, NEW h \in Names, Add(s, h) PROVE Abs!Next
    BY <1>2, <2>1, <2>6 DEF Add, Joining, Abs!Next
  <2>7. ASSUME NEW h \in Names, BruteFinds(h) PROVE Abs!Next
    BY <1>2, <2>1, <2>7 DEF BruteFinds, Joining, Abs!Next
  <2>8. CASE UNCHANGED vars
    BY <2>5, <2>8 DEF vars, mainVars
  <2>9. CASE \/ \E cause \in CtxCauses : CtxEnds(cause)
             \/ \E s \in Budgeted : BudgetExpires(s)
             \/ \E s \in Sources : Skip(s) \/ Fetched(s) \/ FetchFails(s) \/ Finish(s)
             \/ CrtShStep \/ AxfrStep \/ BruteReturns
    BY <2>5, <2>9 DEF CrtShStep, AxfrStep, CtxEnds, BudgetExpires, Skip, Fetched, FetchFails,
       Finish, CrtShTry, CrtShFails, CrtShBackoff, AxfrLookup, AxfrTransfer, BruteReturns,
       sourceVars, mainVars
  <2>10. ASSUME NEW s \in Sources, Settle(s) PROVE Abs!Next
    BY <2>2, <2>10 DEF Abs!Next
  <2> QED
    BY <1>2, <2>3, <2>4, <2>6, <2>7, <2>8, <2>9, <2>10 DEF Next, SourceStep, BruteStep
<1> QED BY <1>1, <1>2, InvHolds, PTL DEF Spec, Promise, Abs!Spec
------------------------------------------------------------------------------
(* Progress *)

\* Only crt.sh is tried again.
Placed == \A s \in Sources : pc[s] \in {"try", "backoff"} => s = "crtsh"

LEMMA PlacedHolds == Spec => []Placed
<1>1. Init => Placed
  BY DEF Init, Placed
<1>2. ASSUME TypeOK, Placed, [Next]_vars PROVE Placed'
  <2>1. \/ UNCHANGED pc
        \/ \E s \in Sources, place \in {"fetch", "adding", "returned", "done"} :
             pc' = [pc EXCEPT ![s] = place]
        \/ \E place \in {"try", "backoff"} : pc' = [pc EXCEPT !["crtsh"] = place]
    BY <1>2, SourceNames DEF Next, vars, sourceVars, SourceStep, CrtShStep, AxfrStep, BruteStep,
       CtxEnds, BudgetExpires, Skip, Fetched, FetchFails, Finish, Settle, Add, CrtShTry, CrtShFails,
       CrtShBackoff, AxfrLookup, AxfrTransfer, BruteReturns, BruteFinds, Collect, Whois, Return, Goto
  <2> QED BY <1>2, <2>1 DEF Placed, TypeOK
<1> QED BY <1>1, <1>2, TypeCorrect, PTL DEF Spec

LEMMA FromOf ==
    /\ From("try") = {"try", "fetch", "adding", "backoff"}
    /\ From("fetch") = {"fetch", "adding", "backoff"}
    /\ From("adding") = {"adding", "backoff"} /\ From("backoff") = {"backoff"}
    /\ From("returned") = {} /\ From("done") = {}
BY DEF From

\* What is ahead gets less.
NoMore == /\ CtxAhead' \subseteq CtxAhead /\ MainAhead' \subseteq MainAhead
          /\ Budgets' \subseteq Budgets /\ Attempts' \subseteq Attempts /\ Work' \subseteq Work
          /\ Servers' \subseteq Servers /\ Adds' \subseteq Adds /\ Unsettled' \subseteq Unsettled
Less == NoMore /\ ~UNCHANGED <<CtxAhead, MainAhead, Budgets, Attempts, Work, Servers, Adds, Unsettled>>

\* A source other than crt.sh leaves "fetch" or "adding" for a later place.
LEMMA SourceGoesOn ==
    ASSUME TypeOK, NEW s \in Others, NEW place \in {"adding", "returned"},
           pc[s] \in {"fetch", "adding"}, pc[s] # place,
           pc' = [pc EXCEPT ![s] = place], Servers' \subseteq Servers,
           UNCHANGED <<ctx, sctx, attempt, found, mainVars>>
    PROVE  Less
<1>0. /\ s \in Sources /\ s # "crtsh" /\ pc \in [Sources -> {"try", "fetch", "backoff", "adding", "returned", "done"}]
      /\ pc'[s] = place /\ \A t \in Sources \ {s} : pc'[t] = pc[t]
  BY DEF TypeOK, Others
<1>1. /\ CtxAhead' = CtxAhead /\ MainAhead' = MainAhead /\ Budgets' = Budgets /\ Adds' = Adds
      /\ Unsettled' = Unsettled
  BY <1>0 DEF CtxAhead, MainAhead, Budgets, Adds, Unsettled, mainVars
<1>2. Attempts' = Attempts
  BY <1>0, SourceNames DEF Attempts
<1>3. /\ From(place) \subseteq From(pc[s])
      /\ pc[s] \in From(pc[s]) \ From(place)
  BY FromOf
<1>4. Work' \subseteq Work
  BY <1>0, <1>3 DEF Work, Others
<1>5. <<s, pc[s]>> \in Work \ Work'
  BY <1>0, <1>3 DEF Work
<1> QED BY <1>1, <1>2, <1>4, <1>5 DEF Less, NoMore

\* So does crt.sh, or it takes its next attempt.
LEMMA CrtShGoesOn ==
    ASSUME TypeOK, NEW place \in {"try", "fetch", "adding", "backoff", "returned"},
           pc["crtsh"] \in {"try", "fetch", "adding", "backoff"},
           \/ attempt' = attempt /\ From(place) \subseteq From(pc["crtsh"]) \ {pc["crtsh"]}
           \/ attempt' = attempt + 1 /\ pc["crtsh"] = "backoff",
           pc' = [pc EXCEPT !["crtsh"] = place],
           UNCHANGED <<ctx, sctx, nsLeft, found, mainVars>>
    PROVE  Less
<1>0. /\ pc'["crtsh"] = place /\ \A t \in Sources \ {"crtsh"} : pc'[t] = pc[t]
      /\ attempt \in 1..MaxAttempts /\ MaxAttempts \in Nat /\ "crtsh" \in Sources
      /\ pc["crtsh"] # "done"
  BY SourceNames, DiscoveryAssumption DEF TypeOK, DiscoveryAssumption
<1>1. /\ CtxAhead' = CtxAhead /\ MainAhead' = MainAhead /\ Budgets' = Budgets /\ Adds' = Adds
  BY DEF CtxAhead, MainAhead, Budgets, Adds, mainVars
<1>2. Unsettled' = Unsettled /\ Work' = Work
  BY <1>0 DEF Unsettled, Work, Others
<1>3. Servers' = Servers
  BY <1>0, SourceNames DEF Servers
<1>4. From(pc["crtsh"]) # {} /\ pc["crtsh"] \in From(pc["crtsh"]) /\ pc["crtsh"] \in From("try")
  BY FromOf
<1>5. Attempts' \subseteq Attempts
  <2>1. CASE attempt' = attempt /\ From(place) \subseteq From(pc["crtsh"]) \ {pc["crtsh"]}
    BY <1>0, <1>4, <2>1 DEF Attempts
  <2>2. CASE attempt' = attempt + 1
    BY <1>0, <1>4, <2>2 DEF Attempts
  <2> QED BY <2>1, <2>2
<1>6. <<attempt, pc["crtsh"]>> \in Attempts
  BY <1>0, <1>4 DEF Attempts
<1>7. <<attempt, pc["crtsh"]>> \notin Attempts'
  <2>1. CASE attempt' = attempt /\ From(place) \subseteq From(pc["crtsh"]) \ {pc["crtsh"]}
    BY <1>0, <2>1 DEF Attempts
  <2>2. CASE attempt' = attempt + 1
    BY <1>0, <2>2 DEF Attempts
  <2> QED BY <2>1, <2>2
<1> QED BY <1>1, <1>2, <1>3, <1>5, <1>6, <1>7 DEF Less, NoMore

LEMMA StepsAreSpent == ASSUME TypeOK, Placed, Next PROVE Less
<1> USE SourceNames
<1>0. /\ pc \in [Sources -> {"try", "fetch", "backoff", "adding", "returned", "done"}]
      /\ found \in [Names -> SUBSET Tags] /\ nsLeft \subseteq Nameservers
      /\ sctx \in [Budgeted -> {"live", "deadline"} \cup CtxCauses] /\ "live" \notin CtxCauses
  BY DiscoveryAssumption DEF TypeOK, DiscoveryAssumption
<1>1. ASSUME NEW cause \in CtxCauses, CtxEnds(cause) PROVE Less
  <2>1. "live" \in CtxAhead \ CtxAhead' /\ CtxAhead' \subseteq CtxAhead
    BY <1>0, <1>1 DEF CtxEnds, CtxAhead
  <2>2. Budgets' \subseteq Budgets
    BY <1>0, <1>1 DEF CtxEnds, Budgets
  <2> QED BY <1>1, <2>1, <2>2 DEF CtxEnds, Less, NoMore, sourceVars, mainVars, MainAhead, Attempts,
                                  Work, Servers, Adds, Unsettled
<1>2. ASSUME NEW s \in Budgeted, BudgetExpires(s) PROVE Less
  <2>1. Budgets' \subseteq Budgets /\ s \in Budgets \ Budgets'
    BY <1>0, <1>2 DEF BudgetExpires, Budgets
  <2> QED BY <1>2, <2>1 DEF BudgetExpires, Less, NoMore, sourceVars, mainVars, CtxAhead, MainAhead,
                            Attempts, Work, Servers, Adds, Unsettled
<1>3. ASSUME NEW s \in Sources, \/ Skip(s) \/ FetchFails(s)
                                \/ (s # "crtsh" /\ (Fetched(s) \/ Finish(s)))
      PROVE  Less
  <2>1. \E place \in {"adding", "returned"} :
          /\ pc[s] \in {"fetch", "adding"} /\ pc[s] # place /\ pc' = [pc EXCEPT ![s] = place]
    BY <1>3 DEF Skip, FetchFails, Fetched, Finish, Finished, CanBreak, Return, Goto
  <2>2. s \in Others /\ UNCHANGED <<ctx, sctx, attempt, nsLeft, found, mainVars>>
    BY <1>3 DEF Others, Skip, FetchFails, Fetched, Finish
  <2>3. Servers' \subseteq Servers
    BY <1>0, <2>1, <2>2 DEF Servers
  <2> QED BY <1>0, <2>1, <2>2, <2>3, SourceGoesOn DEF TypeOK
<1>4. CASE (Fetched("crtsh") \/ Finish("crtsh")) \/ CrtShStep
  <2>1. UNCHANGED <<ctx, sctx, nsLeft, found, mainVars>>
    BY <1>4 DEF Fetched, Finish, CrtShStep, CrtShTry, CrtShFails, CrtShBackoff
  <2>2. \E place \in {"try", "fetch", "adding", "backoff", "returned"} :
          /\ pc["crtsh"] \in {"try", "fetch", "adding", "backoff"}
          /\ \/ attempt' = attempt /\ From(place) \subseteq From(pc["crtsh"]) \ {pc["crtsh"]}
             \/ attempt' = attempt + 1 /\ pc["crtsh"] = "backoff"
          /\ pc' = [pc EXCEPT !["crtsh"] = place]
    <3>1. CASE Fetched("crtsh")
      BY <3>1, FromOf DEF Fetched, Goto
    <3>2. CASE Finish("crtsh")
      BY <3>2, FromOf DEF Finish, Finished, Return
    <3>3. CASE CrtShTry
      BY <3>3, FromOf DEF CrtShTry, Goto, Return
    <3>4. CASE CrtShFails
      BY <3>4, FromOf DEF CrtShFails, CanBreak, Goto
    <3>5. CASE CrtShBackoff
      BY <3>5, FromOf DEF CrtShBackoff, Goto, Return
    <3> QED BY <1>4, <3>1, <3>2, <3>3, <3>4, <3>5 DEF CrtShStep
  <2> QED BY <2>1, <2>2, CrtShGoesOn
<1>5. ASSUME NEW s \in Sources, Settle(s) PROVE Less
  <2>1. /\ pc'[s] = "done" /\ pc[s] = "returned" /\ \A t \in Sources \ {s} : pc'[t] = pc[t]
        /\ UNCHANGED <<ctx, sctx, attempt, nsLeft, found, mainVars>>
    BY <1>0, <1>5 DEF Settle
  <2>2. From(pc'[s]) = {} /\ From(pc[s]) = {}
    BY <2>1, FromOf
  <2>3. Attempts' = Attempts /\ Work' = Work
    BY <2>1, <2>2 DEF Attempts, Work, Others
  <2>4. Unsettled' \subseteq Unsettled /\ s \in Unsettled \ Unsettled'
    BY <2>1 DEF Unsettled
  <2>5. Servers' \subseteq Servers
    BY <2>1 DEF Servers
  <2> QED BY <2>1, <2>3, <2>4, <2>5 DEF Less, NoMore, mainVars, CtxAhead, MainAhead, Budgets, Adds
<1>6. ASSUME NEW s \in Sources, NEW h \in Names, s \notin found[h],
             found' = [found EXCEPT ![h] = @ \cup {s}],
             UNCHANGED <<ctx, sctx, pc, attempt, nsLeft, mainVars>>
      PROVE  Less
  <2>1. Adds' \subseteq Adds /\ <<s, h>> \in Adds \ Adds'
    BY <1>0, <1>6 DEF Adds
  <2> QED BY <1>6, <2>1 DEF Less, NoMore, mainVars, CtxAhead, MainAhead, Budgets, Attempts, Work,
                            Servers, Unsettled
<1>7. CASE AxfrLookup
  <2>1. Servers' \subseteq Servers
    BY <1>0, <1>7 DEF AxfrLookup, Goto, Servers
  <2> QED BY <1>7, <2>1, SourceGoesOn DEF AxfrLookup, Goto, Others
<1>8. CASE AxfrTransfer
  <2>1. PICK ns \in nsLeft : nsLeft' = nsLeft \ {ns}
    BY <1>8 DEF AxfrTransfer
  <2>2. pc["axfr"] = "adding" /\ UNCHANGED <<ctx, sctx, pc, attempt, found, mainVars>>
    BY <1>8 DEF AxfrTransfer
  <2>3. Servers' \subseteq Servers /\ ns \in Servers \ Servers'
    BY <1>0, <2>1, <2>2 DEF Servers
  <2> QED BY <2>2, <2>3 DEF Less, NoMore, mainVars, CtxAhead, MainAhead, Budgets, Attempts, Work,
                            Adds, Unsettled
<1>9. CASE BruteReturns
  <2>1. Servers' \subseteq Servers
    BY <1>0, <1>9 DEF BruteReturns, Return, Servers
  <2> QED BY <1>9, <2>1, SourceGoesOn DEF BruteReturns, Return, Others
<1>10. CASE Collect \/ Whois
  <2>1. MainAhead' \subseteq MainAhead /\ MainAhead' # MainAhead
    BY <1>10 DEF Collect, Whois, MainAhead
  <2> QED BY <1>10, <2>1 DEF Collect, Whois, Less, NoMore, sourceVars, CtxAhead, Budgets, Attempts,
                             Work, Servers, Adds, Unsettled
<1>11. ASSUME NEW s \in Sources, NEW h \in Names, Add(s, h) PROVE Less
  BY <1>6, <1>11 DEF Add
<1>12. ASSUME NEW h \in Names, BruteFinds(h) PROVE Less
  BY <1>6, <1>12 DEF BruteFinds
<1>13. ASSUME NEW s \in Sources, SourceStep(s) PROVE Less
  <2>1. CASE Skip(s) \/ FetchFails(s)
    BY <1>3, <1>13, <2>1
  <2>2. CASE Fetched(s) \/ Finish(s)
    BY <1>3, <1>4, <1>13, <2>2
  <2> QED BY <1>5, <1>11, <1>13, <2>1, <2>2 DEF SourceStep
<1> QED BY <1>1, <1>2, <1>4, <1>7, <1>8, <1>9, <1>10, <1>12, <1>13 DEF Next, AxfrStep, BruteStep

\* While a source is not done, it can go on by itself or its budget can expire;
\* when all are, Discover can.
LEMMA NeverStuck == TypeOK /\ Placed => (main # "returned" => CanMove)
<1> SUFFICES ASSUME TypeOK, Placed, main \in {"waiting", "whois"}, ~Joined \/ main = "waiting" \/ main = "whois"
             PROVE  CanMove
  BY DEF TypeOK
<1>1. CASE main = "whois"
  BY <1>1 DEF CanMove
<1>2. CASE main = "waiting" /\ Joined
  BY <1>2 DEF CanMove
<1>3. CASE ~Joined
  <2>1. PICK s \in Sources : pc[s] # "done"
    BY <1>3 DEF Joined
  <2>2. CASE pc[s] \in {"try", "backoff"}
    BY <2>1, <2>2 DEF Placed, CanMove
  <2>3. CASE pc[s] = "returned"
    BY <2>1, <2>3 DEF CanMove
  <2>4. CASE pc[s] = "adding"
    <3>1. \/ ~AllAdded(s) \/ Finished(s)
          \/ s = "axfr" /\ EnableAXFR /\ AllAdded("axfr") /\ nsLeft # {}
      BY <2>4, SourceNames, DiscoveryAssumption DEF Finished, Sources, Budgeted, Keyed, DiscoveryAssumption
    <3> QED BY <2>1, <2>4, <3>1 DEF CanMove
  <2>5. CASE pc[s] = "fetch"
    <3>1. CASE s \in Budgeted
      <4>1. CASE sctx[s] = "live"
        BY <2>5, <3>1, <4>1 DEF CanMove
      <4>2. CASE sctx[s] # "live"
        BY <2>5, <3>1, <4>2 DEF CanMove, Budgeted
      <4> QED BY <4>1, <4>2
    <3>2. CASE s = "axfr" /\ EnableAXFR
      BY <2>5, <3>2 DEF CanMove
    <3>3. CASE s = "brute" /\ EnableBrute
      BY <2>5, <3>3 DEF CanMove
    <3> QED BY <3>1, <3>2, <3>3 DEF Sources
  <2> QED BY <2>1, <2>2, <2>3, <2>4, <2>5 DEF TypeOK
<1> QED BY <1>1, <1>2, <1>3

LEMMA SourcesFinite == IsFiniteSet(Sources)
<1> DEFINE All == {"crtsh"} \cup {"hackertarget"} \cup {"otx"} \cup {"virustotal"}
                  \cup {"securitytrails"} \cup {"axfr"} \cup {"brute"}
<1>1. IsFiniteSet(All)
  BY FS_Singleton, FS_Union
<1>2. Sources \in SUBSET All
  BY DiscoveryAssumption DEF Sources, Budgeted, Keyed, DiscoveryAssumption
<1> QED BY <1>1, <1>2, FS_Subset

LEMMA PlacesFinite ==
    /\ IsFiniteSet({"fetch", "adding"}) /\ Cardinality({"fetch", "adding"}) = 2
    /\ IsFiniteSet({"collect", "whois"}) /\ Cardinality({"collect", "whois"}) = 2
    /\ IsFiniteSet(From("try")) /\ Cardinality(From("try")) = 4
<1>1. ASSUME NEW a, NEW b, a # b PROVE IsFiniteSet({a, b}) /\ Cardinality({a, b}) = 2
  <2>1. IsFiniteSet({a}) /\ Cardinality({a}) = 1
    BY FS_Singleton
  <2>2. IsFiniteSet({a} \cup {b}) /\ Cardinality({a} \cup {b}) = 2
    BY <1>1, <2>1, FS_AddElement
  <2>3. {a} \cup {b} = {a, b}
    OBVIOUS
  <2> QED BY <2>2, <2>3
<1>2. IsFiniteSet({"fetch", "adding"}) /\ Cardinality({"fetch", "adding"}) = 2
  BY <1>1
<1>3. /\ IsFiniteSet({"fetch", "adding"} \cup {"try"})
      /\ Cardinality({"fetch", "adding"} \cup {"try"}) = 3
  BY <1>2, FS_AddElement
<1>4. /\ IsFiniteSet(({"fetch", "adding"} \cup {"try"}) \cup {"backoff"})
      /\ Cardinality(({"fetch", "adding"} \cup {"try"}) \cup {"backoff"}) = 4
  BY <1>3, FS_AddElement
<1>5. ({"fetch", "adding"} \cup {"try"}) \cup {"backoff"} = From("try")
  BY FromOf
<1> QED BY <1>1, <1>2, <1>4, <1>5

\* A part of what is ahead has fewer elements once it has lost one.
LEMMA Fewer ==
    ASSUME NEW S, NEW T, IsFiniteSet(S), T \subseteq S
    PROVE  /\ Cardinality(S) \in Nat /\ Cardinality(T) \in Nat /\ Cardinality(T) <= Cardinality(S)
           /\ T # S => Cardinality(T) < Cardinality(S)
<1>1. IsFiniteSet(T) /\ Cardinality(T) <= Cardinality(S) /\ (Cardinality(S) = Cardinality(T) => S = T)
  BY FS_Subset
<1> QED BY <1>1, FS_CardinalityType

\* Each part of what is ahead is finite, and no larger than its full set.
LEMMA AheadIsFinite ==
    /\ IsFiniteSet(CtxAhead) /\ Cardinality(CtxAhead) <= 1
    /\ IsFiniteSet(MainAhead) /\ Cardinality(MainAhead) <= 2
    /\ IsFiniteSet(Budgets) /\ Cardinality(Budgets) <= Cardinality(Sources)
    /\ IsFiniteSet(Attempts) /\ Cardinality(Attempts) <= MaxAttempts * 4
    /\ IsFiniteSet(Work) /\ Cardinality(Work) <= Cardinality(Sources) * 2
    /\ IsFiniteSet(Servers) /\ Cardinality(Servers) <= Cardinality(Nameservers)
    /\ IsFiniteSet(Adds) /\ Cardinality(Adds) <= Cardinality(Sources) * Cardinality(Names)
    /\ IsFiniteSet(Unsettled) /\ Cardinality(Unsettled) <= Cardinality(Sources)
<1>0. IsFiniteSet(Sources) /\ IsFiniteSet(Names) /\ IsFiniteSet(Nameservers)
  BY SourcesFinite, FiniteAssumption DEF FiniteAssumption
<1>1. IsFiniteSet(1..MaxAttempts) /\ Cardinality(1..MaxAttempts) = MaxAttempts
  BY DiscoveryAssumption, FS_Interval DEF DiscoveryAssumption
<1>2. /\ IsFiniteSet((1..MaxAttempts) \X From("try"))
      /\ Cardinality((1..MaxAttempts) \X From("try")) = MaxAttempts * 4
  <2> DEFINE rounds == 1..MaxAttempts
             places == From("try")
  <2>1. IsFiniteSet(rounds) /\ Cardinality(rounds) = MaxAttempts
    BY <1>1
  <2>2. IsFiniteSet(places) /\ Cardinality(places) = 4
    BY PlacesFinite
  <2> HIDE DEF rounds, places
  <2>3. /\ IsFiniteSet(rounds \X places)
        /\ Cardinality(rounds \X places) = MaxAttempts * 4
    BY <2>1, <2>2, FS_Product
  <2> QED BY <2>3 DEF rounds, places
<1>3. /\ IsFiniteSet(Sources \X {"fetch", "adding"})
      /\ Cardinality(Sources \X {"fetch", "adding"}) = Cardinality(Sources) * 2
  BY <1>0, PlacesFinite, FS_Product
<1>4. /\ IsFiniteSet(Sources \X Names)
      /\ Cardinality(Sources \X Names) = Cardinality(Sources) * Cardinality(Names)
  BY <1>0, FS_Product
<1>5. /\ CtxAhead \in SUBSET {"live"} /\ MainAhead \in SUBSET {"collect", "whois"}
      /\ Budgets \in SUBSET Sources /\ Attempts \in SUBSET ((1..MaxAttempts) \X From("try"))
      /\ Work \in SUBSET (Sources \X {"fetch", "adding"}) /\ Servers \in SUBSET Nameservers
      /\ Adds \in SUBSET (Sources \X Names) /\ Unsettled \in SUBSET Sources
  BY SourceNames DEF CtxAhead, MainAhead, Budgets, Attempts, Work, Others, Servers, Adds, Unsettled
<1>6. IsFiniteSet({"live"}) /\ Cardinality({"live"}) = 1
  BY FS_Singleton
<1>7. IsFiniteSet(CtxAhead) /\ Cardinality(CtxAhead) <= 1
  <2>1. CtxAhead \in SUBSET {"live"}
    BY <1>5
  <2> QED BY <1>6, <2>1, FS_Subset
<1>8. IsFiniteSet(MainAhead) /\ Cardinality(MainAhead) <= 2
  <2>1. MainAhead \in SUBSET {"collect", "whois"}
    BY <1>5
  <2>2. IsFiniteSet({"collect", "whois"}) /\ Cardinality({"collect", "whois"}) = 2
    BY PlacesFinite
  <2> QED BY <2>1, <2>2, FS_Subset
<1>9. IsFiniteSet(Attempts) /\ Cardinality(Attempts) <= MaxAttempts * 4
  BY <1>2, <1>5, FS_Subset
<1>10. IsFiniteSet(Work) /\ Cardinality(Work) <= Cardinality(Sources) * 2
  BY <1>3, <1>5, FS_Subset
<1>11. IsFiniteSet(Adds) /\ Cardinality(Adds) <= Cardinality(Sources) * Cardinality(Names)
  BY <1>4, <1>5, FS_Subset
<1>12. /\ IsFiniteSet(Budgets) /\ Cardinality(Budgets) <= Cardinality(Sources)
       /\ IsFiniteSet(Unsettled) /\ Cardinality(Unsettled) <= Cardinality(Sources)
       /\ IsFiniteSet(Servers) /\ Cardinality(Servers) <= Cardinality(Nameservers)
  BY <1>0, <1>5, FS_Subset
<1> QED BY <1>7, <1>8, <1>9, <1>10, <1>11, <1>12

LEMMA AtMost == StepsAhead <= 3 + 4 * Cardinality(Sources) + 4 * MaxAttempts + Cardinality(Nameservers)
                                + Cardinality(Sources) * Cardinality(Names)
<1> DEFINE n == Cardinality(Sources) * Cardinality(Names)
<1>1. /\ {Cardinality(Sources), Cardinality(Names), Cardinality(Nameservers), MaxAttempts} \subseteq Nat
      /\ {Cardinality(CtxAhead), Cardinality(MainAhead), Cardinality(Budgets), Cardinality(Attempts),
          Cardinality(Work), Cardinality(Servers), Cardinality(Adds), Cardinality(Unsettled)} \subseteq Nat
  BY SourcesFinite, AheadIsFinite, FiniteAssumption, DiscoveryAssumption, FS_CardinalityType
  DEF FiniteAssumption, DiscoveryAssumption
<1>2. n \in Nat /\ Cardinality(Adds) <= n
  BY <1>1, AheadIsFinite
<1> HIDE DEF n
<1>3. StepsAhead <= 3 + 4 * Cardinality(Sources) + 4 * MaxAttempts + Cardinality(Nameservers) + n
  BY <1>1, <1>2, AheadIsFinite DEF StepsAhead
<1> QED BY <1>3 DEF n

\* Discover cannot go on for ever, whatever its upstreams answer, and never waits
\* for an upstream alone (scan.go:88-190).
THEOREM ConvergesHolds == Spec => Converges
<1>1. ASSUME TypeOK, Placed, [Next]_vars PROVE [StepsAhead' < StepsAhead]_vars
  <2> SUFFICES ASSUME Next PROVE StepsAhead' < StepsAhead
    BY <1>1
  <2>1. Less
    BY <1>1, StepsAreSpent
  <2>2. /\ Cardinality(CtxAhead') <= Cardinality(CtxAhead)
        /\ Cardinality(MainAhead') <= Cardinality(MainAhead)
        /\ Cardinality(Budgets') <= Cardinality(Budgets)
        /\ Cardinality(Attempts') <= Cardinality(Attempts)
        /\ Cardinality(Work') <= Cardinality(Work)
        /\ Cardinality(Servers') <= Cardinality(Servers)
        /\ Cardinality(Adds') <= Cardinality(Adds)
        /\ Cardinality(Unsettled') <= Cardinality(Unsettled)
        /\ {Cardinality(CtxAhead'), Cardinality(MainAhead'), Cardinality(Budgets'),
            Cardinality(Attempts'), Cardinality(Work'), Cardinality(Servers'),
            Cardinality(Adds'), Cardinality(Unsettled'),
            Cardinality(CtxAhead), Cardinality(MainAhead), Cardinality(Budgets),
            Cardinality(Attempts), Cardinality(Work), Cardinality(Servers),
            Cardinality(Adds), Cardinality(Unsettled)} \subseteq Nat
    BY <2>1, AheadIsFinite, Fewer DEF Less, NoMore
  <2>3. \/ Cardinality(CtxAhead') < Cardinality(CtxAhead)
        \/ Cardinality(MainAhead') < Cardinality(MainAhead)
        \/ Cardinality(Budgets') < Cardinality(Budgets)
        \/ Cardinality(Attempts') < Cardinality(Attempts)
        \/ Cardinality(Work') < Cardinality(Work)
        \/ Cardinality(Servers') < Cardinality(Servers)
        \/ Cardinality(Adds') < Cardinality(Adds)
        \/ Cardinality(Unsettled') < Cardinality(Unsettled)
    BY <2>1, AheadIsFinite, Fewer DEF Less, NoMore
  <2>4. StepsAhead' = Cardinality(CtxAhead') + Cardinality(MainAhead') + Cardinality(Budgets')
                      + Cardinality(Attempts') + Cardinality(Work') + Cardinality(Servers')
                      + Cardinality(Adds') + Cardinality(Unsettled')
    BY DEF StepsAhead
  <2> QED BY <2>2, <2>3, <2>4 DEF StepsAhead
<1> QED BY <1>1, AtMost, NeverStuck, TypeCorrect, PlacedHolds, PTL DEF Spec, Converges
==============================================================================
