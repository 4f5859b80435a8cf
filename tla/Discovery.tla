------------------------------ MODULE Discovery ------------------------------
(***************************************************************************)
(* scan.Options.Discover (internal/scan/scan.go) and the sources it runs   *)
(* (internal/discover): one goroutine per source, each adding hosts to the *)
(* shared model.Set, a WaitGroup that joins them, then the report.         *)
(*                                                                         *)
(* The sources started by "run" (crt.sh and the passive ones) get a child  *)
(* context with a budget of SourceTimeout; axfr and brute get the caller's *)
(* context itself.  Upstreams answer, fail or stay silent at will.         *)
(***************************************************************************)
EXTENDS Naturals, FiniteSets

CONSTANTS
    Names,         \* the host names upstreams can answer with
    Apex,          \* o.Domain
    InScope,       \* the names normalizeHost keeps: Apex and names under it
    Nameservers,   \* the domain's name servers
    WithKey,       \* the keyed sources whose API key is in the environment
    Passive,       \* the passive sources started
    EnableAXFR, EnableBrute, EnableWhois,
    CtxCauses,     \* how the caller's context can end
    MaxAttempts    \* crt.sh fetches in one scan; 3 in the code

Keyed == {"virustotal", "securitytrails"}

ASSUME DiscoveryAssumption ==
    /\ Apex \in InScope /\ InScope \subseteq Names
    /\ Passive \subseteq {"hackertarget", "otx"} \cup Keyed
    /\ WithKey \subseteq Keyed
    /\ {EnableAXFR, EnableBrute, EnableWhois} \subseteq BOOLEAN
    /\ CtxCauses \subseteq {"deadline", "canceled"}
    /\ MaxAttempts \in Nat \ {0}

\* The sources that "run" starts under their own deadline.
Budgeted == {"crtsh"} \cup Passive
Sources == Budgeted \cup {s \in {"axfr"} : EnableAXFR} \cup {s \in {"brute"} : EnableBrute}
Tags == Sources \cup {"seed"}
Verdicts == {"ok", "failed", "skipped", "timeout"}

VARIABLES
    ctx,       \* the caller's context: "live", or why it ended
    sctx,      \* sctx[s]: the same of the child context of a budgeted source
    pc,        \* pc[s]: where the goroutine of s stands
    err,       \* err[s]: what the source's function returned
    attempt,   \* CrtSh's loop counter
    nsLeft,    \* the name servers AXFR has still to ask
    zones,     \* zones[ns]: what name server ns will hand over when asked
    answer,    \* answer[s]: the names the upstream of s has handed over
    found,     \* model.Set: found[h] is the set of sources that added h
    verdict,   \* the statuses map: "none" until s has set its status
    main,      \* where Discover itself stands
    items,     \* the snapshot found.Items()
    whois      \* result.Whois: "none" or "info"
vars == <<ctx, sctx, pc, err, attempt, nsLeft, zones, answer, found, verdict, main, items, whois>>
sourceVars == <<pc, err, attempt, nsLeft, zones, answer, found, verdict>>
mainVars == <<main, items, whois>>

\* Set.Items: the hosts of a set are the names some source has added.
HostsOf(set) == {h \in Names : set[h] # {}}
\* counts[s] of the report: the hosts that carry the tag of s.
Counted(set, s) == Cardinality({h \in Names : s \in set[h]})

Init ==
    /\ ctx = "live"
    /\ sctx = [s \in Budgeted |-> "live"]
    /\ pc = [s \in Sources |-> IF s = "crtsh" THEN "try" ELSE "fetch"]
    /\ err = [s \in Sources |-> "nil"]
    /\ attempt = 1
    /\ nsLeft = {}
    /\ zones = [ns \in Nameservers |-> {}]
    /\ answer = [s \in Sources |-> {}]
    /\ found = [h \in Names |-> IF h = Apex THEN {"seed"} ELSE {}]
    /\ verdict = [s \in Sources |-> "none"]
    /\ main = "waiting"
    /\ items = [h \in Names |-> {}]
    /\ whois = "none"
------------------------------------------------------------------------------
(* Contexts *)

\* The client disconnects, the process is interrupted, or the handler's
\* timeout fires; every child context that is still live ends the same way.
CtxEnds(cause) ==
    /\ ctx = "live" /\ main # "returned"
    /\ ctx' = cause
    /\ sctx' = [s \in Budgeted |-> IF sctx[s] = "live" THEN cause ELSE sctx[s]]
    /\ UNCHANGED <<sourceVars, mainVars>>

\* Faulty: crt.sh is started with the caller's context and no budget.
FaultyBudgetExpires(s) ==
    /\ sctx[s] = "live" /\ pc[s] # "done" /\ s # "crtsh"
    /\ sctx' = [sctx EXCEPT ![s] = "deadline"]
    /\ UNCHANGED <<ctx, sourceVars, mainVars>>
\* SourceTimeout elapses for s.
BudgetExpires(s) ==
    /\ sctx[s] = "live" /\ pc[s] # "done"
    /\ sctx' = [sctx EXCEPT ![s] = "deadline"]
    /\ UNCHANGED <<ctx, sourceVars, mainVars>>
------------------------------------------------------------------------------
(* Sources *)

\* The function of source s returns e.
Return(s, e) == /\ pc' = [pc EXCEPT ![s] = "returned"]
                /\ err' = [err EXCEPT ![s] = e]

Goto(s, label) == /\ pc' = [pc EXCEPT ![s] = label]
                  /\ UNCHANGED err

HasKey(s) == s \in Keyed => s \in WithKey

\* VirusTotal and SecurityTrails return a SkipError when their key is not set.
Skip(s) ==
    /\ s \in Passive /\ pc[s] = "fetch" /\ ~HasKey(s)
    /\ Return(s, "skip")
    /\ UNCHANGED <<ctx, sctx, attempt, nsLeft, zones, answer, found, verdict, mainVars>>

\* The upstream's answer has been received and, but for hackertarget's, decoded.
Fetched(s) ==
    /\ s \in Budgeted /\ pc[s] = "fetch" /\ HasKey(s)
    /\ \E names \in SUBSET Names : answer' = [answer EXCEPT ![s] = names]
    /\ Goto(s, "adding")
    /\ UNCHANGED <<ctx, sctx, attempt, nsLeft, zones, found, verdict, mainVars>>

\* Faulty: results are added while the body is still being decoded.
FaultyCanBreak(s) == pc[s] = "adding"
\* Whether s can still fail once it is adding hosts.  hackertarget adds them one
\* by one as it reads the body, so that a read error or an error line can come
\* after some of them; the others, crt.sh included, decode it all first.
CanBreak(s) == s = "hackertarget" /\ pc[s] = "adding"

\* The request, or what is left of the body, fails, at the latest when the
\* source's context has ended.
FetchFails(s) ==
    /\ s \in Passive
    /\ (pc[s] = "fetch" /\ HasKey(s)) \/ CanBreak(s)
    /\ Return(s, "error")
    /\ UNCHANGED <<ctx, sctx, attempt, nsLeft, zones, answer, found, verdict, mainVars>>

\* Loop head of CrtSh: no further attempt once the context has ended.
CrtShTry ==
    /\ pc["crtsh"] = "try"
    /\ IF sctx["crtsh"] = "live" THEN Goto("crtsh", "fetch") ELSE Return("crtsh", "error")
    /\ UNCHANGED <<ctx, sctx, attempt, nsLeft, zones, answer, found, verdict, mainVars>>

\* crtshOnce fails, for whatever reason: CrtSh waits before going on.
CrtShFails ==
    /\ (pc["crtsh"] = "fetch" \/ CanBreak("crtsh"))
    /\ Goto("crtsh", "backoff")
    /\ UNCHANGED <<ctx, sctx, attempt, nsLeft, zones, answer, found, verdict, mainVars>>

\* Faulty: the loop bound is off by one.
FaultyMayRetry == attempt <= MaxAttempts
MayRetry == attempt < MaxAttempts

\* The wait ends: by its timer, after which the loop goes on or is over, or by
\* the end of the context.
CrtShBackoff ==
    /\ pc["crtsh"] = "backoff"
    /\ \/ MayRetry /\ attempt' = attempt + 1 /\ Goto("crtsh", "try")
       \/ ~MayRetry /\ UNCHANGED attempt /\ Return("crtsh", "error")
       \/ sctx["crtsh"] # "live" /\ UNCHANGED attempt /\ Return("crtsh", "error")
    /\ UNCHANGED <<ctx, sctx, nsLeft, zones, answer, found, verdict, mainVars>>

\* AXFR looks up the name servers; a failed lookup looks like no name server.
\* What each will hand over is settled here: nothing, if it was not found or
\* its transfer will be refused or fail half-way.
AxfrLookup ==
    /\ EnableAXFR /\ pc["axfr"] = "fetch"
    /\ \E servers \in SUBSET Nameservers :
         /\ nsLeft' = servers
         /\ zones' \in {z \in [Nameservers -> SUBSET Names] :
                          \A ns \in Nameservers \ servers : z[ns] = {}}
    /\ Goto("axfr", "adding")
    /\ UNCHANGED <<ctx, sctx, attempt, answer, found, verdict, mainVars>>

\* Faulty: the candidate is added as the upstream sent it.
FaultyKept(s) == answer[s]
\* normalizeHost: what is kept of the names received.
Kept(s) == answer[s] \cap InScope
AllAdded(s) == \A h \in Kept(s) : s \in found[h]

\* One transfer.  Neither the budget nor the caller's context is consulted.
AxfrTransfer ==
    /\ EnableAXFR /\ pc["axfr"] = "adding" /\ AllAdded("axfr")
    /\ \E ns \in nsLeft :
         /\ nsLeft' = nsLeft \ {ns}
         /\ answer' = [answer EXCEPT !["axfr"] = @ \cup zones[ns]]
    /\ UNCHANGED <<ctx, sctx, pc, err, attempt, zones, found, verdict, mainVars>>

\* Set.Add of one received name, under the set's mutex.
Add(s, h) ==
    /\ pc[s] = "adding" /\ h \in Kept(s) /\ s \notin found[h]
    /\ found' = [found EXCEPT ![h] = @ \cup {s}]
    /\ UNCHANGED <<ctx, sctx, pc, err, attempt, nsLeft, zones, answer, verdict, mainVars>>

\* Faulty: the loop over the name servers stops at the first that leaks.
FaultyFinished(s) ==
    pc[s] = "adding" /\ AllAdded(s) /\ (s = "axfr" => nsLeft = {} \/ answer[s] # {})
\* Every received name is in the set and, for axfr, every server was asked.
Finished(s) == pc[s] = "adding" /\ AllAdded(s) /\ (s = "axfr" => nsLeft = {})

Finish(s) ==
    /\ Finished(s)
    /\ Return(s, "nil")
    /\ UNCHANGED <<ctx, sctx, attempt, nsLeft, zones, answer, found, verdict, mainVars>>

\* A brute-force worker adds a candidate that resolved (module Brute has the
\* pool).  Candidates are made from the domain and need no normalizeHost.
BruteFinds(h) ==
    /\ EnableBrute /\ pc["brute"] = "fetch" /\ "brute" \notin found[h]
    /\ h \in InScope \ {Apex}
    /\ found' = [found EXCEPT ![h] = @ \cup {"brute"}]
    /\ UNCHANGED <<ctx, sctx, pc, err, attempt, nsLeft, zones, answer, verdict, mainVars>>

\* Brute returns when its workers have: nil, the error of the context, or,
\* before any lookup, that of the word list.
BruteReturns ==
    /\ EnableBrute /\ pc["brute"] = "fetch"
    /\ \/ Return("brute", "nil")
       \/ (ctx # "live" \/ \A h \in Names : "brute" \notin found[h]) /\ Return("brute", "error")
    /\ UNCHANGED <<ctx, sctx, attempt, nsLeft, zones, answer, found, verdict, mainVars>>
------------------------------------------------------------------------------
(* The wrapper around every source, and Discover's own goroutine *)

\* Faulty: any end of the child context counts as its budget running out.
FaultyState(s) == CASE err[s] = "nil" -> "ok"
                    [] err[s] = "skip" -> "skipped"
                    [] err[s] = "error" /\ s \in Budgeted /\ sctx[s] # "live" -> "timeout"
                    [] OTHER -> "failed"
\* The switch that turns a returned error into a state.  It reads the child
\* context after the function has returned.
State(s) == CASE err[s] = "nil" -> "ok"
              [] err[s] = "skip" -> "skipped"
              [] err[s] = "error" /\ s \in Budgeted /\ sctx[s] = "deadline" -> "timeout"
              [] OTHER -> "failed"

\* setStatus, under its mutex, then the deferred cancel, after which nobody
\* looks at the child context, and dwg.Done.
Settle(s) ==
    /\ pc[s] = "returned"
    /\ verdict' = [verdict EXCEPT ![s] = State(s)]
    /\ pc' = [pc EXCEPT ![s] = "done"]
    /\ UNCHANGED <<ctx, sctx, err, attempt, nsLeft, zones, answer, found, mainVars>>

\* Faulty: a goroutine calls dwg.Add itself, too late for dwg.Wait to see it.
FaultyJoined == \E late \in Sources : \A s \in Sources \ {late} : pc[s] = "done"
\* dwg.Wait lets go.
Joined == \A s \in Sources : pc[s] = "done"

\* The snapshot of the set, from which counts and report are made.
Collect ==
    /\ main = "waiting" /\ Joined
    /\ items' = found
    /\ main' = IF EnableWhois THEN "whois" ELSE "returned"
    /\ UNCHANGED <<ctx, sctx, sourceVars, whois>>

\* rdap.Domain answers or fails; a failure only leaves the field empty.
Whois ==
    /\ main = "whois"
    /\ whois' \in {"info", "none"}
    /\ main' = "returned"
    /\ UNCHANGED <<ctx, sctx, sourceVars, items>>

SourceStep(s) == \/ Skip(s) \/ Fetched(s) \/ FetchFails(s) \/ Finish(s) \/ Settle(s)
                 \/ \E h \in Names : Add(s, h)
CrtShStep == CrtShTry \/ CrtShFails \/ CrtShBackoff
AxfrStep == AxfrLookup \/ AxfrTransfer
BruteStep == BruteReturns \/ \E h \in Names : BruteFinds(h)

Next == \/ \E cause \in CtxCauses : CtxEnds(cause)
        \/ \E s \in Budgeted : BudgetExpires(s)
        \/ \E s \in Sources : SourceStep(s)
        \/ CrtShStep \/ AxfrStep \/ BruteStep
        \/ Collect \/ Whois

Spec == Init /\ [][Next]_vars

(***************************************************************************)
(* Fairness.  Goroutines that can run do, and timers fire.  An HTTP        *)
(* upstream owes nothing: a request is only certain to end when its        *)
(* context has.  The DNS library puts a timeout of its own on each read of *)
(* a transfer and on each query, so that axfr and brute, made of finitely  *)
(* many of them, end; so does the WHOIS request (15 s client timeout).     *)
(***************************************************************************)
Fairness ==
    /\ \A s \in Budgeted : WF_vars(BudgetExpires(s))
    /\ \A s \in Sources : /\ WF_vars(Skip(s) \/ Finish(s) \/ Settle(s))
                          /\ WF_vars(\E h \in Names : Add(s, h))
    /\ \A s \in Passive : WF_vars(FetchFails(s) /\ sctx[s] # "live")
    /\ WF_vars(CrtShFails /\ sctx["crtsh"] # "live")
    /\ WF_vars(CrtShTry \/ CrtShBackoff)
    /\ WF_vars(AxfrStep)
    /\ WF_vars(BruteReturns)
    /\ WF_vars(Collect \/ Whois)

FairSpec == Spec /\ Fairness
------------------------------------------------------------------------------
(* Properties *)

TypeOK ==
    /\ ctx \in {"live"} \cup CtxCauses
    /\ sctx \in [Budgeted -> {"live", "deadline"} \cup CtxCauses]
    /\ pc \in [Sources -> {"try", "fetch", "backoff", "adding", "returned", "done"}]
    /\ err \in [Sources -> {"nil", "skip", "error"}]
    /\ attempt \in 1..MaxAttempts
    /\ nsLeft \subseteq Nameservers
    /\ zones \in [Nameservers -> SUBSET Names]
    /\ answer \in [Sources -> SUBSET Names]
    /\ found \in [Names -> SUBSET Tags]
    /\ verdict \in [Sources -> Verdicts \cup {"none"}]
    /\ main \in {"waiting", "whois", "returned"}
    /\ items \in [Names -> SUBSET Tags]
    /\ whois \in {"none", "info"}

\* The apex is always reported, and nothing outside the domain ever is,
\* whatever an upstream answers (scan.go:85, discover.go:13).
OnlyTheDomain == main # "waiting" =>
    Apex \in HostsOf(items) /\ HostsOf(items) \subseteq InScope

\* What the upstreams of s had for it: for axfr, the zones of all the domain's
\* name servers that were found, whether it asked them or not.
Offered(s) == IF s = "axfr" THEN UNION {zones[ns] : ns \in Nameservers} ELSE answer[s]

\* "ok" can be trusted: all in-scope names a source was sent are in the report
\* under its tag, and for axfr all those that any name server leaks, however
\* many others refuse or leak as well (axfr.go:19).
OkIsComplete == main # "waiting" =>
    \A s \in Sources \ {"brute"} : verdict[s] = "ok" =>
        \A h \in Offered(s) \cap InScope : s \in items[h]

\* A source that did not end "ok" has contributed nothing, with hackertarget
\* and brute the exceptions.  It is why CrtSh may ignore how many hosts a
\* failed attempt added (crtsh.go:43): there are none.
NoPartialSource == main # "waiting" =>
    \A s \in Sources \ {"hackertarget", "brute"} :
        verdict[s] # "ok" => Counted(items, s) = 0

\* A cancelled scan is not blamed on the sources' budgets: once the caller is
\* gone, a source whose budget was intact ends in another state than "timeout".
CancelIsNoTimeout ==
    [][\A s \in Budgeted : sctx[s] = "canceled" => verdict'[s] # "timeout"]_vars

\* Discover implements DiscoverAbs: the report is exactly what the sources had
\* contributed when each had settled, and no settled source adds anything.
Abs == INSTANCE DiscoverAbs WITH
    Hosts <- Names, Pending <- "none", NoReport <- <<>>,
    contrib <- [s \in Sources |-> {h \in Names : s \in found[h]}],
    report <- IF main = "waiting" THEN <<>>
              ELSE [s \in Sources |-> [state |-> verdict[s],
                                       hosts |-> {h \in Names : s \in items[h]}]]
Promise == Abs!Spec

\* Discover returns although no HTTP upstream ever answers and the caller's
\* context never ends: each source's own deadline sees to it (scan.go:88).
DiscoverReturns == <>(main = "returned")
==============================================================================
