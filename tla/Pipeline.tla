------------------------------ MODULE Pipeline ------------------------------
(***************************************************************************)
(* The two ways to a report.  Options.Run (internal/scan/scan.go) discovers*)
(* and enriches in one go, for the command line and /api/scan.  The page   *)
(* (internal/web/index.html) asks /api/discover for the hosts, shows them  *)
(* as pending, asks /api/enrich for their records, and shows those; the    *)
(* handler of /api/enrich (cmd/server/main.go) filters the host list.      *)
(*                                                                         *)
(* The submit handler of the page is asynchronous: it is its disabled      *)
(* button that keeps a second one from running alongside.  Run is composed *)
(* of the promise of Discover (DiscoverAbs) and the records of EnrichHosts,*)
(* one for each host and in any order; for the page, either is one step of *)
(* the server.                                                             *)
(***************************************************************************)
EXTENDS Naturals, FiniteSetsExt

CONSTANTS
    Domains,
    Hosts,        \* host names; each is of one domain
    Apex,         \* Apex[d]: the host that is the domain d itself
    HostsOf,      \* HostsOf[d]: the names of d that discovery may keep
    Odd,          \* the names that discovery keeps and sanitizeDomain does not
    ScanDomain,   \* the domain that Run scans
    Sources,      \* the discovery sources
    Verdicts,     \* what becomes of a source
    MaxHosts,     \* what /api/enrich takes at most; 1000
    MaxSubmits    \* how often the form is submitted, for TLC

ASSUME PipelineAssumption ==
    /\ \A d \in Domains : Apex[d] \in HostsOf[d] \ Odd
    /\ UNION {HostsOf[d] : d \in Domains} \subseteq Hosts /\ IsFiniteSet(Hosts)
    /\ ScanDomain \in Domains
    /\ "seed" \notin Sources
    /\ MaxHosts \in Nat \ {0} /\ MaxSubmits \in Nat

VARIABLES
    program,    \* "page" or "run": whose behaviour it is
    submits,    \* how often the form has been submitted
    busy,       \* the button is disabled
    rows,       \* the table on the page
    pc,         \* pc[s]: where the handler of submit s is
    found,      \* found[s]: the hosts it was given, with their sources
    contrib, verdict, report,    \* Run: the variables of DiscoverAbs
    records,    \* Run: the records made so far
    returned    \* Run has returned
pageVars == <<submits, busy, rows, pc, found>>
discoverVars == <<contrib, verdict, report>>
runVars == <<discoverVars, records, returned>>
vars == <<program, pageVars, runVars>>

Submits == 1..MaxSubmits
Tags == Sources \cup {"seed"}
Row(h, tags, pending) == [host |-> h, sources |-> tags, pending |-> pending]
HostsIn(table) == {row.host : row \in table}

\* What /api/discover can answer for d: the apex, which is seeded, and any of
\* the other names.  The page does not look at the sources of a host: those of
\* one answer are the same for all.
Discovered(d, others, tags) ==
    {Row(h, IF h = Apex[d] THEN {"seed"} ELSE tags, TRUE) : h \in {Apex[d]} \cup others}
Discoveries(d) ==
    {Discovered(d, others, tags) :
        others \in SUBSET HostsOf[d], tags \in (SUBSET Sources) \ {{}}}

Discovering == INSTANCE DiscoverAbs WITH
    Hosts <- HostsOf[ScanDomain], Pending <- "none", NoReport <- <<>>

Init ==
    /\ program \in {"page", "run"}
    /\ submits = 0 /\ busy = FALSE /\ rows = {}
    /\ pc = [s \in Submits |-> "none"]
    /\ found = [s \in Submits |-> {}]
    /\ Discovering!Init /\ records = {} /\ returned = FALSE
------------------------------------------------------------------------------
(* The page *)

Goto(s, label) == pc' = [pc EXCEPT ![s] = label]

\* The form is submitted: the table is cleared and /api/discover is asked.
Submit ==
    /\ program = "page" /\ ~busy /\ submits < MaxSubmits
    /\ submits' = submits + 1
    /\ busy' = TRUE
    /\ rows' = {}
    /\ Goto(submits + 1, "discovering")
    /\ UNCHANGED <<found, program, runVars>>

\* No answer, or one that is not 200 or does not parse; then finally.
DiscoverFails(s) ==
    /\ pc[s] = "discovering" /\ Goto(s, "failed")
    /\ busy' = FALSE
    /\ UNCHANGED <<submits, rows, found, program, runVars>>

\* Faulty: the button comes back with the first paint.
FaultyBusyMeanwhile == FALSE
BusyMeanwhile == busy

\* First paint: the hosts, pending.  The list always has the apex, so that the
\* page's case of an empty list does not arise.
DiscoverAnswers(s) ==
    /\ pc[s] = "discovering" /\ Goto(s, "enriching")
    /\ \E d \in Domains : \E hosts \in Discoveries(d) :
         found' = [found EXCEPT ![s] = hosts] /\ rows' = hosts
    /\ busy' = BusyMeanwhile
    /\ UNCHANGED <<submits, program, runVars>>

\* Faulty: the page only gives the button back at the end of its try block.
FaultyBusyAfterError == busy
\* finally
BusyAfterError == FALSE

\* The rows stay as they are.
EnrichFails(s) ==
    /\ pc[s] = "enriching" /\ Goto(s, "unresolved")
    /\ busy' = BusyAfterError
    /\ UNCHANGED <<submits, rows, found, program, runVars>>

\* sanitizeDomain, applied to each of a list of discovered hosts.
Sanitized(hosts) == hosts \ Odd

\* handleEnrich: the valid hosts, up to MaxHosts of them.  The order, which says
\* which, is left open.
Accepted(hosts) ==
    kSubset(Min({MaxHosts, Cardinality(Sanitized(hosts))}), Sanitized(hosts))

\* Faulty: the records are added to the pending rows.
FaultyMerged(table, enriched) == table \cup enriched
\* The records replace the pending rows.
Merged(table, enriched) == enriched

\* EnrichHosts was given no sources, and the records have none.
EnrichAnswers(s) ==
    /\ pc[s] = "enriching" /\ Goto(s, "done")
    /\ \E hosts \in Accepted(HostsIn(found[s])) :
         rows' = Merged(rows, {Row(h, {}, FALSE) : h \in hosts})
    /\ busy' = FALSE
    /\ UNCHANGED <<submits, found, program, runVars>>
------------------------------------------------------------------------------
(* Options.Run *)

\* Discover: the sources contribute and settle, and the result is made.
RunDiscovers ==
    /\ program = "run" /\ Discovering!Next
    /\ UNCHANGED <<program, pageVars, records, returned>>

\* The hosts of disc.Hosts: the apex, which is seeded, and what a source found.
DiscHosts == {Apex[ScanDomain]} \cup UNION {report[s].hosts : s \in Sources}

\* Faulty: Run enriches as /api/enrich does, without the sources.
FaultySrcByHost(h) == {}
SrcByHost(h) == {s \in Sources : h \in report[s].hosts}
                \cup {tag \in {"seed"} : h = Apex[ScanDomain]}

\* EnrichHosts makes the record of a host.
RunEnriches ==
    /\ report # <<>> /\ ~returned
    /\ \E h \in DiscHosts \ HostsIn(records) :
         records' = records \cup {Row(h, SrcByHost(h), FALSE)}
    /\ UNCHANGED <<program, pageVars, discoverVars, returned>>

\* All are made: Run returns them with the verdicts of the sources.
RunReturns ==
    /\ report # <<>> /\ ~returned /\ HostsIn(records) = DiscHosts
    /\ returned' = TRUE
    /\ UNCHANGED <<program, pageVars, discoverVars, records>>

DiscoverSettles(s) == DiscoverFails(s) \/ DiscoverAnswers(s)
EnrichSettles(s) == EnrichFails(s) \/ EnrichAnswers(s)

Next == \/ Submit \/ RunDiscovers \/ RunEnriches \/ RunReturns
        \/ \E s \in Submits : DiscoverSettles(s) \/ EnrichSettles(s)

Spec == Init /\ [][Next]_vars

\* A fetch settles: the server answers (Server!WorkIsAnswered), or the
\* connection is closed by the server's write timeout or breaks.
Fairness == \A s \in Submits : WF_vars(DiscoverSettles(s)) /\ WF_vars(EnrichSettles(s))
FairSpec == Spec /\ Fairness
------------------------------------------------------------------------------
Rows == [host : Hosts, sources : SUBSET Tags, pending : BOOLEAN]
TypeOK ==
    /\ submits \in 0..MaxSubmits /\ busy \in BOOLEAN
    /\ rows \subseteq Rows /\ Cardinality(rows) = Cardinality(HostsIn(rows))
    /\ pc \in [Submits -> {"none", "discovering", "enriching", "done", "failed", "unresolved"}]
    /\ found \in [Submits -> SUBSET Rows]
    /\ contrib \in [Sources -> SUBSET Hosts] /\ verdict \in [Sources -> Verdicts \cup {"none"}]
    /\ records \subseteq Rows /\ returned \in BOOLEAN

\* What the page shows is about the last scan asked for, never about one that
\* answers late.  From the first paint on all hosts discovered are shown, also
\* when the second phase fails; when it is done, none is pending, and one that
\* is gone is one that sanitizeDomain rejects or that was cut off at MaxHosts.
PageShowsLastScan == submits > 0 =>
    LET lost == HostsIn(found[submits]) \ HostsIn(rows) IN
    /\ HostsIn(rows) \subseteq HostsIn(found[submits])
    /\ pc[submits] \in {"enriching", "unresolved"} => lost = {}
    /\ pc[submits] = "done" => /\ \A row \in rows : ~row.pending
                               /\ lost \subseteq Odd \/ Cardinality(rows) = MaxHosts

\* The report of Run explains itself: the records that name a source are those
\* of exactly the hosts it had contributed when it settled, and so as many as
\* its status counts; none is there twice and none is missing (scan.go:190-203).
RunCreditsItsSources == returned =>
    /\ Cardinality(records) = Cardinality(HostsIn(records))
    /\ Apex[ScanDomain] \in HostsIn(records)
    /\ \A s \in Sources : {r.host : r \in {x \in records : s \in x.sources}} = contrib[s]
    /\ \A r \in records : r.sources # {}

\* The form can be used again after every scan, however it ends.
FormComesBack == busy ~> ~busy
==============================================================================
