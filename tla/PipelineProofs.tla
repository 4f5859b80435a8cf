--------------------------- MODULE PipelineProofs ---------------------------
(* Type correctness of Pipeline, what the page shows, and what the report of *)
(* Run credits its sources with: for all domains, hosts, sources and numbers *)
(* of submits.                                                               *)
EXTENDS Pipeline, FiniteSetTheorems, TLAPS

\* No host has two rows.
Single(table) == \A x, y \in table : x.host = y.host => x = y

\* At most one handler of the form is under way, that of the last submit, and
\* the button is disabled meanwhile, and then only.
OneAtATime == /\ busy => program = "page" /\ submits > 0 /\ pc[submits] \in {"discovering", "enriching"}
              /\ \A s \in Submits : pc[s] \in {"discovering", "enriching"} => s = submits /\ busy
              /\ submits > 0 => pc[submits] # "none"

\* The table, by how far the last submit has come.
Shown == submits > 0 =>
    /\ pc[submits] \in {"discovering", "failed"} => rows = {}
    /\ pc[submits] \in {"enriching", "unresolved"} => rows = found[submits]
    /\ pc[submits] = "done" => \E hosts \in Accepted(HostsIn(found[submits])) :
           rows = {Row(h, {}, FALSE) : h \in hosts}

Types ==
    /\ submits \in 0..MaxSubmits /\ busy \in BOOLEAN
    /\ rows \subseteq Rows /\ Single(rows)
    /\ pc \in [Submits -> {"none", "discovering", "enriching", "done", "failed", "unresolved"}]
    /\ found \in [Submits -> SUBSET Rows]
    /\ \A s \in Submits : Single(found[s])

RunTypes ==
    /\ contrib \in [Sources -> SUBSET HostsOf[ScanDomain]]
    /\ verdict \in [Sources -> Verdicts \cup {"none"}]
    /\ returned \in BOOLEAN

\* The report holds what the sources, all of which have settled, contributed.
Reporting == report # <<>> => \A s \in Sources :
    verdict[s] # "none" /\ report[s].hosts = contrib[s]

\* Records are made of the report only.
Recorded ==
    /\ report = <<>> => records = {} /\ ~returned
    /\ \A r \in records : r.host \in DiscHosts /\ r = Row(r.host, SrcByHost(r.host), FALSE)
    /\ returned => HostsIn(records) = DiscHosts

PageInv == Types /\ OneAtATime /\ Shown
RunInv == RunTypes /\ Reporting /\ Recorded
Inv == PageInv /\ RunInv
------------------------------------------------------------------------------
LEMMA RowOf == ASSUME NEW h \in Hosts, NEW tags \in SUBSET Tags, NEW p \in BOOLEAN
               PROVE  Row(h, tags, p) \in Rows /\ Row(h, tags, p).host = h
                      /\ Row(h, tags, p).pending = p
BY DEF Row, Rows

LEMMA HostsInHosts == ASSUME NEW table, table \subseteq Rows
                      PROVE  HostsIn(table) \subseteq Hosts /\ IsFiniteSet(HostsIn(table))
<1>1. HostsIn(table) \subseteq Hosts
  BY DEF HostsIn, Rows
<1> QED BY <1>1, FS_Subset, PipelineAssumption DEF PipelineAssumption

\* A table without two rows for a host has as many rows as hosts.
LEMMA SingleCounts ==
    ASSUME NEW table, table \subseteq Rows, Single(table)
    PROVE  Cardinality(table) = Cardinality(HostsIn(table))
<1> DEFINE f == [row \in table |-> row.host]
<1>1. f \in Injection(table, HostsIn(table))
  BY DEF Injection, Single, HostsIn, IsInjective
<1>2. f \in Surjection(table, HostsIn(table))
  BY DEF Surjection, HostsIn
<1> QED BY <1>1, <1>2, HostsInHosts, FS_Injection

\* The rows made of a set of hosts, all alike.
LEMMA RowsOf ==
    ASSUME NEW hosts \in SUBSET Hosts, NEW table, table = {Row(h, {}, FALSE) : h \in hosts}
    PROVE  /\ table \subseteq Rows /\ Single(table) /\ HostsIn(table) = hosts
           /\ \A row \in table : ~row.pending
<1>1. \A h \in hosts : Row(h, {}, FALSE) \in Rows /\ Row(h, {}, FALSE).host = h
                       /\ ~Row(h, {}, FALSE).pending
  BY DEF Row, Rows
<1>2. table \subseteq Rows /\ \A row \in table : ~row.pending
  BY <1>1
<1>3. Single(table)
  <2> SUFFICES ASSUME NEW x \in table, NEW y \in table, x.host = y.host PROVE x = y
    BY DEF Single
  <2>1. PICK h \in hosts, g \in hosts : x = Row(h, {}, FALSE) /\ y = Row(g, {}, FALSE)
    OBVIOUS
  <2> QED BY <1>1, <2>1
<1>4. HostsIn(table) = hosts
  BY <1>1 DEF HostsIn
<1> QED BY <1>2, <1>3, <1>4

\* What /api/enrich accepts is all that is valid, or MaxHosts of it.
LEMMA AcceptedOf ==
    ASSUME NEW S \in SUBSET Hosts, NEW hosts \in Accepted(S)
    PROVE  hosts \subseteq S /\ (S \ hosts \subseteq Odd \/ Cardinality(hosts) = MaxHosts)
<1> DEFINE valid == Sanitized(S)
           n == Cardinality(valid)
<1>1. valid \subseteq S /\ S \ valid \subseteq Odd
  BY DEF Sanitized
<1>2. IsFiniteSet(valid) /\ n \in Nat
  BY <1>1, FS_Subset, FS_CardinalityType, PipelineAssumption DEF PipelineAssumption
<1>3. hosts \subseteq valid /\ Cardinality(hosts) = Min({MaxHosts, n})
  BY DEF Accepted, kSubset
<1>4. Min({MaxHosts, n}) \in {MaxHosts, n}
  BY <1>2, PipelineAssumption DEF Min, PipelineAssumption
<1>5. CASE Cardinality(hosts) = MaxHosts
  BY <1>1, <1>3, <1>5
<1>6. CASE Cardinality(hosts) = n
  <2>1. hosts = valid
    BY <1>2, <1>3, <1>6, FS_Subset
  <2> QED BY <2>1, <1>1
<1> QED BY <1>3, <1>4, <1>5, <1>6

\* What /api/discover answers is a table of hosts of one domain, all pending.
LEMMA DiscoveriesOf ==
    ASSUME NEW d \in Domains, NEW table \in Discoveries(d)
    PROVE  table \subseteq Rows /\ Single(table)
<1>1. PICK others \in SUBSET HostsOf[d], tags \in (SUBSET Sources) \ {{}} :
        table = Discovered(d, others, tags)
  BY DEF Discoveries
<1> DEFINE src(h) == IF h = Apex[d] THEN {"seed"} ELSE tags
<1>2. {Apex[d]} \cup others \subseteq Hosts
  BY PipelineAssumption DEF PipelineAssumption
<1>3. \A h \in {Apex[d]} \cup others : src(h) \in SUBSET Tags
  BY DEF Tags
<1>4. \A h \in {Apex[d]} \cup others : Row(h, src(h), TRUE) \in Rows /\ Row(h, src(h), TRUE).host = h
  BY <1>2, <1>3 DEF Row, Rows
<1>5. table \subseteq Rows
  BY <1>1, <1>4 DEF Discovered
<1>6. Single(table)
  <2> SUFFICES ASSUME NEW x \in table, NEW y \in table, x.host = y.host PROVE x = y
    BY DEF Single
  <2>1. PICK h \in {Apex[d]} \cup others, g \in {Apex[d]} \cup others :
          x = Row(h, src(h), TRUE) /\ y = Row(g, src(g), TRUE)
    BY <1>1 DEF Discovered
  <2> QED BY <1>4, <2>1
<1> QED BY <1>5, <1>6
------------------------------------------------------------------------------
LEMMA Initially == Init => Inv
<1> SUFFICES ASSUME Init PROVE Inv
  OBVIOUS
<1>0. Single({}) /\ submits \in 0..MaxSubmits
  BY PipelineAssumption DEF Init, Single, PipelineAssumption
<1>1. Types
  BY <1>0 DEF Init, Types
<1>2. OneAtATime /\ Shown
  BY DEF Init, OneAtATime, Shown
<1>3. RunTypes /\ Reporting
  BY DEF Init, Discovering!Init, RunTypes, Reporting
<1>4. Recorded
  BY DEF Init, Discovering!Init, Recorded
<1> QED BY <1>1, <1>2, <1>3, <1>4 DEF Inv, PageInv, RunInv

LEMMA SubmitKeeps == ASSUME PageInv, Submit PROVE PageInv'
<1>0. /\ submits \in Nat /\ submits' = submits + 1 /\ submits' \in 1..MaxSubmits
      /\ program' = "page"
      /\ ~busy /\ busy' = TRUE /\ rows' = {} /\ found' = found
      /\ pc' = [pc EXCEPT ![submits'] = "discovering"]
  BY PipelineAssumption DEF PageInv, Types, Submit, Goto, PipelineAssumption
<1>1. Types'
  BY <1>0 DEF PageInv, Types, Single, Submits
<1>2. pc'[submits'] = "discovering" /\ \A s \in Submits \ {submits'} : pc'[s] = pc[s]
  BY <1>0 DEF PageInv, Types, Submits
<1>3. OneAtATime'
  BY <1>0, <1>2 DEF PageInv, OneAtATime
<1>4. Shown'
  BY <1>0, <1>2 DEF Shown
<1> QED BY <1>1, <1>3, <1>4 DEF PageInv

\* A step of a handler is one of the last submit.
LEMMA HandlerIsLast ==
    ASSUME PageInv, NEW s \in Submits, pc[s] \in {"discovering", "enriching"},
           NEW label \in {"enriching", "done", "failed", "unresolved"}, Goto(s, label)
    PROVE  /\ s = submits /\ submits > 0 /\ busy
           /\ pc' \in [Submits -> {"none", "discovering", "enriching", "done", "failed", "unresolved"}]
           /\ pc'[s] = label /\ \A q \in Submits \ {s} : pc'[q] = pc[q]
           /\ \A q \in Submits : pc'[q] \in {"discovering", "enriching"}
                                     => q = s /\ label = "enriching"
BY DEF PageInv, Types, OneAtATime, Goto, Submits

LEMMA DiscoverFailsKeeps == ASSUME PageInv, NEW s \in Submits, DiscoverFails(s) PROVE PageInv'
<1>0. /\ pc[s] = "discovering" /\ Goto(s, "failed") /\ busy' = FALSE
      /\ UNCHANGED <<submits, rows, found>>
  BY DEF DiscoverFails
<1>1. /\ s = submits /\ pc'[s] = "failed"
      /\ pc' \in [Submits -> {"none", "discovering", "enriching", "done", "failed", "unresolved"}]
      /\ \A q \in Submits : pc'[q] \notin {"discovering", "enriching"}
  BY <1>0, HandlerIsLast
<1>2. Types'
  BY <1>0, <1>1 DEF PageInv, Types, Single
<1>3. OneAtATime'
  BY <1>0, <1>1 DEF OneAtATime
<1>4. rows = {}
  BY <1>0, <1>1, HandlerIsLast DEF PageInv, Shown
<1>5. Shown'
  BY <1>0, <1>1, <1>4 DEF Shown
<1> QED BY <1>2, <1>3, <1>5 DEF PageInv

LEMMA DiscoverAnswersKeeps == ASSUME PageInv, NEW s \in Submits, DiscoverAnswers(s) PROVE PageInv'
<1>0. /\ pc[s] = "discovering" /\ Goto(s, "enriching") /\ busy' = busy
      /\ UNCHANGED <<submits, program>>
  BY DEF DiscoverAnswers, BusyMeanwhile
<1>1. PICK d \in Domains : \E hosts \in Discoveries(d) :
        found' = [found EXCEPT ![s] = hosts] /\ rows' = hosts
  BY DEF DiscoverAnswers
<1>2. PICK hosts \in Discoveries(d) : found' = [found EXCEPT ![s] = hosts] /\ rows' = hosts
  BY <1>1
<1>3. hosts \subseteq Rows /\ Single(hosts)
  BY DiscoveriesOf
<1>4. /\ s = submits /\ submits > 0 /\ pc'[s] = "enriching" /\ busy
      /\ pc' \in [Submits -> {"none", "discovering", "enriching", "done", "failed", "unresolved"}]
      /\ \A q \in Submits : pc'[q] \in {"discovering", "enriching"} => q = s
  BY <1>0, HandlerIsLast
<1>5. found \in [Submits -> SUBSET Rows] /\ \A q \in Submits : Single(found[q])
  BY DEF PageInv, Types
<1>6. /\ found' \in [Submits -> SUBSET Rows] /\ found'[s] = hosts
      /\ \A q \in Submits : Single(found'[q])
  BY <1>2, <1>3, <1>5
<1>7. Types'
  BY <1>0, <1>2, <1>3, <1>4, <1>6 DEF PageInv, Types, Single
<1>8. OneAtATime'
  BY <1>0, <1>4 DEF PageInv, OneAtATime
<1>9. Shown'
  BY <1>0, <1>2, <1>4, <1>6 DEF Shown
<1> QED BY <1>7, <1>8, <1>9 DEF PageInv

LEMMA EnrichFailsKeeps == ASSUME PageInv, NEW s \in Submits, EnrichFails(s) PROVE PageInv'
<1>0. /\ pc[s] = "enriching" /\ Goto(s, "unresolved") /\ busy' = FALSE
      /\ UNCHANGED <<submits, rows, found>>
  BY DEF EnrichFails, BusyAfterError
<1>1. /\ s = submits /\ submits > 0 /\ pc'[s] = "unresolved"
      /\ pc' \in [Submits -> {"none", "discovering", "enriching", "done", "failed", "unresolved"}]
      /\ \A q \in Submits : pc'[q] \notin {"discovering", "enriching"}
  BY <1>0, HandlerIsLast
<1>2. Types'
  BY <1>0, <1>1 DEF PageInv, Types, Single
<1>3. OneAtATime'
  BY <1>0, <1>1 DEF OneAtATime
<1>4. rows = found[submits]
  BY <1>0, <1>1 DEF PageInv, Shown
<1>5. Shown'
  BY <1>0, <1>1, <1>4 DEF Shown
<1> QED BY <1>2, <1>3, <1>5 DEF PageInv

LEMMA EnrichAnswersKeeps == ASSUME PageInv, NEW s \in Submits, EnrichAnswers(s) PROVE PageInv'
<1>0. /\ pc[s] = "enriching" /\ Goto(s, "done") /\ busy' = FALSE
      /\ UNCHANGED <<submits, found>>
  BY DEF EnrichAnswers
<1>1. PICK hosts \in Accepted(HostsIn(found[s])) : rows' = {Row(h, {}, FALSE) : h \in hosts}
  BY DEF EnrichAnswers, Merged
<1>2. HostsIn(found[s]) \in SUBSET Hosts
  BY HostsInHosts DEF PageInv, Types
<1>3. hosts \in SUBSET Hosts
  BY <1>1, <1>2, AcceptedOf
<1>4. rows' \subseteq Rows /\ Single(rows')
  BY <1>1, <1>3, RowsOf
<1>5. /\ s = submits /\ pc'[s] = "done"
      /\ pc' \in [Submits -> {"none", "discovering", "enriching", "done", "failed", "unresolved"}]
      /\ \A q \in Submits : pc'[q] \notin {"discovering", "enriching"}
  BY <1>0, HandlerIsLast
<1>6. Types'
  BY <1>0, <1>4, <1>5 DEF PageInv, Types, Single
<1>7. OneAtATime'
  BY <1>0, <1>5 DEF OneAtATime
<1>8. Shown'
  BY <1>0, <1>1, <1>5 DEF Shown
<1> QED BY <1>6, <1>7, <1>8 DEF PageInv

LEMMA PageStutters == ASSUME PageInv, UNCHANGED <<program, pageVars>> PROVE PageInv'
BY DEF PageInv, Types, OneAtATime, Shown, Single, pageVars
------------------------------------------------------------------------------
LEMMA RunDiscoversKeeps == ASSUME RunInv, RunDiscovers PROVE RunInv'
<1>0. /\ records' = records /\ returned' = returned /\ Discovering!Next
      /\ RunTypes /\ Reporting /\ Recorded
  BY DEF RunInv, RunDiscovers
<1>1. ASSUME NEW s \in Sources, NEW h \in HostsOf[ScanDomain], Discovering!Contribute(s, h)
      PROVE  RunInv'
  <2>1. /\ verdict[s] = "none" /\ contrib' = [contrib EXCEPT ![s] = @ \cup {h}]
        /\ verdict' = verdict /\ report' = report
    BY <1>1 DEF Discovering!Contribute
  <2>2. report = <<>>
    BY <2>1, <1>0 DEF Reporting
  <2>3. RunTypes'
    BY <1>0, <2>1 DEF RunTypes
  <2>4. Reporting' /\ Recorded'
    BY <1>0, <2>1, <2>2 DEF Reporting, Recorded
  <2> QED BY <2>3, <2>4 DEF RunInv
<1>2. ASSUME NEW s \in Sources, NEW v \in Verdicts, Discovering!Settle(s, v)
      PROVE  RunInv'
  <2>1. /\ verdict[s] = "none" /\ verdict' = [verdict EXCEPT ![s] = v]
        /\ contrib' = contrib /\ report' = report
    BY <1>2 DEF Discovering!Settle
  <2>2. report = <<>>
    BY <2>1, <1>0 DEF Reporting
  <2>3. RunTypes'
    BY <1>0, <2>1 DEF RunTypes
  <2>4. Reporting' /\ Recorded'
    BY <1>0, <2>1, <2>2 DEF Reporting, Recorded
  <2> QED BY <2>3, <2>4 DEF RunInv
<1>3. CASE Discovering!Publish
  <2>1. /\ report = <<>> /\ \A s \in Sources : verdict[s] # "none"
        /\ report' = [s \in Sources |-> [state |-> verdict[s], hosts |-> contrib[s]]]
        /\ contrib' = contrib /\ verdict' = verdict
    BY <1>3 DEF Discovering!Publish
  <2>2. records = {} /\ ~returned
    BY <1>0, <2>1 DEF Recorded
  <2>3. RunTypes' /\ Reporting'
    BY <1>0, <2>1 DEF RunTypes, Reporting
  <2>4. Recorded'
    BY <1>0, <2>2 DEF Recorded
  <2> QED BY <2>3, <2>4 DEF RunInv
<1> QED BY <1>0, <1>1, <1>2, <1>3 DEF Discovering!Next

LEMMA RunEnrichesKeeps == ASSUME RunInv, RunEnriches PROVE RunInv'
<1>1. PICK h \in DiscHosts \ HostsIn(records) :
        records' = records \cup {Row(h, SrcByHost(h), FALSE)}
  BY DEF RunEnriches
<1>2. /\ report # <<>> /\ ~returned /\ returned' = returned
      /\ UNCHANGED <<contrib, verdict, report>> /\ RunTypes /\ Reporting /\ Recorded
  BY DEF RunEnriches, RunInv, discoverVars
<1>3. RunTypes' /\ Reporting'
  BY <1>2 DEF RunTypes, Reporting
<1>4. DiscHosts' = DiscHosts /\ \A x : SrcByHost(x)' = SrcByHost(x)
  BY <1>2 DEF DiscHosts, SrcByHost
<1>5. Row(h, SrcByHost(h), FALSE).host = h
  BY DEF Row
<1>6. \A r \in records' : r.host \in DiscHosts /\ r = Row(r.host, SrcByHost(r.host), FALSE)
  BY <1>1, <1>2, <1>5 DEF Recorded
<1>7. Recorded'
  BY <1>2, <1>4, <1>6 DEF Recorded, SrcByHost
<1> QED BY <1>3, <1>7 DEF RunInv

LEMMA RunReturnsKeeps == ASSUME RunInv, RunReturns PROVE RunInv'
<1>1. /\ report # <<>> /\ HostsIn(records) = DiscHosts /\ returned' = TRUE
      /\ UNCHANGED <<contrib, verdict, report, records>> /\ RunTypes /\ Reporting /\ Recorded
  BY DEF RunReturns, RunInv, discoverVars
<1>2. RunTypes' /\ Reporting'
  BY <1>1 DEF RunTypes, Reporting
<1>3. Recorded'
  BY <1>1 DEF Recorded, DiscHosts, SrcByHost, HostsIn
<1> QED BY <1>2, <1>3 DEF RunInv

LEMMA RunStutters == ASSUME RunInv, UNCHANGED runVars PROVE RunInv'
BY DEF RunInv, RunTypes, Reporting, Recorded, DiscHosts, SrcByHost, HostsIn, runVars, discoverVars

LEMMA Inductive == Inv /\ [Next]_vars => Inv'
<1> SUFFICES ASSUME Inv, [Next]_vars PROVE Inv'
  OBVIOUS
<1>0. PageInv /\ RunInv
  BY DEF Inv
<1>1. CASE Submit
  BY <1>0, <1>1, SubmitKeeps, RunStutters DEF Submit, Inv
<1>2. ASSUME NEW s \in Submits, DiscoverSettles(s) \/ EnrichSettles(s) PROVE Inv'
  <2>1. PageInv'
    BY <1>0, <1>2, DiscoverFailsKeeps, DiscoverAnswersKeeps, EnrichFailsKeeps, EnrichAnswersKeeps
    DEF DiscoverSettles, EnrichSettles
  <2>2. UNCHANGED runVars
    BY <1>2 DEF DiscoverSettles, EnrichSettles, DiscoverFails, DiscoverAnswers, EnrichFails, EnrichAnswers
  <2> QED BY <1>0, <2>1, <2>2, RunStutters DEF Inv
<1>3. CASE RunDiscovers
  BY <1>0, <1>3, RunDiscoversKeeps, PageStutters DEF RunDiscovers, Inv
<1>4. CASE RunEnriches
  BY <1>0, <1>4, RunEnrichesKeeps, PageStutters DEF RunEnriches, Inv
<1>5. CASE RunReturns
  BY <1>0, <1>5, RunReturnsKeeps, PageStutters DEF RunReturns, Inv
<1>6. CASE UNCHANGED vars
  BY <1>0, <1>6, RunStutters, PageStutters DEF vars, Inv
<1> QED BY <1>1, <1>2, <1>3, <1>4, <1>5, <1>6 DEF Next

LEMMA InvHolds == Spec => []Inv
BY Initially, Inductive, PTL DEF Spec
------------------------------------------------------------------------------
LEMMA DiscHostsOf == ASSUME Inv, report # <<>>
                     PROVE  DiscHosts \subseteq Hosts
<1>1. \A s \in Sources : report[s].hosts \subseteq HostsOf[ScanDomain]
  BY DEF Inv, RunInv, RunTypes, Reporting
<1> QED BY <1>1, PipelineAssumption DEF DiscHosts, PipelineAssumption

LEMMA RecordsOf == ASSUME Inv PROVE records \subseteq Rows /\ Single(records)
<1>1. CASE report = <<>>
  BY <1>1 DEF Inv, RunInv, Recorded, Single
<1>2. CASE report # <<>>
  <2>1. \A r \in records : r.host \in Hosts /\ r = Row(r.host, SrcByHost(r.host), FALSE)
    BY <1>2, DiscHostsOf DEF Inv, RunInv, Recorded
  <2>2. \A h : SrcByHost(h) \in SUBSET Tags
    BY DEF SrcByHost, Tags
  <2>3. records \subseteq Rows
    <3> SUFFICES ASSUME NEW r \in records PROVE r \in Rows
      OBVIOUS
    <3>1. Row(r.host, SrcByHost(r.host), FALSE) \in Rows
      BY <2>1, <2>2, RowOf
    <3> QED BY <3>1, <2>1
  <2>4. Single(records)
    BY <2>1, Zenon DEF Single
  <2> QED BY <2>3, <2>4
<1> QED BY <1>1, <1>2

\* Types: the page never has two rows for a host, nor Run two records, though
\* both are put together from two answers (index.html:122-162, scan.go:54-69).
THEOREM TypesHold == Spec => []TypeOK
<1>1. Inv => TypeOK
  <2> SUFFICES ASSUME Inv PROVE TypeOK
    OBVIOUS
  <2>1. Cardinality(rows) = Cardinality(HostsIn(rows)) /\ records \subseteq Rows
    BY SingleCounts, RecordsOf DEF Inv, PageInv, Types
  <2>2. contrib \in [Sources -> SUBSET Hosts]
    BY PipelineAssumption DEF Inv, RunInv, RunTypes, PipelineAssumption
  <2> QED BY <2>1, <2>2 DEF Inv, PageInv, RunInv, Types, RunTypes, TypeOK
<1> QED BY <1>1, InvHolds, PTL

\* The page is about the last scan asked for: no late answer of an earlier one
\* shows, no host is lost before the second phase has answered, and after it
\* only those the server refused (index.html:106-168, main.go:330-350).
THEOREM PageShowsLastScanHolds == Spec => []PageShowsLastScan
<1>1. Inv => PageShowsLastScan
  <2> SUFFICES ASSUME Inv, submits > 0 PROVE PageShowsLastScan
    BY DEF PageShowsLastScan
  <2> DEFINE first == HostsIn(found[submits])
  <2>0. /\ submits \in Submits /\ rows \subseteq Rows /\ Shown
        /\ pc[submits] \in {"discovering", "enriching", "done", "failed", "unresolved"}
        /\ found[submits] \subseteq Rows
    BY DEF Inv, PageInv, Types, OneAtATime, Submits
  <2>1. CASE pc[submits] \in {"discovering", "failed"}
    BY <2>0, <2>1 DEF Shown, PageShowsLastScan, HostsIn
  <2>2. CASE pc[submits] \in {"enriching", "unresolved"}
    BY <2>0, <2>2 DEF Shown, PageShowsLastScan
  <2>3. CASE pc[submits] = "done"
    <3>1. PICK hosts \in Accepted(first) : rows = {Row(h, {}, FALSE) : h \in hosts}
      BY <2>0, <2>3 DEF Shown
    <3>2. first \in SUBSET Hosts
      BY <2>0, HostsInHosts
    <3>3. hosts \subseteq first /\ (first \ hosts \subseteq Odd \/ Cardinality(hosts) = MaxHosts)
      BY <3>1, <3>2, AcceptedOf
    <3>4. /\ Single(rows) /\ HostsIn(rows) = hosts
          /\ \A row \in rows : ~row.pending
      BY <3>1, <3>2, <3>3, RowsOf
    <3>5. Cardinality(rows) = Cardinality(hosts)
      BY <2>0, <3>4, SingleCounts
    <3> QED BY <2>3, <3>3, <3>4, <3>5 DEF PageShowsLastScan
  <2> QED BY <2>0, <2>1, <2>2, <2>3
<1> QED BY <1>1, InvHolds, PTL

\* The report of Run explains itself: the records that name a source are those
\* of exactly the hosts it contributed, one each (scan.go:54-69, 190-203).
THEOREM RunCreditsItsSourcesHolds == Spec => []RunCreditsItsSources
<1>1. Inv => RunCreditsItsSources
  <2> SUFFICES ASSUME Inv, returned PROVE RunCreditsItsSources
    BY DEF RunCreditsItsSources
  <2>0. /\ report # <<>> /\ HostsIn(records) = DiscHosts /\ Reporting
        /\ \A r \in records : r.host \in DiscHosts /\ r = Row(r.host, SrcByHost(r.host), FALSE)
    BY DEF Inv, RunInv, Recorded
  <2>1. \A r \in records : r.sources = SrcByHost(r.host)
    BY <2>0 DEF Row
  <2>2. Cardinality(records) = Cardinality(HostsIn(records))
    BY RecordsOf, SingleCounts
  <2>3. Apex[ScanDomain] \in HostsIn(records)
    BY <2>0 DEF DiscHosts
  <2>4. ASSUME NEW s \in Sources
        PROVE  {r.host : r \in {x \in records : s \in x.sources}} = contrib[s]
    <3>1. report[s].hosts = contrib[s] /\ s # "seed"
      BY <2>0, PipelineAssumption DEF Reporting, PipelineAssumption
    <3>2. \A h : s \in SrcByHost(h) <=> h \in contrib[s]
      BY <3>1 DEF SrcByHost
    <3>3. \A h \in contrib[s] : \E r \in records : r.host = h
      BY <2>0, <3>1 DEF DiscHosts, HostsIn
    <3> QED BY <2>1, <3>2, <3>3
  <2>5. ASSUME NEW r \in records PROVE r.sources # {}
    <3>1. CASE r.host = Apex[ScanDomain]
      BY <2>1, <3>1 DEF SrcByHost
    <3>2. CASE r.host # Apex[ScanDomain]
      <4>1. PICK s \in Sources : r.host \in report[s].hosts
        BY <2>0, <3>2 DEF DiscHosts
      <4> QED BY <2>1, <4>1 DEF SrcByHost
    <3> QED BY <3>1, <3>2
  <2> QED BY <2>2, <2>3, <2>4, <2>5 DEF RunCreditsItsSources
<1> QED BY <1>1, InvHolds, PTL
------------------------------------------------------------------------------
\* The fetches the page still waits for before its button comes back.
FetchesAhead == CASE busy /\ pc[submits] = "discovering" -> 2
                  [] busy /\ pc[submits] = "enriching" -> 1
                  [] OTHER -> 0

\* The button is disabled only while the handler of the last submit waits for a
\* fetch, and each step there is meanwhile is the end of one.  So the form is
\* back after two of them at the latest, whatever becomes of them, if only a
\* fetch ends (index.html:110, 163-167).
FormConverges ==
    /\ [](busy => submits \in Submits /\ pc[submits] \in {"discovering", "enriching"})
    /\ [][busy => /\ DiscoverSettles(submits) \/ EnrichSettles(submits)
                  /\ FetchesAhead' < FetchesAhead]_vars

\* Run is not started by the page.
OnlyRunReports == report # <<>> => program = "run"

LEMMA OnlyRunReportsHolds == Spec => []OnlyRunReports
<1>1. Init => OnlyRunReports
  BY DEF Init, Discovering!Init, OnlyRunReports
<1>2. ASSUME OnlyRunReports, [Next]_vars PROVE OnlyRunReports'
  <2>1. program' = program /\ (report' = report \/ program = "run")
    BY <1>2 DEF Next, vars, runVars, discoverVars, Submit, RunDiscovers, RunEnriches, RunReturns,
       DiscoverSettles, EnrichSettles, DiscoverFails, DiscoverAnswers, EnrichFails, EnrichAnswers
  <2> QED BY <1>2, <2>1 DEF OnlyRunReports
<1> QED BY <1>1, <1>2, PTL DEF Spec

\* No way through the submit handler leaves the form unusable, for all domains,
\* answers and numbers of submits: FormComesBack but for the fairness of fetches.
THEOREM FormConvergesHolds == Spec => FormConverges
<1>1. ASSUME Inv
      PROVE  busy => submits \in Submits /\ pc[submits] \in {"discovering", "enriching"}
  BY <1>1, PipelineAssumption
  DEF Inv, PageInv, Types, OneAtATime, Submits, PipelineAssumption
<1>2. ASSUME Inv, OnlyRunReports, [Next]_vars
      PROVE  [busy => /\ DiscoverSettles(submits) \/ EnrichSettles(submits)
                      /\ FetchesAhead' < FetchesAhead]_vars
  <2> SUFFICES ASSUME Next, busy
               PROVE  /\ DiscoverSettles(submits) \/ EnrichSettles(submits)
                      /\ FetchesAhead' < FetchesAhead
    BY <1>2
  <2>0. PageInv /\ program = "page" /\ report = <<>>
    BY <1>2 DEF Inv, PageInv, OneAtATime, OnlyRunReports
  <2>1. PICK s \in Submits : DiscoverSettles(s) \/ EnrichSettles(s)
    BY <2>0 DEF Next, Submit, RunDiscovers, RunEnriches, RunReturns
  <2>2. CASE DiscoverFails(s) \/ EnrichSettles(s)
    <3>1. /\ pc[s] \in {"discovering", "enriching"} /\ ~busy'
      BY <2>2 DEF DiscoverFails, EnrichSettles, EnrichFails, EnrichAnswers, BusyAfterError
    <3>2. s = submits
      BY <2>0, <3>1 DEF PageInv, OneAtATime
    <3>3. FetchesAhead \in {1, 2} /\ FetchesAhead' = 0
      BY <3>1, <3>2 DEF FetchesAhead
    <3> QED BY <2>1, <3>2, <3>3
  <2>3. CASE DiscoverAnswers(s)
    <3>1. /\ pc[s] = "discovering" /\ Goto(s, "enriching") /\ submits' = submits
      BY <2>3 DEF DiscoverAnswers
    <3>2. s = submits /\ pc'[s] = "enriching"
      BY <2>0, <3>1, HandlerIsLast
    <3>3. FetchesAhead = 2 /\ FetchesAhead' \in {0, 1}
      BY <3>1, <3>2 DEF FetchesAhead
    <3> QED BY <2>1, <3>2, <3>3
  <2> QED BY <2>1, <2>2, <2>3 DEF DiscoverSettles
<1> QED BY <1>1, <1>2, InvHolds, OnlyRunReportsHolds, PTL DEF Spec, FormConverges
==============================================================================
