----------------------------- MODULE Enrichment -----------------------------
(***************************************************************************)
(* scan.Options.EnrichHosts (internal/scan/scan.go): a pool of workers fed *)
(* through an unbuffered channel.  For each host a worker sends the DNS    *)
(* queries concurrently and joins them (dnsx.Resolver.Enrich), asks for    *)
(* the owner of every address concurrently and joins those (rdap.IP), then *)
(* checks for a dangling CNAME (takeover.Check) and appends the record to  *)
(* the shared slice under a mutex.                                         *)
(*                                                                         *)
(* A query's answer is the set of its strings: IP addresses, and the       *)
(* targets of CNAME records, which a resolver puts in the answer to an     *)
(* address query as well.  The MX, NS and TXT queries, which run alongside *)
(* and decide nothing here, are left out.                                  *)
(***************************************************************************)
EXTENDS Naturals, FiniteSets, Sequences

CONSTANTS
    NHosts,       \* the length of the host list, in which a host may recur
    Workers,      \* the goroutines of the pool; 50 or 60 of them in the code
    IPs,          \* addresses
    Targets,      \* CNAME targets
    Service,      \* the targets that match a fingerprint
    Dangling,     \* the targets that do not exist
    AddrTypes,    \* the address queries: {"A", "AAAA"}, or one of them
    EnableOwner, EnableTakeover,
    QueriesFail,  \* whether a DNS query can fail while the context is live
    CtxCauses     \* how the caller's context can end

Jobs == 1..NHosts
Strings == IPs \cup Targets
QTypes == AddrTypes \cup {"CNAME"}

ASSUME EnrichmentAssumption ==
    /\ NHosts \in Nat
    /\ Workers # {}
    /\ IPs \cap Targets = {} /\ "none" \notin Targets
    /\ Service \subseteq Targets /\ Dangling \subseteq Targets
    /\ AddrTypes \subseteq {"A", "AAAA"} /\ QTypes \cap Strings = {}
    /\ {EnableOwner, EnableTakeover, QueriesFail} \subseteq BOOLEAN
    /\ CtxCauses \subseteq {"deadline", "canceled"}

VARIABLES
    ctx,      \* the caller's context: "live", or why it ended
    main,     \* EnrichHosts: "sending", "waiting" for its pool, "returned"
    next,     \* the loop over hosts: the next position to send
    stage,    \* stage[k]: what worker k is doing
    open,     \* open[k]: the queries and owner lookups of k that are under way
    rec,      \* rec[k]: the record k is filling in
    results   \* the shared slice
vars == <<ctx, main, next, stage, open, rec, results>>

(* A record: the position it is for; the strings of each DNS field; whether *)
(* it is Resolved; the addresses whose owner was found, or (a history field *)
(* that the code has not) was not; and the takeover finding.                *)
NoFinding == [target |-> "none", dangling |-> FALSE]
Blank(j) == [job |-> j, dns |-> [t \in QTypes |-> {}], resolved |-> FALSE,
             owners |-> {}, refused |-> {}, takeover |-> NoFinding]
Records == [job : 0..NHosts, dns : [QTypes -> SUBSET Strings], resolved : BOOLEAN,
            owners : SUBSET Strings, refused : SUBSET Strings,
            takeover : [target : Service \cup {"none"}, dangling : BOOLEAN]]

\* append(rec.A, rec.AAAA...): everything the owner lookups are made for.  The
\* list has a string of two answers twice; whether a lookup is made once or
\* twice for it decides nothing.
Addresses(r) == UNION {r.dns[t] : t \in AddrTypes}

Init ==
    /\ ctx = "live"
    /\ main = "sending" /\ next = 1
    /\ stage = [k \in Workers |-> "idle"]
    /\ open = [k \in Workers |-> {}]
    /\ rec = [k \in Workers |-> Blank(0)]
    /\ results = <<>>
------------------------------------------------------------------------------
CtxEnds(cause) ==
    /\ ctx = "live" /\ main # "returned"
    /\ ctx' = cause
    /\ UNCHANGED <<main, next, stage, open, rec, results>>

Goto(k, s) == stage' = [stage EXCEPT ![k] = s]

\* Faulty: the loop runs one index too far.
FaultyMore == next <= NHosts + 1
More == next <= NHosts

\* Faulty: the queries are made under a context of their own.
FaultyQueriesOut == QTypes
\* The queries of dnsx.Resolver.query that go out: under a context that has
\* ended none does, and each hands over nothing at once.
QueriesOut == IF ctx = "live" THEN QTypes ELSE {}

\* recCh <- meets a worker's receive.  The loop does not consult the context.
Send(k) ==
    /\ main = "sending" /\ More
    /\ stage[k] = "idle" /\ Goto(k, "dns")
    /\ next' = next + 1
    /\ rec' = [rec EXCEPT ![k] = Blank(next)]
    /\ open' = [open EXCEPT ![k] = QueriesOut]
    /\ UNCHANGED <<ctx, main, results>>

\* close(recCh)
Close ==
    /\ main = "sending" /\ ~More
    /\ main' = "waiting"
    /\ UNCHANGED <<ctx, next, stage, open, rec, results>>

\* What a query that went out can hand over, at the latest when its context
\* ends.  A failed one hands over nothing.
Answer(t) == IF t = "CNAME" THEN SUBSET Targets ELSE SUBSET Strings

\* One query goroutine of Enrich stores its answer, whatever k is doing.
QueryEnds(k, t) ==
    /\ t \in open[k]
    /\ \E answer \in Answer(t) : rec' = [rec EXCEPT ![k].dns[t] = answer]
    /\ open' = [open EXCEPT ![k] = @ \ {t}]
    /\ UNCHANGED <<ctx, main, next, stage, results>>

\* Faulty: Enrich goes on after the first answer.
FaultyJoined(k) == open[k] # QTypes
\* wg.Wait and owg.Wait: nothing worker k has started is still open.
Joined(k) == open[k] = {}

\* Enrich merges the CNAMEs of the address answers and sets Resolved.
Merged(r) ==
    [r EXCEPT !.dns["CNAME"] = @ \cup (Addresses(r) \cap Targets),
              !.resolved = \E t \in QTypes : r.dns[t] # {}]

\* The queries are joined; the owner lookups start.
DnsJoins(k) ==
    /\ stage[k] = "dns" /\ Joined(k) /\ Goto(k, "owner")
    /\ rec' = [rec EXCEPT ![k] = Merged(@)]
    /\ open' = [open EXCEPT ![k] = @ \cup IF EnableOwner THEN Addresses(rec[k]) ELSE {}]
    /\ UNCHANGED <<ctx, main, next, results>>

\* rdap.IP answers for one address, from its cache or from upstream, or fails.
OwnerEnds(k, addr) ==
    /\ stage[k] = "owner" /\ addr \in open[k]
    /\ \/ rec' = [rec EXCEPT ![k].owners = @ \cup {addr}]
       \/ rec' = [rec EXCEPT ![k].refused = @ \cup {addr}]
    /\ open' = [open EXCEPT ![k] = @ \ {addr}]
    /\ UNCHANGED <<ctx, main, next, stage, results>>

OwnersJoin(k) ==
    /\ stage[k] = "owner" /\ Joined(k)
    /\ Goto(k, IF EnableTakeover THEN "takeover" ELSE "append")
    /\ UNCHANGED <<ctx, main, next, open, rec, results>>

\* takeover.Check: the first CNAME with a fingerprint decides, and the order
\* is the upstream's.  Under a context that has ended its target is taken to
\* dangle at once.
CheckTakeover(k) ==
    LET candidates == rec[k].dns["CNAME"] \cap Service IN
    /\ stage[k] = "takeover"
    /\ \/ candidates = {} /\ UNCHANGED rec /\ Goto(k, "append")
       \/ /\ \E target \in candidates :
               rec' = [rec EXCEPT ![k].takeover = [target |-> target, dangling |-> TRUE]]
          /\ Goto(k, IF ctx = "live" THEN "exists" ELSE "append")
    /\ UNCHANGED <<ctx, main, next, open, results>>

\* What Resolver.Exists can say of a target it was asked about in time.
Lookups(target) == {target \notin Dangling} \cup {e \in {FALSE} : QueriesFail \/ ctx # "live"}

\* Its queries have ended.
ExistsEnds(k) ==
    /\ stage[k] = "exists" /\ Goto(k, "append")
    /\ \E exists \in Lookups(rec[k].takeover.target) :
         rec' = [rec EXCEPT ![k].takeover.dangling = ~exists]
    /\ UNCHANGED <<ctx, main, next, open, results>>

\* Under the results mutex, then back to the channel.
AppendRecord(k) ==
    /\ stage[k] = "append" /\ Goto(k, "idle")
    /\ results' = Append(results, rec[k])
    /\ UNCHANGED <<ctx, main, next, open, rec>>

\* Faulty: the channel is never closed.
FaultyClosed == FALSE
\* Close comes right after the last send.
Closed == main # "sending"

\* The range over the closed channel ends.
Exit(k) ==
    /\ stage[k] = "idle" /\ Closed /\ Goto(k, "exited")
    /\ UNCHANGED <<ctx, main, next, open, rec, results>>

\* Faulty: the pool is taken to be done when no worker is at work on a host.
FaultyPoolDone == \A k \in Workers : stage[k] \in {"idle", "append", "exited"}
\* ewg.Wait lets go.
PoolDone == \A k \in Workers : stage[k] = "exited"

\* The slice is sorted by host and becomes the report.
Return ==
    /\ main = "waiting" /\ PoolDone
    /\ main' = "returned"
    /\ UNCHANGED <<ctx, next, stage, open, rec, results>>

WorkerStep(k) ==
    \/ \E t \in QTypes : QueryEnds(k, t)
    \/ \E addr \in Strings : OwnerEnds(k, addr)
    \/ DnsJoins(k) \/ OwnersJoin(k) \/ CheckTakeover(k) \/ ExistsEnds(k)
    \/ AppendRecord(k) \/ Exit(k)

Next == \/ \E cause \in CtxCauses : CtxEnds(cause)
        \/ Close \/ Return
        \/ \E k \in Workers : Send(k) \/ WorkerStep(k)

Spec == Init /\ [][Next]_vars

\* Goroutines that can run do; a query and an owner lookup end, at the latest
\* by the timeout of their client (resolver.go:60 and 64, rdap.go:26).
Fairness == /\ WF_vars(Close \/ Return \/ \E k \in Workers : Send(k))
            /\ \A k \in Workers : WF_vars(WorkerStep(k))
FairSpec == Spec /\ Fairness
------------------------------------------------------------------------------
Stages == {"idle", "dns", "owner", "takeover", "exists", "append", "exited"}

TypeOK ==
    /\ ctx \in {"live"} \cup CtxCauses
    /\ main \in {"sending", "waiting", "returned"}
    /\ next \in 1..NHosts + 1
    /\ stage \in [Workers -> Stages]
    /\ open \in [Workers -> SUBSET (QTypes \cup Strings)]
    /\ rec \in [Workers -> Records]
    /\ results \in Seq(Records)

Reported == {results[i] : i \in DOMAIN results}

\* The owners of a record are those of its own addresses, and an address has
\* none only because its lookup failed: nothing is lost in the fan-out.
OwnersAccounted == EnableOwner =>
    \A r \in Reported : r.owners \cup r.refused = Addresses(r)

\* Resolved and the takeover finding follow from the whole CNAME chain: a
\* record with a CNAME to a known service, wherever the answer had it, has a
\* finding, and a finding names a CNAME of the record.
FindingFollowsChain == \A r \in Reported :
    /\ r.resolved <=> \E t \in QTypes : r.dns[t] # {}
    /\ r.takeover = NoFinding <=>
         ~EnableTakeover \/ \A t \in QTypes : r.dns[t] \cap Service = {}
    /\ r.takeover # NoFinding => r.takeover.target \in r.dns["CNAME"]

\* The positions of hosts flagged vulnerable for a target that exists.
FalseAlarms == {results[i].job : i \in {n \in DOMAIN results :
    results[n].takeover.dangling /\ results[n].takeover.target \notin Dangling}}

\* Where no query fails but by the end of the context, it is only the hosts in
\* the workers' hands at that moment that can be flagged for a target that
\* exists: none is before, and none that is sent later ever will be, although
\* its lookups all fail (resolver.go:161, takeover.go:79).
FalseAlarmsAreOfTheEnd == ~QueriesFail =>
    /\ [](ctx = "live" => FalseAlarms = {})
    /\ \A j \in Jobs : [](ctx # "live" /\ next <= j => [](j \notin FalseAlarms))

\* EnrichHosts implements EnrichAbs: one record for every position of the
\* list, however its workers interleave and whenever the context ends.
Abs == INSTANCE EnrichAbs WITH
    records <- [j \in Jobs |-> Cardinality({i \in DOMAIN results : results[i].job = j})],
    reported <- main = "returned"
OneRecordEach == Abs!Spec

\* EnrichHosts returns, even when the context never ends.
EnrichEnds == <>(main = "returned")
==============================================================================
