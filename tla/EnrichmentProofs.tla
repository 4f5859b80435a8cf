--------------------------- MODULE EnrichmentProofs ---------------------------
(***************************************************************************)
(* Proofs about Enrichment for every host list, pool, answer and end of    *)
(* the context.                                                            *)
(***************************************************************************)
EXTENDS EnrichmentProgress, FiniteSetTheorems, SequenceTheorems, TLAPS

(* The records, one predicate for each thing said of them *)

Accounted(r) == EnableOwner => r.owners \cup r.refused = Addresses(r)

\* What the merge has established.
Chained(r) ==
    /\ r.resolved <=> \E t \in QTypes : r.dns[t] # {}
    /\ \A t \in QTypes : r.dns[t] \cap Targets \subseteq r.dns["CNAME"]

\* What the takeover check has.
Checked(r) ==
    /\ r.takeover = NoFinding <=> ~EnableTakeover \/ r.dns["CNAME"] \cap Service = {}
    /\ r.takeover # NoFinding => r.takeover.target \in r.dns["CNAME"]

\* A live context makes no false alarms.
Explained(r, live) ==
    r.takeover.dangling => r.takeover.target \in Dangling \/ ~live \/ QueriesFail

Whole(r, live) == Accounted(r) /\ Chained(r) /\ Checked(r) /\ Explained(r, live)

\* What is true of a record in a worker's hands at each stage.
InHand(s, o, r, live) ==
    /\ s # "dns" => o \cap QTypes = {}
    /\ s \in {"dns", "owner", "takeover"} => r.takeover = NoFinding
    /\ s = "dns" => r.owners = {} /\ r.refused = {}
    /\ s = "owner" => Chained(r) /\ (EnableOwner => r.owners \cup r.refused \cup o = Addresses(r))
    /\ s = "takeover" => EnableTakeover /\ Chained(r) /\ Accounted(r)
    /\ s = "exists" => Chained(r) /\ Accounted(r) /\ Checked(r) /\ r.takeover.target \in Service
    /\ s = "append" => Whole(r, live)

Sound == \A k \in Workers : InHand(stage[k], open[k], rec[k], ctx = "live")
AllWhole == \A i \in DOMAIN results : Whole(results[i], ctx = "live")

(* The positions of the host list *)

Busy(k) == stage[k] \in {"dns", "owner", "takeover", "exists", "append"}

\* A position is sent to one worker and recorded once.
Disjoint ==
    /\ \A k, l \in Workers : Busy(k) /\ Busy(l) /\ rec[k].job = rec[l].job => k = l
    /\ \A i, n \in DOMAIN results : results[i].job = results[n].job => i = n
    /\ \A k \in Workers, i \in DOMAIN results : Busy(k) => results[i].job # rec[k].job

\* The positions sent are those at work and those recorded.
Sent ==
    /\ \A k \in Workers : Busy(k) => rec[k].job \in 1..next - 1
    /\ \A i \in DOMAIN results : results[i].job \in 1..next - 1
    /\ \A j \in 1..next - 1 : \/ \E i \in DOMAIN results : results[i].job = j
                              \/ \E k \in Workers : Busy(k) /\ rec[k].job = j

Closing ==
    /\ main # "sending" => next = NHosts + 1
    /\ main = "returned" => \A k \in Workers : stage[k] = "exited"

Inv == TypeOK /\ Sound /\ AllWhole /\ Disjoint /\ Sent /\ Closing
------------------------------------------------------------------------------
LEMMA CNAMEIsApart == "CNAME" \in QTypes /\ AddrTypes \subseteq QTypes /\ "CNAME" \notin AddrTypes
BY EnrichmentAssumption DEF QTypes, EnrichmentAssumption

LEMMA BlankType == ASSUME NEW j \in 0..NHosts
                   PROVE  /\ Blank(j) \in Records /\ Blank(j).job = j
                          /\ Blank(j).owners = {} /\ Blank(j).refused = {}
                          /\ Blank(j).takeover = NoFinding
BY DEF Blank, Records, NoFinding

LEMMA AddressesType == ASSUME NEW r \in Records PROVE Addresses(r) \subseteq Strings
BY CNAMEIsApart DEF Addresses, Records

LEMMA AnswerType == ASSUME NEW t \in QTypes PROVE Answer(t) \subseteq SUBSET Strings
BY DEF Answer, Strings

\* What the merge of dnsx.Resolver.Enrich makes of a record.
LEMMA MergedOf ==
    ASSUME NEW r \in Records
    PROVE  /\ Merged(r) \in Records
           /\ Merged(r).job = r.job /\ Merged(r).takeover = r.takeover
           /\ Merged(r).owners = r.owners /\ Merged(r).refused = r.refused
           /\ Addresses(Merged(r)) = Addresses(r)
           /\ Chained(Merged(r))
<1> DEFINE cnames == r.dns["CNAME"] \cup (Addresses(r) \cap Targets)
           some == \E t \in QTypes : r.dns[t] # {}
           m == Merged(r)
<1>1. r.dns \in [QTypes -> SUBSET Strings] /\ cnames \in SUBSET Strings
  BY CNAMEIsApart, AddressesType DEF Records
<1>2. some \in BOOLEAN
  OBVIOUS
<1>3. m = [r EXCEPT !.dns = [r.dns EXCEPT !["CNAME"] = cnames], !.resolved = some]
  BY DEF Merged, Records
<1>4. m \in Records
  <2> HIDE DEF cnames, some, m
  <2>1. [r.dns EXCEPT !["CNAME"] = cnames] \in [QTypes -> SUBSET Strings]
    BY <1>1
  <2> QED BY <1>2, <1>3, <2>1 DEF Records
<1>5. /\ m.job = r.job /\ m.takeover = r.takeover /\ m.owners = r.owners /\ m.refused = r.refused
      /\ m.dns = [r.dns EXCEPT !["CNAME"] = cnames] /\ m.resolved = some
  <2> HIDE DEF cnames, some, m
  <2> QED BY <1>3 DEF Records
<1>6. m.dns["CNAME"] = cnames /\ \A t \in AddrTypes : m.dns[t] = r.dns[t]
  <2> HIDE DEF cnames, m
  <2> QED BY <1>1, <1>5, CNAMEIsApart
<1>7. Addresses(m) = Addresses(r)
  <2> HIDE DEF m
  <2> QED BY <1>6 DEF Addresses
<1>8. Chained(m)
  <2>1. \A t \in AddrTypes : r.dns[t] \subseteq Addresses(r)
    BY DEF Addresses
  <2>2. some <=> \E t \in QTypes : m.dns[t] # {}
    <3>1. ASSUME NEW t \in QTypes, r.dns[t] # {} PROVE m.dns[t] # {}
      <4> HIDE DEF m
      <4> QED BY <1>6, <3>1 DEF QTypes
    <3>2. ASSUME NEW t \in QTypes, m.dns[t] # {} PROVE some
      <4>1. CASE t \in AddrTypes
        <5> HIDE DEF m
        <5> QED BY <1>6, <3>2, <4>1, CNAMEIsApart
      <4>2. CASE t = "CNAME"
        <5>1. cnames # {}
          <6> HIDE DEF m, cnames
          <6> QED BY <1>6, <3>2, <4>2
        <5>2. r.dns["CNAME"] # {} \/ Addresses(r) # {}
          BY <5>1
        <5> QED BY <5>2, CNAMEIsApart DEF Addresses
      <4> QED BY <4>1, <4>2 DEF QTypes
    <3> QED BY <3>1, <3>2
  <2>3. \A t \in QTypes : m.dns[t] \cap Targets \subseteq m.dns["CNAME"]
    <3> HIDE DEF m
    <3> QED BY <1>6, <2>1 DEF QTypes
  <2>4. m.resolved <=> \E t \in QTypes : m.dns[t] # {}
    <3> HIDE DEF m, some
    <3> QED BY <1>2, <1>5, <2>2
  <2> HIDE DEF m
  <2> QED BY <2>3, <2>4 DEF Chained
<1> QED BY <1>4, <1>5, <1>7, <1>8
------------------------------------------------------------------------------
LEMMA Initially == Init => Inv
<1> SUFFICES ASSUME Init PROVE Inv
  OBVIOUS
<1>1. TypeOK
  <2>1. Blank(0) \in Records /\ next \in 1..NHosts + 1
    BY BlankType, EnrichmentAssumption DEF Init, EnrichmentAssumption
  <2> QED BY <2>1 DEF Init, TypeOK, Stages
<1>2. Sound /\ AllWhole
  BY DEF Init, Sound, AllWhole, InHand
<1>3. Disjoint /\ Sent /\ Closing
  BY DEF Init, Disjoint, Sent, Closing, Busy
<1> QED BY <1>1, <1>2, <1>3 DEF Inv

\* A step of worker k leaves the other workers' records as they are.
LEMMA OthersSound ==
    ASSUME Sound, NEW k \in Workers, ctx' = ctx,
           \A l \in Workers \ {k} : /\ stage'[l] = stage[l] /\ open'[l] = open[l]
                                    /\ rec'[l] = rec[l],
           InHand(stage'[k], open'[k], rec'[k], ctx' = "live")
    PROVE  Sound'
BY DEF Sound

\* A step that neither takes a position nor records one.
LEMMA PositionsKept ==
    ASSUME Disjoint, Sent, results' = results, next' = next,
           \A l \in Workers : (Busy(l)' <=> Busy(l)) /\ rec'[l].job = rec[l].job
    PROVE  Disjoint' /\ Sent'
BY Zenon DEF Disjoint, Sent

LEMMA SendKeeps == ASSUME Inv, NEW k \in Workers, Send(k) PROVE Inv'
<1>0. /\ TypeOK /\ Sound /\ AllWhole /\ Disjoint /\ Sent /\ Closing
      /\ next \in Nat /\ next \in Jobs /\ next \in 0..NHosts
  BY EnrichmentAssumption DEF Inv, Send, More, TypeOK, Jobs, EnrichmentAssumption
<1>1. /\ stage' = [stage EXCEPT ![k] = "dns"] /\ open' = [open EXCEPT ![k] = QueriesOut]
      /\ QueriesOut \subseteq QTypes
      /\ rec' = [rec EXCEPT ![k] = Blank(next)] /\ next' = next + 1
      /\ results' = results /\ main' = main /\ main = "sending" /\ ctx' = ctx
      /\ stage[k] = "idle"
  BY DEF Send, Goto, QueriesOut
<1>2. Blank(next) \in Records /\ Blank(next).job = next /\ InHand("dns", QueriesOut, Blank(next), ctx = "live")
  BY <1>0, BlankType DEF InHand
<1>3. TypeOK'
  <2>1. next' \in 1..NHosts + 1
    BY <1>0, <1>1, EnrichmentAssumption DEF Jobs, EnrichmentAssumption
  <2> QED BY <1>0, <1>1, <1>2, <2>1 DEF TypeOK, Stages
<1>4. Sound'
  <2>1. stage'[k] = "dns" /\ open'[k] = QueriesOut /\ rec'[k] = Blank(next)
    BY <1>0, <1>1 DEF TypeOK
  <2>2. \A l \in Workers \ {k} : stage'[l] = stage[l] /\ open'[l] = open[l] /\ rec'[l] = rec[l]
    BY <1>0, <1>1 DEF TypeOK
  <2> QED BY <1>0, <1>1, <1>2, <2>1, <2>2, OthersSound
<1>5. AllWhole'
  BY <1>0, <1>1 DEF AllWhole
<1>6. \A l \in Workers : /\ Busy(l)' <=> l = k \/ Busy(l)
                         /\ rec'[l].job = IF l = k THEN next ELSE rec[l].job
  BY <1>0, <1>1, <1>2 DEF Busy, TypeOK
<1>7. Disjoint'
  <2>1. \A l \in Workers : Busy(l) => rec[l].job # next
    BY <1>0 DEF Sent
  <2>2. \A i \in DOMAIN results : results[i].job # next
    BY <1>0 DEF Sent
  <2> QED BY <1>0, <1>1, <1>6, <2>1, <2>2 DEF Disjoint
<1>8. Sent'
  <2>0. next' - 1 = next /\ next \in Nat \ {0}
    BY <1>0, <1>1 DEF Jobs
  <2>1. ~Busy(k) /\ 1..next' - 1 = (1..next - 1) \cup {next} /\ next \in 1..next' - 1
    <3>1. 1..next = (1..next - 1) \cup {next}
      BY <2>0
    <3> QED BY <1>1, <2>0, <3>1 DEF Busy
  <2>2. \A l \in Workers : Busy(l)' => rec'[l].job \in 1..next' - 1
    BY <1>0, <1>6, <2>1 DEF Sent
  <2>3. \A i \in DOMAIN results' : results'[i].job \in 1..next' - 1
    BY <1>0, <1>1, <2>1 DEF Sent
  <2>4. ASSUME NEW j \in 1..next' - 1
        PROVE  (\E i \in DOMAIN results' : results'[i].job = j)
               \/ \E l \in Workers : Busy(l)' /\ rec'[l].job = j
    <3>1. CASE j = next
      BY <1>6, <3>1
    <3>2. CASE j # next
      <4>1. (\E i \in DOMAIN results : results[i].job = j) \/ \E l \in Workers : Busy(l) /\ rec[l].job = j
        BY <1>0, <2>1, <3>2 DEF Sent
      <4> QED BY <1>1, <1>6, <2>1, <4>1
    <3> QED BY <3>1, <3>2
  <2> QED BY <2>2, <2>3, <2>4 DEF Sent
<1>9. Closing'
  BY <1>1 DEF Closing
<1> QED BY <1>3, <1>4, <1>5, <1>7, <1>8, <1>9 DEF Inv

\* The six steps in which worker k works on its record: given what it makes of
\* it, the invariant is kept.
LEMMA WorkKeeps ==
    ASSUME Inv, NEW k \in Workers, NEW s \in Stages \ {"idle", "exited"},
           NEW o \in SUBSET (QTypes \cup Strings), NEW r \in Records,
           stage[k] \notin {"idle", "exited"}, r.job = rec[k].job,
           stage' = [stage EXCEPT ![k] = s], open' = [open EXCEPT ![k] = o],
           rec' = [rec EXCEPT ![k] = r],
           UNCHANGED <<ctx, main, next, results>>,
           InHand(s, o, r, ctx = "live")
    PROVE  Inv'
<1>0. TypeOK /\ Sound /\ AllWhole /\ Disjoint /\ Sent /\ Closing
  BY DEF Inv
<1>1. stage'[k] = s /\ open'[k] = o /\ rec'[k] = r
  BY <1>0 DEF TypeOK
<1>2. \A l \in Workers \ {k} : stage'[l] = stage[l] /\ open'[l] = open[l] /\ rec'[l] = rec[l]
  BY <1>0 DEF TypeOK
<1>3. TypeOK'
  BY <1>0 DEF TypeOK
<1>4. Sound' /\ AllWhole'
  BY <1>0, <1>1, <1>2, OthersSound DEF AllWhole
<1>5. \A l \in Workers : (Busy(l)' <=> Busy(l)) /\ rec'[l].job = rec[l].job
  <2>1. Busy(k)' /\ Busy(k)
    BY <1>0, <1>1 DEF Busy, TypeOK, Stages
  <2>2. \A l \in Workers \ {k} : (Busy(l)' <=> Busy(l))
    BY <1>2 DEF Busy
  <2> QED BY <1>1, <1>2, <2>1, <2>2
<1>6. Disjoint' /\ Sent'
  BY <1>0, <1>5, PositionsKept
<1>7. Closing'
  BY <1>0 DEF Closing, TypeOK
<1> QED BY <1>3, <1>4, <1>6, <1>7 DEF Inv

\* A query under way is one of a worker that waits for it.
LEMMA QueryIsJoined ==
    ASSUME Inv, NEW k \in Workers, NEW t \in QTypes, t \in open[k] PROVE stage[k] = "dns"
BY DEF Inv, Sound, InHand

LEMMA QueryEndsKeeps ==
    ASSUME Inv, NEW k \in Workers, NEW t \in QTypes, QueryEnds(k, t) PROVE Inv'
<1>a. stage[k] = "dns"
  BY QueryIsJoined DEF QueryEnds
<1>0. /\ stage[k] = "dns" /\ stage' = stage /\ stage \in [Workers -> Stages]
      /\ rec[k] \in Records /\ rec \in [Workers -> Records]
      /\ open[k] \in SUBSET (QTypes \cup Strings) /\ InHand("dns", open[k], rec[k], ctx = "live")
      /\ UNCHANGED <<ctx, main, next, results>>
  BY <1>a DEF Inv, TypeOK, Sound, QueryEnds
<1>1. PICK answer \in Answer(t) : rec' = [rec EXCEPT ![k].dns[t] = answer]
  BY DEF QueryEnds
<1> DEFINE r == [rec[k] EXCEPT !.dns[t] = answer]
<1>2. r \in Records /\ r.job = rec[k].job /\ r.takeover = rec[k].takeover
      /\ r.owners = rec[k].owners /\ r.refused = rec[k].refused
  BY <1>0, AnswerType DEF Records
<1>3. rec' = [rec EXCEPT ![k] = r]
  BY <1>0, <1>1
<1>4. InHand("dns", open[k] \ {t}, r, ctx = "live")
  <2> HIDE DEF r
  <2> QED BY <1>0, <1>2 DEF InHand
<1>5. open' = [open EXCEPT ![k] = open[k] \ {t}] /\ stage' = [stage EXCEPT ![k] = "dns"]
  BY <1>0 DEF QueryEnds
<1> HIDE DEF r
<1> QED BY <1>0, <1>2, <1>3, <1>4, <1>5, WorkKeeps DEF Stages

LEMMA DnsJoinsKeeps == ASSUME Inv, NEW k \in Workers, DnsJoins(k) PROVE Inv'
<1>0. /\ stage[k] = "dns" /\ rec[k] \in Records /\ InHand("dns", open[k], rec[k], ctx = "live")
      /\ open[k] = {} /\ UNCHANGED <<ctx, main, next, results>>
  BY DEF Inv, TypeOK, Sound, DnsJoins, Joined
<1> DEFINE r == Merged(rec[k])
           o == IF EnableOwner THEN Addresses(rec[k]) ELSE {}
<1>1. /\ rec' = [rec EXCEPT ![k] = r] /\ open' = [open EXCEPT ![k] = o]
      /\ stage' = [stage EXCEPT ![k] = "owner"]
  BY <1>0 DEF DnsJoins, Goto
<1>2. /\ r \in Records /\ r.job = rec[k].job /\ r.takeover = rec[k].takeover
      /\ r.owners = rec[k].owners /\ r.refused = rec[k].refused
      /\ Addresses(r) = Addresses(rec[k]) /\ Chained(r)
  BY <1>0, MergedOf
<1>3. /\ o \in SUBSET (QTypes \cup Strings) /\ (EnableOwner => o = Addresses(rec[k]))
      /\ o \cap QTypes = {}
  BY <1>0, AddressesType, EnrichmentAssumption DEF EnrichmentAssumption
<1>4. InHand("owner", o, r, ctx = "live")
  <2> HIDE DEF r, o
  <2> QED BY <1>0, <1>2, <1>3 DEF InHand
<1> HIDE DEF r, o
<1> QED BY <1>0, <1>1, <1>2, <1>3, <1>4, WorkKeeps DEF Stages

LEMMA OwnerEndsKeeps ==
    ASSUME Inv, NEW k \in Workers, NEW addr \in Strings, OwnerEnds(k, addr) PROVE Inv'
<1>0. /\ stage[k] = "owner" /\ stage' = stage /\ stage \in [Workers -> Stages]
      /\ rec[k] \in Records /\ rec \in [Workers -> Records] /\ addr \in open[k]
      /\ open[k] \in SUBSET (QTypes \cup Strings) /\ InHand("owner", open[k], rec[k], ctx = "live")
      /\ UNCHANGED <<ctx, main, next, results>>
  BY DEF Inv, TypeOK, Sound, OwnerEnds
<1>1. PICK r \in {[rec[k] EXCEPT !.owners = @ \cup {addr}], [rec[k] EXCEPT !.refused = @ \cup {addr}]} :
        rec' = [rec EXCEPT ![k] = r]
  BY <1>0 DEF OwnerEnds
<1>2. /\ r \in Records /\ r.job = rec[k].job /\ r.takeover = rec[k].takeover /\ r.dns = rec[k].dns
      /\ r.resolved = rec[k].resolved
      /\ r.owners \cup r.refused = rec[k].owners \cup rec[k].refused \cup {addr}
  <2>1. CASE r = [rec[k] EXCEPT !.owners = @ \cup {addr}]
    BY <1>0, <2>1 DEF Records
  <2>2. CASE r = [rec[k] EXCEPT !.refused = @ \cup {addr}]
    BY <1>0, <2>2 DEF Records
  <2> QED BY <1>1, <2>1, <2>2
<1>3. Addresses(r) = Addresses(rec[k]) /\ (Chained(rec[k]) => Chained(r))
  BY <1>2 DEF Addresses, Chained
<1>4. InHand("owner", open[k] \ {addr}, r, ctx = "live")
  <2>1. Chained(rec[k]) /\ (EnableOwner => rec[k].owners \cup rec[k].refused \cup open[k] = Addresses(rec[k]))
        /\ rec[k].takeover = NoFinding /\ open[k] \cap QTypes = {}
    BY <1>0 DEF InHand
  <2>2. EnableOwner => r.owners \cup r.refused \cup (open[k] \ {addr}) = Addresses(r)
    BY <1>0, <1>2, <1>3, <2>1
  <2> QED BY <1>2, <1>3, <2>1, <2>2 DEF InHand
<1>5. open' = [open EXCEPT ![k] = open[k] \ {addr}] /\ stage' = [stage EXCEPT ![k] = "owner"]
  BY <1>0 DEF OwnerEnds
<1> QED BY <1>0, <1>1, <1>2, <1>4, <1>5, WorkKeeps DEF Stages

LEMMA OwnersJoinKeeps == ASSUME Inv, NEW k \in Workers, OwnersJoin(k) PROVE Inv'
<1>0. /\ stage[k] = "owner" /\ rec[k] \in Records /\ InHand("owner", {}, rec[k], ctx = "live")
      /\ rec \in [Workers -> Records] /\ open \in [Workers -> SUBSET (QTypes \cup Strings)]
      /\ open[k] = {} /\ UNCHANGED <<ctx, main, next, results, open, rec>>
  BY DEF Inv, TypeOK, Sound, OwnersJoin, Joined
<1>1. Chained(rec[k]) /\ Accounted(rec[k]) /\ rec[k].takeover = NoFinding
  BY <1>0 DEF InHand, Accounted
<1>2. rec' = [rec EXCEPT ![k] = rec[k]] /\ open' = [open EXCEPT ![k] = {}]
  BY <1>0
<1>3. CASE EnableTakeover
  <2>1. InHand("takeover", {}, rec[k], ctx = "live")
    BY <1>1, <1>3 DEF InHand
  <2>2. stage' = [stage EXCEPT ![k] = "takeover"]
    BY <1>3 DEF OwnersJoin, Goto
  <2> QED BY <1>0, <1>2, <2>1, <2>2, WorkKeeps DEF Stages
<1>4. CASE ~EnableTakeover
  <2>1. InHand("append", {}, rec[k], ctx = "live")
    BY <1>1, <1>4 DEF InHand, Whole, Checked, Explained, NoFinding
  <2>2. stage' = [stage EXCEPT ![k] = "append"]
    BY <1>4 DEF OwnersJoin, Goto
  <2> QED BY <1>0, <1>2, <2>1, <2>2, WorkKeeps DEF Stages
<1> QED BY <1>3, <1>4

\* A record with a finding.
Found(r, target, dangling) == [r EXCEPT !.takeover = [target |-> target, dangling |-> dangling]]

LEMMA FindingOf ==
    ASSUME NEW r \in Records, NEW target \in Service, NEW dangling \in BOOLEAN,
           Chained(r), Accounted(r), EnableTakeover, target \in r.dns["CNAME"]
    PROVE  LET f == Found(r, target, dangling)
           IN  /\ f \in Records /\ f.job = r.job /\ Chained(f) /\ Accounted(f) /\ Checked(f)
               /\ f.takeover.target = target /\ f.takeover.dangling = dangling
<1> DEFINE finding == [target |-> target, dangling |-> dangling]
           f == Found(r, target, dangling)
<1>1. /\ finding \in [target : Service \cup {"none"}, dangling : BOOLEAN]
      /\ finding.target = target /\ finding.dangling = dangling /\ finding # NoFinding
  BY EnrichmentAssumption DEF NoFinding, EnrichmentAssumption
<1>0. f = [r EXCEPT !.takeover = finding]
  BY DEF Found
<1> HIDE DEF finding, f
<1>2. /\ f \in Records /\ f.job = r.job /\ f.dns = r.dns /\ f.resolved = r.resolved
      /\ f.owners = r.owners /\ f.refused = r.refused /\ f.takeover = finding
  BY <1>0, <1>1 DEF Records
<1>3. Chained(f) /\ Accounted(f)
  BY <1>2 DEF Chained, Accounted, Addresses
<1>4. Checked(f)
  BY <1>1, <1>2 DEF Checked
<1> QED BY <1>1, <1>2, <1>3, <1>4 DEF f

LEMMA CheckTakeoverKeeps == ASSUME Inv, NEW k \in Workers, CheckTakeover(k) PROVE Inv'
<1> DEFINE candidates == rec[k].dns["CNAME"] \cap Service
<1>0. /\ stage[k] = "takeover" /\ rec[k] \in Records /\ InHand("takeover", open[k], rec[k], ctx = "live")
      /\ rec \in [Workers -> Records] /\ open \in [Workers -> SUBSET (QTypes \cup Strings)]
      /\ UNCHANGED <<ctx, main, next, results, open>> /\ open' = [open EXCEPT ![k] = open[k]]
  BY DEF Inv, TypeOK, Sound, CheckTakeover
<1>1. /\ EnableTakeover /\ Chained(rec[k]) /\ Accounted(rec[k]) /\ rec[k].takeover = NoFinding
      /\ open[k] \cap QTypes = {}
  BY <1>0 DEF InHand
<1>2. CASE candidates = {} /\ UNCHANGED rec /\ stage' = [stage EXCEPT ![k] = "append"]
  <2>1. InHand("append", open[k], rec[k], ctx = "live")
    BY <1>1, <1>2 DEF InHand, Whole, Checked, Explained, NoFinding
  <2>2. rec' = [rec EXCEPT ![k] = rec[k]]
    BY <1>0, <1>2
  <2> QED BY <1>0, <1>2, <2>1, <2>2, WorkKeeps DEF Stages
<1>3. ASSUME NEW target \in candidates,
             rec' = [rec EXCEPT ![k].takeover = [target |-> target, dangling |-> TRUE]],
             stage' = [stage EXCEPT ![k] = IF ctx = "live" THEN "exists" ELSE "append"]
      PROVE  Inv'
  <2> DEFINE r == Found(rec[k], target, TRUE)
             s == IF ctx = "live" THEN "exists" ELSE "append"
  <2>1. /\ r \in Records /\ r.job = rec[k].job /\ Chained(r) /\ Accounted(r) /\ Checked(r)
        /\ r.takeover.target \in Service
    BY <1>0, <1>1, FindingOf
  <2>2. rec' = [rec EXCEPT ![k] = r]
    BY <1>0, <1>3 DEF Found
  <2> HIDE DEF r
  <2>3. InHand(s, open[k], r, ctx = "live")
    BY <1>1, <2>1 DEF InHand, Whole, Explained
  <2>4. s \in Stages \ {"idle", "exited"} /\ stage' = [stage EXCEPT ![k] = s]
    BY <1>3 DEF Stages
  <2> HIDE DEF s
  <2> QED BY <1>0, <2>1, <2>2, <2>3, <2>4, WorkKeeps
<1> QED BY <1>2, <1>3 DEF CheckTakeover, Goto

LEMMA ExistsEndsKeeps == ASSUME Inv, NEW k \in Workers, ExistsEnds(k) PROVE Inv'
<1>0. /\ stage[k] = "exists" /\ rec[k] \in Records /\ InHand("exists", open[k], rec[k], ctx = "live")
      /\ rec \in [Workers -> Records] /\ open \in [Workers -> SUBSET (QTypes \cup Strings)]
      /\ UNCHANGED <<ctx, main, next, results, open>> /\ open' = [open EXCEPT ![k] = open[k]]
      /\ stage' = [stage EXCEPT ![k] = "append"]
  BY DEF Inv, TypeOK, Sound, ExistsEnds, Goto
<1> DEFINE target == rec[k].takeover.target
<1>1. PICK exists \in Lookups(target) : rec' = [rec EXCEPT ![k].takeover.dangling = ~exists]
  BY DEF ExistsEnds
<1> DEFINE dangling == ~exists
           r == Found(rec[k], target, dangling)
<1>2. /\ Chained(rec[k]) /\ Accounted(rec[k]) /\ Checked(rec[k]) /\ target \in Service
      /\ open[k] \cap QTypes = {}
  BY <1>0 DEF InHand
<1>3. /\ dangling \in BOOLEAN
      /\ dangling => target \in Dangling \/ QueriesFail \/ ctx # "live"
  BY <1>1 DEF Lookups
<1>4. EnableTakeover /\ target \in rec[k].dns["CNAME"]
  <2>1. rec[k].takeover # NoFinding
    BY <1>2, EnrichmentAssumption DEF NoFinding, EnrichmentAssumption
  <2> QED BY <1>2, <2>1 DEF Checked
<1>5. rec' = [rec EXCEPT ![k].takeover.dangling = dangling]
  BY <1>1
<1> HIDE DEF dangling
<1>6. /\ r \in Records /\ r.job = rec[k].job /\ Chained(r) /\ Accounted(r) /\ Checked(r)
      /\ r.takeover.target = target /\ r.takeover.dangling = dangling
  BY <1>0, <1>2, <1>3, <1>4, FindingOf
<1>7. rec' = [rec EXCEPT ![k] = r]
  <2>1. rec[k].takeover \in [target : Service \cup {"none"}, dangling : BOOLEAN]
    BY <1>0 DEF Records
  <2>2. [rec[k].takeover EXCEPT !.dangling = dangling] = [target |-> target, dangling |-> dangling]
    BY <2>1
  <2> QED BY <1>0, <1>5, <2>2 DEF Found
<1> HIDE DEF r
<1>8. InHand("append", open[k], r, ctx = "live")
  BY <1>2, <1>3, <1>6 DEF InHand, Whole, Explained
<1> QED BY <1>0, <1>6, <1>7, <1>8, WorkKeeps DEF Stages

LEMMA AppendKeeps == ASSUME Inv, NEW k \in Workers, AppendRecord(k) PROVE Inv'
<1> DEFINE n == Len(results) + 1
<1>0. /\ TypeOK /\ Sound /\ AllWhole /\ Disjoint /\ Sent /\ Closing
      /\ stage[k] = "append" /\ stage' = [stage EXCEPT ![k] = "idle"]
      /\ results' = Append(results, rec[k]) /\ UNCHANGED <<ctx, main, next, open, rec>>
      /\ rec[k] \in Records /\ results \in Seq(Records) /\ stage \in [Workers -> Stages]
  BY DEF Inv, AppendRecord, Goto, TypeOK
<1>1. /\ DOMAIN results = 1..n - 1 /\ DOMAIN results' = 1..n /\ n \in Nat \ {0}
      /\ results'[n] = rec[k] /\ \A i \in DOMAIN results : results'[i] = results[i]
      /\ DOMAIN results' = DOMAIN results \cup {n} /\ n \notin DOMAIN results
  BY <1>0
<1> HIDE DEF n
<1>2. TypeOK'
  <2>1. results' \in Seq(Records)
    BY <1>0
  <2> QED BY <1>0, <2>1 DEF TypeOK, Stages
<1>3. Sound'
  <2>1. InHand("idle", open[k], rec[k], ctx = "live")
    BY <1>0 DEF InHand, Sound
  <2>2. stage'[k] = "idle" /\ \A l \in Workers \ {k} : stage'[l] = stage[l]
    BY <1>0
  <2> QED BY <1>0, <2>1, <2>2, OthersSound
<1>4. AllWhole'
  <2>1. Whole(rec[k], ctx = "live")
    BY <1>0 DEF Sound, InHand
  <2> QED BY <1>0, <1>1, <2>1 DEF AllWhole
<1>5. \A l \in Workers : Busy(l)' <=> l # k /\ Busy(l)
  BY <1>0 DEF Busy
<1>6. Busy(k)
  BY <1>0 DEF Busy
<1>7. Disjoint'
  BY <1>0, <1>1, <1>5, <1>6 DEF Disjoint
<1>8. Sent'
  BY <1>0, <1>1, <1>5, <1>6 DEF Sent
<1>9. Closing'
  <2>1. main # "returned"
    BY <1>0 DEF Closing
  <2> QED BY <1>0, <2>1 DEF Closing
<1> QED BY <1>2, <1>3, <1>4, <1>7, <1>8, <1>9 DEF Inv

LEMMA Inductive == Inv /\ [Next]_vars => Inv'
<1> SUFFICES ASSUME Inv, [Next]_vars PROVE Inv'
  OBVIOUS
<1>0. TypeOK /\ Sound /\ AllWhole /\ Disjoint /\ Sent /\ Closing
  BY DEF Inv
<1>1. ASSUME NEW cause \in CtxCauses, CtxEnds(cause) PROVE Inv'
  <2>1. ctx = "live" /\ ctx' = cause /\ UNCHANGED <<main, next, stage, open, rec, results>>
    BY <1>1 DEF CtxEnds
  <2>2. \A r : Whole(r, ctx = "live") => Whole(r, ctx' = "live")
    BY <2>1 DEF Whole, Explained
  <2>3. Sound' /\ AllWhole'
    BY <1>0, <2>1, <2>2 DEF Sound, AllWhole, InHand
  <2>4. TypeOK' /\ Closing'
    BY <1>0, <2>1 DEF TypeOK, Closing
  <2>5. Disjoint' /\ Sent'
    BY <1>0, <2>1 DEF Disjoint, Sent, Busy
  <2> QED BY <2>3, <2>4, <2>5 DEF Inv
<1>2. CASE Close
  <2>1. main' = "waiting" /\ next = NHosts + 1 /\ UNCHANGED <<ctx, next, stage, open, rec, results>>
    BY <1>0, <1>2, EnrichmentAssumption DEF Close, More, TypeOK, EnrichmentAssumption
  <2> QED BY <1>0, <2>1 DEF Inv, TypeOK, Sound, AllWhole, Disjoint, Sent, Busy, Closing
<1>3. CASE Return
  <2>1. main' = "returned" /\ main = "waiting" /\ (\A k \in Workers : stage[k] = "exited")
        /\ UNCHANGED <<ctx, next, stage, open, rec, results>>
    BY <1>3 DEF Return, PoolDone
  <2> QED BY <1>0, <2>1 DEF Inv, TypeOK, Sound, AllWhole, Disjoint, Sent, Busy, Closing
<1>4. ASSUME NEW k \in Workers, Exit(k) PROVE Inv'
  <2>1. /\ stage[k] = "idle" /\ stage' = [stage EXCEPT ![k] = "exited"] /\ stage \in [Workers -> Stages]
        /\ UNCHANGED <<ctx, main, next, open, rec, results>>
    BY <1>0, <1>4 DEF Exit, Goto, TypeOK
  <2>2. TypeOK' /\ AllWhole'
    BY <1>0, <2>1 DEF TypeOK, AllWhole, Stages
  <2>3. Sound'
    <3>1. InHand("exited", open[k], rec[k], ctx = "live")
      BY <1>0, <2>1 DEF InHand, Sound
    <3>2. stage'[k] = "exited" /\ \A l \in Workers \ {k} : stage'[l] = stage[l]
      BY <2>1
    <3> QED BY <1>0, <2>1, <3>1, <3>2, OthersSound
  <2>4. Disjoint' /\ Sent'
    <3>1. \A l \in Workers : (Busy(l)' <=> Busy(l))
      BY <2>1 DEF Busy
    <3> QED BY <1>0, <2>1, <3>1, PositionsKept
  <2>5. Closing'
    BY <1>0, <2>1 DEF Closing
  <2> QED BY <2>2, <2>3, <2>4, <2>5 DEF Inv
<1>5. CASE UNCHANGED vars
  BY <1>0, <1>5 DEF vars, Inv, TypeOK, Sound, AllWhole, Disjoint, Sent, Busy, Closing
<1> QED BY <1>1, <1>2, <1>3, <1>4, <1>5, SendKeeps, QueryEndsKeeps, DnsJoinsKeeps, OwnerEndsKeeps,
           OwnersJoinKeeps, CheckTakeoverKeeps, ExistsEndsKeeps, AppendKeeps DEF Next, WorkerStep

LEMMA InvHolds == Spec => []Inv
BY Initially, Inductive, PTL DEF Spec
------------------------------------------------------------------------------
LEMMA ReportedWhole == ASSUME Inv, NEW r \in Reported
                       PROVE Whole(r, ctx = "live")
BY DEF Inv, AllWhole, Reported

\* Types: the loop over the hosts ends at their number, and every record a
\* worker makes or appends has its fields (scan.go:233-291).
THEOREM TypesHold == Spec => []TypeOK
<1>1. Inv => TypeOK
  BY DEF Inv
<1> QED BY <1>1, InvHolds, PTL

\* In every record appended each address has its owner, or its lookup failed:
\* the fan-out of owner lookups loses nothing (scan.go:251-264).
THEOREM OwnersAccountedHolds == Spec => []OwnersAccounted
<1>1. Inv => OwnersAccounted
  BY ReportedWhole DEF OwnersAccounted, Whole, Accounted
<1> QED BY <1>1, InvHolds, PTL

\* A record has a takeover finding exactly when its CNAME chain, merged from
\* all answers, leads to a known service (resolver.go:133-181, takeover.go:79).
THEOREM FindingFollowsChainHolds == Spec => []FindingFollowsChain
<1>1. Inv => FindingFollowsChain
  <2> SUFFICES ASSUME Inv, NEW r \in Reported
               PROVE  /\ r.resolved <=> \E t \in QTypes : r.dns[t] # {}
                      /\ r.takeover = NoFinding <=>
                           ~EnableTakeover \/ \A t \in QTypes : r.dns[t] \cap Service = {}
                      /\ r.takeover # NoFinding => r.takeover.target \in r.dns["CNAME"]
    BY DEF FindingFollowsChain
  <2>1. Chained(r) /\ Checked(r)
    BY ReportedWhole DEF Whole
  <2>2. r.dns["CNAME"] \cap Service = {} <=> \A t \in QTypes : r.dns[t] \cap Service = {}
    BY <2>1, CNAMEIsApart, EnrichmentAssumption DEF Chained, EnrichmentAssumption
  <2> QED BY <2>1, <2>2 DEF Chained, Checked
<1> QED BY <1>1, InvHolds, PTL

(* False alarms: a host sent when the context has ended has no finding at all *)

\* No query of it is under way, and none has been answered.
Barren(o, r) == o \cap QTypes = {} /\ r.takeover = NoFinding /\ \A t \in QTypes : r.dns[t] = {}

Spared(j) ==
    /\ ctx # "live" /\ j \notin FalseAlarms
    /\ \A k \in Workers : Busy(k) /\ rec[k].job = j => Barren(open[k], rec[k])

\* The step of worker k on a host of its own, which keeps its position.
LEMMA WorkSpares ==
    ASSUME NEW j \in Jobs, NEW k \in Workers, Spared(j),
           UNCHANGED <<ctx, results>>, rec'[k].job = rec[k].job, Busy(k)' => Busy(k),
           \A l \in Workers \ {k} : /\ stage'[l] = stage[l] /\ open'[l] = open[l]
                                    /\ rec'[l] = rec[l],
           Busy(k) /\ rec[k].job = j => Barren(open'[k], rec'[k])
    PROVE  Spared(j)'
<1>1. FalseAlarms' = FalseAlarms
  BY DEF FalseAlarms
<1>2. \A l \in Workers \ {k} : Busy(l)' <=> Busy(l)
  BY DEF Busy
<1>3. ASSUME NEW l \in Workers, Busy(l)', rec'[l].job = j PROVE Barren(open'[l], rec'[l])
  BY <1>2, <1>3 DEF Spared
<1> QED BY <1>1, <1>3 DEF Spared

LEMMA SparedAtFirst == ASSUME Inv, NEW j \in Jobs, ctx # "live", next <= j PROVE Spared(j)
<1>1. next \in Nat /\ j \in Nat /\ j \notin 1..next - 1
  BY EnrichmentAssumption DEF Inv, TypeOK, Jobs, EnrichmentAssumption
<1>2. \A k \in Workers : Busy(k) => rec[k].job # j
  BY <1>1 DEF Inv, Sent
<1>3. \A i \in DOMAIN results : results[i].job # j
  BY <1>1 DEF Inv, Sent
<1> QED BY <1>2, <1>3 DEF Spared, FalseAlarms

LEMMA SparedForEver == ASSUME Inv, NEW j \in Jobs, Spared(j), [Next]_vars PROVE Spared(j)'
<1>0. /\ ctx # "live" /\ next \in Nat /\ stage \in [Workers -> Stages] /\ rec \in [Workers -> Records]
      /\ open \in [Workers -> SUBSET (QTypes \cup Strings)] /\ results \in Seq(Records)
  BY EnrichmentAssumption DEF Spared, Inv, TypeOK, EnrichmentAssumption
<1>1. ASSUME NEW cause \in CtxCauses PROVE ~CtxEnds(cause)
  BY <1>0 DEF CtxEnds
<1>2. CASE Close \/ Return \/ UNCHANGED vars
  BY <1>2 DEF Close, Return, vars, Spared, FalseAlarms, Busy
<1>3. ASSUME NEW k \in Workers, Send(k) PROVE Spared(j)'
  <2>1. /\ stage' = [stage EXCEPT ![k] = "dns"] /\ open' = [open EXCEPT ![k] = {}]
        /\ rec' = [rec EXCEPT ![k] = Blank(next)] /\ UNCHANGED <<ctx, results>>
    BY <1>0, <1>3 DEF Send, Goto, QueriesOut
  <2>2. Barren({}, Blank(next))
    BY DEF Barren, Blank
  <2>3. FalseAlarms' = FalseAlarms
    BY <2>1 DEF FalseAlarms
  <2>4. ASSUME NEW l \in Workers, Busy(l)', rec'[l].job = j PROVE Barren(open'[l], rec'[l])
    <3>1. CASE l = k
      BY <1>0, <2>1, <2>2, <3>1
    <3>2. CASE l # k
      <4>1. open'[l] = open[l] /\ rec'[l] = rec[l] /\ Busy(l)
        BY <1>0, <2>1, <2>4, <3>2 DEF Busy
      <4> QED BY <2>4, <4>1 DEF Spared
    <3> QED BY <3>1, <3>2
  <2> QED BY <2>1, <2>3, <2>4 DEF Spared
<1>4. ASSUME NEW k \in Workers, NEW t \in QTypes, QueryEnds(k, t) PROVE Spared(j)'
  <2>1. /\ Busy(k) /\ t \in open[k] \cap QTypes /\ UNCHANGED <<ctx, results, stage>>
        /\ rec'[k].job = rec[k].job
        /\ \A l \in Workers \ {k} : open'[l] = open[l] /\ rec'[l] = rec[l]
    BY <1>0, <1>4, QueryIsJoined DEF QueryEnds, Records, Busy
  <2>2. rec[k].job # j
    BY <2>1 DEF Spared, Barren
  <2> QED BY <2>1, <2>2, WorkSpares DEF Busy
<1>5. ASSUME NEW k \in Workers, DnsJoins(k) PROVE Spared(j)'
  <2>1. /\ Busy(k) /\ UNCHANGED <<ctx, results>> /\ rec'[k] = Merged(rec[k]) /\ rec[k] \in Records
        /\ open'[k] = IF EnableOwner THEN Addresses(rec[k]) ELSE {}
        /\ \A l \in Workers \ {k} : stage'[l] = stage[l] /\ open'[l] = open[l] /\ rec'[l] = rec[l]
    BY <1>0, <1>5 DEF DnsJoins, Goto, Busy, Joined
  <2>2. Merged(rec[k]).job = rec[k].job /\ Merged(rec[k]).takeover = rec[k].takeover
    BY <2>1, MergedOf
  <2>3. ASSUME rec[k].job = j PROVE Barren(open'[k], rec'[k])
    <3>1. rec[k].takeover = NoFinding /\ \A t \in QTypes : rec[k].dns[t] = {}
      BY <2>1, <2>3 DEF Spared, Barren
    <3>2. Addresses(rec[k]) = {}
      BY <3>1, CNAMEIsApart DEF Addresses
    <3>3. \A t \in QTypes : Merged(rec[k]).dns[t] = {}
      <4>1. rec[k].dns \in [QTypes -> SUBSET Strings]
        BY <2>1 DEF Records
      <4>2. Merged(rec[k]).dns = [rec[k].dns EXCEPT !["CNAME"] = @ \cup (Addresses(rec[k]) \cap Targets)]
        BY <2>1 DEF Merged, Records
      <4> QED BY <3>1, <3>2, <4>1, <4>2
    <3> QED BY <2>1, <2>2, <3>1, <3>2, <3>3 DEF Barren
  <2> QED BY <2>1, <2>2, <2>3, WorkSpares
<1>6. ASSUME NEW k \in Workers, NEW addr \in Strings, OwnerEnds(k, addr) PROVE Spared(j)'
  <2>1. /\ Busy(k) /\ UNCHANGED <<ctx, results, stage>> /\ open'[k] \subseteq open[k]
        /\ \A l \in Workers \ {k} : open'[l] = open[l] /\ rec'[l] = rec[l]
    BY <1>0, <1>6 DEF OwnerEnds, Busy
  <2>2. /\ rec'[k].job = rec[k].job /\ rec'[k].dns = rec[k].dns
        /\ rec'[k].takeover = rec[k].takeover
    <3>1. CASE rec' = [rec EXCEPT ![k].owners = @ \cup {addr}]
      BY <1>0, <3>1 DEF Records
    <3>2. CASE rec' = [rec EXCEPT ![k].refused = @ \cup {addr}]
      BY <1>0, <3>2 DEF Records
    <3> QED BY <1>6, <3>1, <3>2 DEF OwnerEnds
  <2>3. Busy(k) /\ rec[k].job = j => Barren(open'[k], rec'[k])
    BY <2>1, <2>2 DEF Spared, Barren
  <2> QED BY <2>1, <2>2, <2>3, WorkSpares DEF Busy
<1>7. ASSUME NEW k \in Workers, OwnersJoin(k) PROVE Spared(j)'
  <2>1. /\ Busy(k) /\ UNCHANGED <<ctx, results, open, rec>>
        /\ \A l \in Workers \ {k} : stage'[l] = stage[l]
    BY <1>0, <1>7 DEF OwnersJoin, Goto, Busy
  <2> QED BY <2>1, WorkSpares DEF Spared
<1>8. ASSUME NEW k \in Workers, CheckTakeover(k) PROVE Spared(j)'
  <2>1. /\ Busy(k) /\ UNCHANGED <<ctx, results, open>> /\ rec'[k].job = rec[k].job
        /\ \A l \in Workers \ {k} : stage'[l] = stage[l] /\ rec'[l] = rec[l]
    BY <1>0, <1>8 DEF CheckTakeover, Goto, Busy, Records
  <2>2. ASSUME rec[k].job = j PROVE Barren(open'[k], rec'[k])
    <3>1. Barren(open[k], rec[k])
      BY <2>1, <2>2 DEF Spared
    <3>2. UNCHANGED rec
      BY <1>8, <3>1, CNAMEIsApart DEF CheckTakeover, Barren
    <3> QED BY <2>1, <3>1, <3>2
  <2> QED BY <2>1, <2>2, WorkSpares
<1>9. ASSUME NEW k \in Workers, ExistsEnds(k) PROVE Spared(j)'
  <2>1. /\ Busy(k) /\ UNCHANGED <<ctx, results, open>> /\ rec'[k].job = rec[k].job
        /\ \A l \in Workers \ {k} : stage'[l] = stage[l] /\ rec'[l] = rec[l]
    BY <1>0, <1>9 DEF ExistsEnds, Goto, Busy, Records
  <2>2. rec[k].job # j
    <3>1. rec[k].takeover.target \in Service
      BY <1>9 DEF ExistsEnds, Inv, Sound, InHand
    <3>2. rec[k].takeover # NoFinding
      BY <3>1, EnrichmentAssumption DEF NoFinding, EnrichmentAssumption
    <3> QED BY <2>1, <3>2 DEF Spared, Barren
  <2> QED BY <2>1, <2>2, WorkSpares
<1>10. ASSUME NEW k \in Workers, AppendRecord(k) PROVE Spared(j)'
  <2> DEFINE n == Len(results) + 1
  <2>1. /\ Busy(k) /\ results' = Append(results, rec[k]) /\ UNCHANGED <<ctx, open, rec>>
        /\ \A l \in Workers : Busy(l)' => Busy(l)
    BY <1>0, <1>10 DEF AppendRecord, Goto, Busy
  <2>2. /\ DOMAIN results' = DOMAIN results \cup {n} /\ results'[n] = rec[k]
        /\ \A i \in DOMAIN results : results'[i] = results[i]
    BY <1>0, <2>1
  <2> HIDE DEF n
  <2>3. rec[k].job = j => ~rec[k].takeover.dangling
    BY <2>1 DEF Spared, Barren, NoFinding
  <2>4. j \notin FalseAlarms'
    <3> SUFFICES ASSUME NEW i \in DOMAIN results', results'[i].takeover.dangling,
                        results'[i].takeover.target \notin Dangling, results'[i].job = j
                 PROVE  FALSE
      BY DEF FalseAlarms
    <3>1. i # n
      BY <2>2, <2>3
    <3> QED BY <2>2, <3>1 DEF Spared, FalseAlarms
  <2> QED BY <2>1, <2>4 DEF Spared
<1>11. ASSUME NEW k \in Workers, Exit(k) PROVE Spared(j)'
  <2>1. UNCHANGED <<ctx, results, open, rec>> /\ \A l \in Workers : Busy(l)' <=> Busy(l)
    BY <1>0, <1>11 DEF Exit, Goto, Busy
  <2> QED BY <2>1 DEF Spared, FalseAlarms
<1> QED BY <1>1, <1>2, <1>3, <1>4, <1>5, <1>6, <1>7, <1>8, <1>9, <1>10, <1>11 DEF Next, WorkerStep

\* A host is flagged for a target that exists only if it was in a worker's hands
\* when the context ended: none is flagged before, and none sent later ever is
\* (resolver.go:161, takeover.go:79-103).
THEOREM FalseAlarmsAreOfTheEndHolds == Spec => FalseAlarmsAreOfTheEnd
<1>1. CASE QueriesFail
  BY <1>1 DEF FalseAlarmsAreOfTheEnd
<1>2. CASE ~QueriesFail
  <2>1. Inv => (ctx = "live" => FalseAlarms = {})
    BY <1>2 DEF Inv, AllWhole, Whole, Explained, FalseAlarms
  <2>2. Spec => [](ctx = "live" => FalseAlarms = {})
    BY <2>1, InvHolds, PTL
  <2>3. ASSUME NEW j \in Jobs
        PROVE  Spec => [](ctx # "live" /\ next <= j => [](j \notin FalseAlarms))
    <3>1. Inv /\ ctx # "live" /\ next <= j => Spared(j)
      BY SparedAtFirst
    <3>2. Inv /\ Spared(j) /\ [Next]_vars => Spared(j)'
      BY SparedForEver
    <3>3. Spared(j) => j \notin FalseAlarms
      BY DEF Spared
    <3> QED BY <3>1, <3>2, <3>3, InvHolds, PTL DEF Spec
  <2> QED BY <2>2, <2>3 DEF FalseAlarmsAreOfTheEnd
<1> QED BY <1>1, <1>2
------------------------------------------------------------------------------
(* The refinement: how often a position is in the slice, as EnrichAbs counts *)

Counts(res) == [j \in Jobs |-> Cardinality({i \in DOMAIN res : res[i].job = j})]
Once(res) == \A i, n \in DOMAIN res : res[i].job = res[n].job => i = n

LEMMA CountOf ==
    ASSUME NEW res, Once(res), NEW j \in Jobs
    PROVE  Counts(res)[j] = IF \E i \in DOMAIN res : res[i].job = j THEN 1 ELSE 0
<1> DEFINE at == {i \in DOMAIN res : res[i].job = j}
<1>1. CASE \E i \in DOMAIN res : res[i].job = j
  <2>1. PICK i \in DOMAIN res : res[i].job = j
    BY <1>1
  <2>2. at = {i}
    BY <2>1 DEF Once
  <2> QED BY <1>1, <2>2, FS_Singleton DEF Counts
<1>2. CASE ~\E i \in DOMAIN res : res[i].job = j
  <2>1. at = {}
    BY <1>2
  <2> QED BY <1>2, <2>1, FS_EmptySet DEF Counts
<1> QED BY <1>1, <1>2

\* One record more, of a position that had none.
LEMMA CountsOfAppend ==
    ASSUME NEW res \in Seq(Records), NEW r \in Records, r.job \in Jobs,
           Once(res), \A i \in DOMAIN res : res[i].job # r.job
    PROVE  /\ Counts(res)[r.job] = 0
           /\ Counts(Append(res, r)) = [Counts(res) EXCEPT ![r.job] = 1]
<1> DEFINE more == Append(res, r)
           n == Len(res) + 1
<1>1. /\ DOMAIN more = DOMAIN res \cup {n} /\ n \notin DOMAIN res /\ more[n] = r
      /\ \A i \in DOMAIN res : more[i] = res[i]
  OBVIOUS
<1> HIDE DEF more, n
<1>2. Once(more)
  BY <1>1 DEF Once
<1>3. Counts(res)[r.job] = 0
  BY CountOf
<1>4. \A j \in Jobs : Counts(more)[j] = IF j = r.job THEN 1 ELSE Counts(res)[j]
  <2> SUFFICES ASSUME NEW j \in Jobs PROVE Counts(more)[j] = IF j = r.job THEN 1 ELSE Counts(res)[j]
    OBVIOUS
  <2>1. Counts(more)[j] = IF \E i \in DOMAIN more : more[i].job = j THEN 1 ELSE 0
    BY <1>2, CountOf
  <2>2. Counts(res)[j] = IF \E i \in DOMAIN res : res[i].job = j THEN 1 ELSE 0
    BY CountOf
  <2>3. (\E i \in DOMAIN more : more[i].job = j) <=> j = r.job \/ \E i \in DOMAIN res : res[i].job = j
    BY <1>1
  <2> QED BY <2>1, <2>2, <2>3
<1>5. Counts(more) = [Counts(res) EXCEPT ![r.job] = 1]
  <2>1. /\ Counts(more) = [j \in Jobs |-> Counts(more)[j]]
        /\ Counts(res) = [j \in Jobs |-> Counts(res)[j]]
    BY DEF Counts
  <2> HIDE DEF Counts
  <2> QED BY <1>4, <2>1
<1> QED BY <1>3, <1>5 DEF more

LEMMA AbsInit == Init => Abs!Init
<1> SUFFICES ASSUME Init PROVE Abs!Init
  OBVIOUS
<1>1. \A j \in Jobs : {i \in DOMAIN results : results[i].job = j} = {}
  BY DEF Init
<1>2. [j \in Jobs |-> Cardinality({i \in DOMAIN results : results[i].job = j})] = [j \in Jobs |-> 0]
  BY <1>1, FS_EmptySet
<1>3. (main = "returned") = FALSE
  BY DEF Init
<1> QED BY <1>2, <1>3 DEF Abs!Init

LEMMA AbsNext == Inv /\ [Next]_vars => [Abs!Next]_(Abs!absVars)
<1> SUFFICES ASSUME Inv, [Next]_vars PROVE [Abs!Next]_(Abs!absVars)
  OBVIOUS
<1>0. Once(results) /\ results \in Seq(Records)
  BY DEF Inv, Disjoint, Once, TypeOK
<1>1. ASSUME UNCHANGED results, main' = main \/ (main # "returned" /\ main' # "returned")
      PROVE  UNCHANGED Abs!absVars
  <2>1. (main' = "returned") = (main = "returned")
    BY <1>1
  <2> QED BY <1>1, <2>1 DEF Abs!absVars
<1>2. ASSUME NEW k \in Workers, AppendRecord(k) PROVE Abs!Next
  <2> DEFINE r == rec[k]
  <2>1. results' = Append(results, r) /\ main' = main /\ r \in Records /\ Busy(k)
    BY <1>2 DEF AppendRecord, Inv, TypeOK, Busy
  <2>2. r.job \in Jobs
    <3>1. r.job \in 1..next - 1 /\ next \in 1..NHosts + 1 /\ NHosts \in Nat
      BY <2>1, EnrichmentAssumption DEF Inv, Sent, TypeOK, EnrichmentAssumption
    <3> QED BY <3>1 DEF Jobs
  <2>3. \A i \in DOMAIN results : results[i].job # r.job
    BY <2>1 DEF Inv, Disjoint
  <2>4. /\ Counts(results)[r.job] = 0
        /\ Counts(results') = [Counts(results) EXCEPT ![r.job] = 1]
    BY <1>0, <2>1, <2>2, <2>3, CountsOfAppend
  <2>5. (main' = "returned") = (main = "returned")
    BY <2>1
  <2>6. Abs!Record(r.job)
    BY <2>4, <2>5 DEF Abs!Record, Counts
  <2> QED BY <2>2, <2>6 DEF Abs!Next
<1>3. CASE Return
  <2>1. main = "waiting" /\ main' = "returned" /\ results' = results
        /\ \A k \in Workers : stage[k] = "exited"
    BY <1>3 DEF Return, PoolDone
  <2>2. next - 1 = NHosts
    BY <2>1, EnrichmentAssumption DEF Inv, Closing, EnrichmentAssumption
  <2>3. \A j \in Jobs : \E i \in DOMAIN results : results[i].job = j
    BY <2>1, <2>2 DEF Inv, Sent, Busy, Jobs
  <2>4. \A j \in Jobs : Counts(results)[j] = 1
    BY <1>0, <2>3, CountOf
  <2>5. (main = "returned") = FALSE /\ (main' = "returned") = TRUE
    BY <2>1
  <2>6. Abs!Report
    BY <2>1, <2>4, <2>5 DEF Abs!Report, Counts
  <2> QED BY <2>6 DEF Abs!Next
<1>4. CASE UNCHANGED vars
  BY <1>1, <1>4 DEF vars
<1>5. ASSUME NEW cause \in CtxCauses, CtxEnds(cause) PROVE UNCHANGED Abs!absVars
  BY <1>1, <1>5 DEF CtxEnds
<1>6. CASE Close
  BY <1>1, <1>6 DEF Close
<1>7. ASSUME NEW k \in Workers,
             \/ Send(k) \/ DnsJoins(k) \/ OwnersJoin(k) \/ CheckTakeover(k) \/ ExistsEnds(k)
             \/ Exit(k)
             \/ \E t \in QTypes : QueryEnds(k, t)
             \/ \E addr \in Strings : OwnerEnds(k, addr)
      PROVE  UNCHANGED Abs!absVars
  BY <1>1, <1>7 DEF Send, DnsJoins, OwnersJoin, CheckTakeover, ExistsEnds, Exit, QueryEnds,
                       OwnerEnds
<1> QED BY <1>2, <1>3, <1>4, <1>5, <1>6, <1>7 DEF Next, WorkerStep

\* EnrichHosts keeps its promise: one record for every position of the host
\* list, then the report, however many workers interleave (scan.go:228-292).
THEOREM OneRecordEachHolds == Spec => OneRecordEach
<1>1. Spec => Abs!Init /\ [][Abs!Next]_(Abs!absVars)
  BY AbsInit, AbsNext, InvHolds, PTL DEF Spec
<1> QED BY <1>1 DEF OneRecordEach, Abs!Spec
------------------------------------------------------------------------------
(* Progress *)

\* What a worker waits for is a query or a lookup of its own stage, and no
\* worker leaves before the channel is closed.
Fanned ==
    /\ \A k \in Workers : stage[k] = "dns" => open[k] \subseteq QTypes
    /\ \A k \in Workers : stage[k] = "owner" => open[k] \subseteq Strings
    /\ \A k \in Workers : stage[k] = "exited" => Closed

LEMMA FannedHolds == Spec => []Fanned
<1>1. Init => Fanned
  BY DEF Init, Fanned
<1>2. ASSUME Inv, Fanned, [Next]_vars PROVE Fanned'
  <2>0. /\ stage \in [Workers -> Stages] /\ open \in [Workers -> SUBSET (QTypes \cup Strings)]
        /\ rec \in [Workers -> Records]
    BY <1>2 DEF Inv, TypeOK
  <2> USE <1>2, <2>0 DEF Fanned, Closed
  <2>1. ASSUME NEW cause \in CtxCauses, CtxEnds(cause) PROVE Fanned'
    BY <2>1 DEF CtxEnds
  <2>2. CASE Close \/ Return
    BY <2>2 DEF Close, Return
  <2>3. ASSUME NEW k \in Workers, Send(k) PROVE Fanned'
    BY <2>3 DEF Send, Goto, QueriesOut
  <2>4. ASSUME NEW k \in Workers, NEW t \in QTypes, QueryEnds(k, t) PROVE Fanned'
    BY <2>4 DEF QueryEnds
  <2>5. ASSUME NEW k \in Workers, NEW addr \in Strings, OwnerEnds(k, addr) PROVE Fanned'
    BY <2>5 DEF OwnerEnds
  <2>6. ASSUME NEW k \in Workers, DnsJoins(k) PROVE Fanned'
    <3>1. Addresses(rec[k]) \subseteq Strings /\ open[k] = {}
      BY <2>6, AddressesType DEF DnsJoins, Joined
    <3> QED BY <2>6, <3>1 DEF DnsJoins, Goto
  <2>7. ASSUME NEW k \in Workers, OwnersJoin(k) \/ CheckTakeover(k) \/ ExistsEnds(k)
                               \/ AppendRecord(k) \/ Exit(k)
        PROVE  Fanned'
    BY <2>7 DEF OwnersJoin, CheckTakeover, ExistsEnds, AppendRecord, Exit, Goto
  <2>8. CASE UNCHANGED vars
    BY <2>8 DEF vars
  <2> QED BY <2>1, <2>2, <2>3, <2>4, <2>5, <2>6, <2>7, <2>8 DEF Next, WorkerStep
<1> QED BY <1>1, <1>2, InvHolds, PTL DEF Spec

LEMMA FromOf ==
    /\ From("send") = {"send", "dns", "owner", "takeover", "exists", "append"}
    /\ From("dns") = {"dns", "owner", "takeover", "exists", "append"}
    /\ From("owner") = {"owner", "takeover", "exists", "append"}
    /\ From("takeover") = {"takeover", "exists", "append"}
    /\ From("exists") = {"exists", "append"} /\ From("append") = {"append"}
    /\ From("idle") = {} /\ From("exited") = {}
BY DEF From

\* What is ahead gets less.
NoMore == /\ CtxAhead' \subseteq CtxAhead /\ MainAhead' \subseteq MainAhead
          /\ Work' \subseteq Work /\ Queries' \subseteq Queries /\ Asks' \subseteq Asks
          /\ Pool' \subseteq Pool
Less == NoMore /\ ~UNCHANGED <<CtxAhead, MainAhead, Work, Queries, Asks, Pool>>

\* A step of worker k takes its host no more than it owed, when its job stays,
\* its stage is one further or the same, and its open calls are no more.
LEMMA WorkerOwesLess ==
    ASSUME Inv, NEW k \in Workers, UNCHANGED <<ctx, main, next>>,
           \A l \in Workers : rec'[l].job = rec[l].job,
           \A l \in Workers \ {k} : stage'[l] = stage[l] /\ open'[l] = open[l],
           From(stage'[k]) \subseteq From(stage[k]), stage[k] # "exited",
           stage'[k] = "dns" => stage[k] = "dns" /\ open'[k] \subseteq open[k],
           stage'[k] = "owner" => stage[k] = "dns" \/ (stage[k] = "owner" /\ open'[k] \subseteq open[k])
    PROVE  NoMore
<1>1. CtxAhead' = CtxAhead /\ MainAhead' = MainAhead
  BY DEF CtxAhead, MainAhead
<1>2. \A l \in Workers : From(stage'[l]) \subseteq From(stage[l])
  OBVIOUS
<1>3. Work' \subseteq Work
  BY <1>2 DEF Work, Owes
<1>4. \A l \in Workers, j \in Jobs, t \in QTypes : OwesQuery(l, j, t)' => OwesQuery(l, j, t)
  BY DEF OwesQuery
<1>5. Queries' \subseteq Queries
  BY <1>4 DEF Queries
<1>6. \A l \in Workers, j \in Jobs, addr \in Strings : OwesLookup(l, j, addr)' => OwesLookup(l, j, addr)
  BY DEF OwesLookup
<1>7. Asks' \subseteq Asks
  BY <1>6 DEF Asks
<1>8. Pool' \subseteq Pool
  BY DEF Pool
<1> QED BY <1>1, <1>3, <1>5, <1>7, <1>8 DEF NoMore

\* The position a busy worker has is with no other worker and has left the loop.
LEMMA OwnJob ==
    ASSUME Inv, NEW k \in Workers, Busy(k)
    PROVE  /\ rec[k].job \in Jobs /\ ~(next <= rec[k].job)
           /\ \A l \in Workers \ {k} : rec[l].job = rec[k].job => From(stage[l]) = {} /\ ~Busy(l)
<1>1. rec[k].job \in 1..next - 1 /\ next \in 1..NHosts + 1 /\ NHosts \in Nat
  BY EnrichmentAssumption DEF Inv, Sent, TypeOK, EnrichmentAssumption
<1>2. \A l \in Workers \ {k} : rec[l].job = rec[k].job => ~Busy(l)
  BY DEF Inv, Disjoint
<1>3. \A l \in Workers : ~Busy(l) => From(stage[l]) = {}
  BY FromOf DEF Busy, Inv, TypeOK, Stages
<1>4. rec[k].job \in Jobs /\ ~(next <= rec[k].job)
  BY <1>1 DEF Jobs
<1> QED BY <1>2, <1>3, <1>4

LEMMA StepsAreSpent == ASSUME Inv, Fanned, Next PROVE Less
<1>0. /\ next \in 1..NHosts + 1 /\ NHosts \in Nat /\ stage \in [Workers -> Stages]
      /\ open \in [Workers -> SUBSET (QTypes \cup Strings)] /\ rec \in [Workers -> Records]
  BY EnrichmentAssumption DEF Inv, TypeOK, EnrichmentAssumption
<1>1. ASSUME NEW cause \in CtxCauses, CtxEnds(cause) PROVE Less
  <2>1. "live" \in CtxAhead \ CtxAhead' /\ CtxAhead' \subseteq CtxAhead
    BY <1>1, EnrichmentAssumption DEF CtxEnds, CtxAhead, EnrichmentAssumption
  <2> QED BY <1>1, <2>1 DEF CtxEnds, Less, NoMore, MainAhead, Work, Owes, Queries, OwesQuery,
                            Asks, OwesLookup, Pool
<1>2. CASE Close \/ Return
  <2>1. /\ MainAhead' \subseteq MainAhead /\ MainAhead' # MainAhead
        /\ UNCHANGED <<ctx, next, stage, open, rec>>
    BY <1>2 DEF Close, Return, MainAhead
  <2> QED BY <2>1 DEF Less, NoMore, CtxAhead, Work, Owes, Queries, OwesQuery, Asks, OwesLookup, Pool
<1>3. ASSUME NEW k \in Workers, Send(k) PROVE Less
  <2>1. /\ next \in Jobs /\ next' = next + 1 /\ stage[k] = "idle" /\ UNCHANGED <<ctx, main>>
        /\ stage' = [stage EXCEPT ![k] = "dns"] /\ open' = [open EXCEPT ![k] = QueriesOut]
        /\ rec' = [rec EXCEPT ![k] = Blank(next)] /\ Blank(next).job = next
    BY <1>0, <1>3, BlankType DEF Send, More, Goto, Jobs
  <2>2. /\ stage'[k] = "dns" /\ rec'[k].job = next
        /\ \A l \in Workers \ {k} : stage'[l] = stage[l] /\ open'[l] = open[l] /\ rec'[l] = rec[l]
    BY <1>0, <2>1
  <2>3. \A j \in Jobs : next' <= j => next <= j
    BY <1>0, <2>1 DEF Jobs
  <2>4. Work' \subseteq Work
    <3>1. \A l \in Workers, j \in Jobs, g \in From("send") : Owes(l, j, g)' => next <= j \/ Owes(l, j, g)
      BY <1>0, <2>2 DEF Owes
    <3> QED BY <2>3, <3>1 DEF Work
  <2>5. Queries' \subseteq Queries
    <3>1. \A l \in Workers, j \in Jobs, t \in QTypes :
            OwesQuery(l, j, t)' => next <= j \/ OwesQuery(l, j, t)
      BY <1>0, <2>2 DEF OwesQuery
    <3> QED BY <2>3, <3>1 DEF Queries
  <2>6. Asks' \subseteq Asks
    <3>1. \A l \in Workers, j \in Jobs, addr \in Strings :
            OwesLookup(l, j, addr)' => next <= j \/ OwesLookup(l, j, addr)
      BY <1>0, <2>2 DEF OwesLookup
    <3> QED BY <2>3, <3>1 DEF Asks
  <2>7. <<next, "send">> \in Work \ Work'
    <3>1. \A l \in Workers : "send" \notin From(stage'[l])
      BY <1>0, <2>1, FromOf DEF Stages
    <3>2. ~(next' <= next)
      BY <1>0, <2>1
    <3> QED BY <1>0, <2>1, <3>1, <3>2, FromOf DEF Work, Owes
  <2>8. CtxAhead' = CtxAhead /\ MainAhead' = MainAhead /\ Pool' = Pool
    BY <1>0, <2>1 DEF CtxAhead, MainAhead, Pool
  <2> QED BY <2>4, <2>5, <2>6, <2>7, <2>8 DEF Less, NoMore
<1>4. ASSUME NEW k \in Workers, NEW t \in QTypes, QueryEnds(k, t) PROVE Less
  <2>1. /\ stage[k] = "dns" /\ t \in open[k] /\ UNCHANGED <<ctx, main, next, stage>>
        /\ open' = [open EXCEPT ![k] = @ \ {t}]
        /\ \A l \in Workers : rec'[l].job = rec[l].job
    BY <1>0, <1>4, QueryIsJoined DEF QueryEnds, Records
  <2>2. NoMore
    BY <1>0, <2>1, WorkerOwesLess
  <2>3. <<rec[k].job, t>> \in Queries \ Queries'
    <3>1. Busy(k) /\ rec[k].job \in Jobs /\ ~(next <= rec[k].job)
          /\ \A l \in Workers \ {k} : rec[l].job = rec[k].job => ~Busy(l)
      BY <2>1, OwnJob DEF Busy
    <3>2. \A l \in Workers : ~OwesQuery(l, rec[k].job, t)'
      BY <1>0, <2>1, <3>1 DEF OwesQuery, Busy
    <3> QED BY <2>1, <3>1, <3>2 DEF Queries, OwesQuery
  <2> QED BY <2>2, <2>3 DEF Less
<1>5. ASSUME NEW k \in Workers, NEW addr \in Strings, OwnerEnds(k, addr) PROVE Less
  <2>1. /\ stage[k] = "owner" /\ addr \in open[k] /\ UNCHANGED <<ctx, main, next, stage>>
        /\ open' = [open EXCEPT ![k] = @ \ {addr}]
        /\ \A l \in Workers : rec'[l].job = rec[l].job
    <3>1. CASE rec' = [rec EXCEPT ![k].owners = @ \cup {addr}]
      BY <1>0, <1>5, <3>1 DEF OwnerEnds, Records
    <3>2. CASE rec' = [rec EXCEPT ![k].refused = @ \cup {addr}]
      BY <1>0, <1>5, <3>2 DEF OwnerEnds, Records
    <3> QED BY <1>5, <3>1, <3>2 DEF OwnerEnds
  <2>2. NoMore
    BY <1>0, <2>1, WorkerOwesLess
  <2>3. <<rec[k].job, addr>> \in Asks \ Asks'
    <3>1. Busy(k) /\ rec[k].job \in Jobs /\ ~(next <= rec[k].job)
          /\ \A l \in Workers \ {k} : rec[l].job = rec[k].job => ~Busy(l)
      BY <2>1, OwnJob DEF Busy
    <3>2. \A l \in Workers : ~OwesLookup(l, rec[k].job, addr)'
      BY <1>0, <2>1, <3>1 DEF OwesLookup, Busy
    <3> QED BY <2>1, <3>1, <3>2 DEF Asks, OwesLookup
  <2> QED BY <2>2, <2>3 DEF Less
\* The step from one stage to a later one.
<1>6. ASSUME NEW k \in Workers,
             DnsJoins(k) \/ OwnersJoin(k) \/ CheckTakeover(k) \/ ExistsEnds(k) \/ AppendRecord(k)
      PROVE  Less
  <2>1. /\ Busy(k) /\ UNCHANGED <<ctx, main, next>> /\ stage' = [stage EXCEPT ![k] = stage'[k]]
        /\ \/ stage[k] = "dns" /\ stage'[k] = "owner"
           \/ stage[k] = "owner" /\ stage'[k] \in {"takeover", "append"}
           \/ stage[k] = "takeover" /\ stage'[k] \in {"exists", "append"}
           \/ stage[k] = "exists" /\ stage'[k] = "append"
           \/ stage[k] = "append" /\ stage'[k] = "idle"
        /\ \A l \in Workers \ {k} : open'[l] = open[l]
    <3>1. CASE DnsJoins(k)
      BY <1>0, <3>1 DEF DnsJoins, Goto, Busy
    <3>2. CASE OwnersJoin(k)
      BY <1>0, <3>2 DEF OwnersJoin, Goto, Busy
    <3>3. CASE CheckTakeover(k)
      BY <1>0, <3>3 DEF CheckTakeover, Goto, Busy
    <3>4. CASE ExistsEnds(k)
      BY <1>0, <3>4 DEF ExistsEnds, Goto, Busy
    <3>5. CASE AppendRecord(k)
      BY <1>0, <3>5 DEF AppendRecord, Goto, Busy
    <3> QED BY <1>6, <3>1, <3>2, <3>3, <3>4, <3>5
  <2>2. \A l \in Workers : rec'[l].job = rec[l].job
    <3>1. Merged(rec[k]).job = rec[k].job
      BY <1>0, MergedOf
    <3>2. CASE DnsJoins(k)
      BY <1>0, <3>1, <3>2 DEF DnsJoins
    <3>3. CASE OwnersJoin(k) \/ AppendRecord(k)
      BY <3>3 DEF OwnersJoin, AppendRecord
    <3>4. CASE CheckTakeover(k)
      <4>1. UNCHANGED rec \/ \E f : rec' = [rec EXCEPT ![k].takeover = f]
        BY <3>4 DEF CheckTakeover
      <4> QED BY <1>0, <4>1 DEF Records
    <3>5. CASE ExistsEnds(k)
      BY <1>0, <3>5 DEF ExistsEnds, Records
    <3> QED BY <1>6, <3>2, <3>3, <3>4, <3>5
  <2>3. /\ From(stage'[k]) \subseteq From(stage[k]) \ {stage[k]} /\ stage[k] \in From(stage[k])
        /\ stage[k] \in From("send") /\ stage[k] # "exited" /\ stage'[k] # "dns"
        /\ stage'[k] = "owner" => stage[k] = "dns"
    BY <2>1, FromOf
  <2>4. NoMore
    BY <1>0, <2>1, <2>2, <2>3, WorkerOwesLess
  <2>5. <<rec[k].job, stage[k]>> \in Work \ Work'
    <3>1. /\ rec[k].job \in Jobs /\ ~(next <= rec[k].job)
          /\ \A l \in Workers \ {k} : rec[l].job = rec[k].job => From(stage[l]) = {}
      BY <2>1, OwnJob
    <3>2. \A l \in Workers : ~(rec'[l].job = rec[k].job /\ stage[k] \in From(stage'[l]))
      BY <1>0, <2>1, <2>2, <2>3, <3>1
    <3> QED BY <2>1, <2>3, <3>1, <3>2 DEF Work, Owes
  <2> QED BY <2>4, <2>5 DEF Less
<1>7. ASSUME NEW k \in Workers, Exit(k) PROVE Less
  <2>1. /\ stage[k] = "idle" /\ stage' = [stage EXCEPT ![k] = "exited"]
        /\ UNCHANGED <<ctx, main, next, open, rec>>
    BY <1>7 DEF Exit, Goto
  <2>2. NoMore
    BY <1>0, <2>1, FromOf, WorkerOwesLess
  <2>3. k \in Pool \ Pool'
    BY <1>0, <2>1 DEF Pool
  <2> QED BY <2>2, <2>3 DEF Less
<1> QED BY <1>1, <1>2, <1>3, <1>4, <1>5, <1>6, <1>7 DEF Next, WorkerStep

\* While EnrichHosts has not returned its loop meets an idle worker, or a worker
\* has a host and is not stuck with it, or all that is left is to leave.
LEMMA NeverStuck == Inv /\ Fanned => (main # "returned" => CanMove)
<1> SUFFICES ASSUME Inv, Fanned, main \in {"sending", "waiting"} PROVE CanMove
  BY DEF Inv, TypeOK
<1>0. \A k \in Workers : stage[k] \in Stages
  BY DEF Inv, TypeOK
<1>1. CASE \E k \in Workers : Busy(k)
  <2>1. PICK k \in Workers : Busy(k)
    BY <1>1
  <2>2. /\ stage[k] = "dns" => Joined(k) \/ open[k] \cap QTypes # {}
        /\ stage[k] = "owner" => Joined(k) \/ open[k] \cap Strings # {}
    BY DEF Fanned, Joined
  <2> QED BY <2>1, <2>2 DEF CanMove, Busy
<1>2. CASE \A k \in Workers : stage[k] \in {"idle", "exited"}
  <2>1. CASE main = "sending"
    <3>1. PICK k \in Workers : TRUE
      BY EnrichmentAssumption DEF EnrichmentAssumption
    <3>2. stage[k] = "idle"
      BY <1>2, <2>1 DEF Fanned, Closed
    <3> QED BY <2>1, <3>2 DEF CanMove
  <2>2. CASE main = "waiting"
    BY <1>2, <2>2 DEF CanMove, PoolDone, Closed
  <2> QED BY <2>1, <2>2
<1> QED BY <1>0, <1>1, <1>2 DEF Busy, Stages

LEMMA PairIsFinite ==
    ASSUME NEW a, NEW b, a # b
    PROVE  IsFiniteSet({a, b}) /\ Cardinality({a, b}) = 2
<1>1. IsFiniteSet({a}) /\ Cardinality({a}) = 1
  BY FS_Singleton
<1>2. IsFiniteSet({a} \cup {b}) /\ Cardinality({a} \cup {b}) = 2
  BY <1>1, FS_AddElement
<1>3. {a} \cup {b} = {a, b}
  OBVIOUS
<1> QED BY <1>2, <1>3

LEMMA StagesFinite == IsFiniteSet(From("send")) /\ Cardinality(From("send")) = 6
<1>1. IsFiniteSet({"send", "dns"}) /\ Cardinality({"send", "dns"}) = 2
  BY PairIsFinite
<1>2. /\ IsFiniteSet({"send", "dns"} \cup {"owner"})
      /\ Cardinality({"send", "dns"} \cup {"owner"}) = 3
  BY <1>1, FS_AddElement
<1>3. /\ IsFiniteSet(({"send", "dns"} \cup {"owner"}) \cup {"takeover"})
      /\ Cardinality(({"send", "dns"} \cup {"owner"}) \cup {"takeover"}) = 4
  BY <1>2, FS_AddElement
<1>4. /\ IsFiniteSet((({"send", "dns"} \cup {"owner"}) \cup {"takeover"}) \cup {"exists"})
      /\ Cardinality((({"send", "dns"} \cup {"owner"}) \cup {"takeover"}) \cup {"exists"}) = 5
  BY <1>3, FS_AddElement
<1> DEFINE five == (({"send", "dns"} \cup {"owner"}) \cup {"takeover"}) \cup {"exists"}
<1>5. five = {"send", "dns", "owner", "takeover", "exists"}
  OBVIOUS
<1>6. IsFiniteSet(five) /\ Cardinality(five) = 5 /\ "append" \notin five
  BY <1>4
<1> HIDE DEF five
<1>7. IsFiniteSet(five \cup {"append"}) /\ Cardinality(five \cup {"append"}) = 6
  BY <1>6, FS_AddElement
<1>8. five \cup {"append"} = From("send")
  BY <1>5, FromOf
<1> QED BY <1>7, <1>8

LEMMA TypesAreFinite == IsFiniteSet(QTypes) /\ Cardinality(QTypes) \in Nat
<1>1. QTypes \in SUBSET ({"A", "AAAA"} \cup {"CNAME"})
  BY EnrichmentAssumption DEF EnrichmentAssumption, QTypes
<1>2. IsFiniteSet({"A", "AAAA"} \cup {"CNAME"})
  BY PairIsFinite, FS_AddElement
<1> QED BY <1>1, <1>2, FS_Subset, FS_CardinalityType

LEMMA Finite ==
    /\ IsFiniteSet({"live"}) /\ Cardinality({"live"}) = 1
    /\ IsFiniteSet({"loop", "join"}) /\ Cardinality({"loop", "join"}) = 2
    /\ IsFiniteSet(Jobs \X From("send")) /\ Cardinality(Jobs \X From("send")) = NHosts * 6
    /\ IsFiniteSet(Jobs \X QTypes) /\ Cardinality(Jobs \X QTypes) = NHosts * Cardinality(QTypes)
    /\ IsFiniteSet(Jobs \X Strings) /\ Cardinality(Jobs \X Strings) = NHosts * Cardinality(Strings)
    /\ IsFiniteSet(Workers) /\ NHosts \in Nat
    /\ {Cardinality(QTypes), Cardinality(Strings), Cardinality(Workers)} \subseteq Nat
<1>1. NHosts \in Nat /\ IsFiniteSet(Workers) /\ IsFiniteSet(Strings)
  BY EnrichmentAssumption, FiniteAssumption, FS_Union
  DEF EnrichmentAssumption, FiniteAssumption, Strings
<1>2. IsFiniteSet(Jobs) /\ Cardinality(Jobs) = NHosts
  BY <1>1, FS_Interval DEF Jobs
<1>3. IsFiniteSet(Jobs \X From("send")) /\ Cardinality(Jobs \X From("send")) = NHosts * 6
  BY <1>2, StagesFinite, FS_Product
<1>4. IsFiniteSet(Jobs \X QTypes) /\ Cardinality(Jobs \X QTypes) = NHosts * Cardinality(QTypes)
  BY <1>2, TypesAreFinite, FS_Product
<1>5. IsFiniteSet(Jobs \X Strings) /\ Cardinality(Jobs \X Strings) = NHosts * Cardinality(Strings)
  BY <1>1, <1>2, FS_Product
<1>6. {Cardinality(QTypes), Cardinality(Strings), Cardinality(Workers)} \subseteq Nat
  BY <1>1, TypesAreFinite, FS_CardinalityType
<1> QED BY <1>1, <1>3, <1>4, <1>5, <1>6, FS_Singleton, PairIsFinite

LEMMA AheadIsFinite ==
    /\ IsFiniteSet(CtxAhead) /\ IsFiniteSet(MainAhead) /\ IsFiniteSet(Work)
    /\ IsFiniteSet(Queries) /\ IsFiniteSet(Asks) /\ IsFiniteSet(Pool)
<1>1. CtxAhead \in SUBSET {"live"} /\ MainAhead \in SUBSET {"loop", "join"}
  BY DEF CtxAhead, MainAhead
<1>2. /\ Work \in SUBSET (Jobs \X From("send")) /\ Queries \in SUBSET (Jobs \X QTypes)
      /\ Asks \in SUBSET (Jobs \X Strings) /\ Pool \in SUBSET Workers
  BY DEF Work, Queries, Asks, Pool
<1> QED BY <1>1, <1>2, Finite, FS_Subset

\* A part of what is ahead has fewer elements once it has lost one.
LEMMA Fewer ==
    ASSUME NEW S, NEW T, IsFiniteSet(S), T \subseteq S
    PROVE  /\ Cardinality(S) \in Nat /\ Cardinality(T) \in Nat /\ Cardinality(T) <= Cardinality(S)
           /\ T # S => Cardinality(T) < Cardinality(S)
<1>1. IsFiniteSet(T) /\ Cardinality(T) <= Cardinality(S) /\ (Cardinality(S) = Cardinality(T) => S = T)
  BY FS_Subset
<1> QED BY <1>1, FS_CardinalityType

LEMMA Distributes ==
    ASSUME NEW a \in Nat, NEW b \in Nat, NEW c \in Nat
    PROVE  a * (6 + b + c) = a * 6 + a * b + a * c
BY SMT

LEMMA AtFirst == Init => StepsAhead = 3 + NHosts * (6 + Cardinality(QTypes) + Cardinality(Strings))
                                        + Cardinality(Workers)
<1> SUFFICES ASSUME Init
             PROVE  StepsAhead = 3 + NHosts * (6 + Cardinality(QTypes) + Cardinality(Strings))
                                   + Cardinality(Workers)
  OBVIOUS
<1> DEFINE t == Cardinality(QTypes)
           s == Cardinality(Strings)
           w == Cardinality(Workers)
<1>1. CtxAhead = {"live"} /\ MainAhead = {"loop", "join"} /\ Pool = Workers
  BY DEF Init, CtxAhead, MainAhead, Pool
<1>2. \A j \in Jobs : next <= j
  BY EnrichmentAssumption DEF Init, Jobs, EnrichmentAssumption
<1>3. Work = Jobs \X From("send") /\ Queries = Jobs \X QTypes /\ Asks = Jobs \X Strings
  BY <1>2 DEF Work, Queries, Asks
<1>4. StepsAhead = 1 + 2 + NHosts * 6 + NHosts * t + NHosts * s + w
  BY <1>1, <1>3, Finite DEF StepsAhead
<1>5. NHosts \in Nat /\ t \in Nat /\ s \in Nat /\ w \in Nat
  BY Finite
<1>6. NHosts * (6 + t + s) = NHosts * 6 + NHosts * t + NHosts * s
  BY <1>5, Distributes
<1>7. NHosts * 6 \in Nat /\ NHosts * t \in Nat /\ NHosts * s \in Nat
  BY <1>5
<1> HIDE DEF t, s, w
<1>8. StepsAhead = 3 + NHosts * (6 + t + s) + w
  BY <1>4, <1>5, <1>6, <1>7
<1> QED BY <1>8 DEF t, s, w

\* EnrichHosts cannot go on for ever and cannot get stuck, whatever its hosts, the
\* answers and the number of workers (scan.go:240-289).
THEOREM ConvergesHolds == Spec => Converges
<1>1. ASSUME Inv, Fanned, [Next]_vars PROVE [StepsAhead' < StepsAhead]_vars
  <2> SUFFICES ASSUME Next PROVE StepsAhead' < StepsAhead
    BY <1>1
  <2>1. Less
    BY <1>1, StepsAreSpent
  <2>2. /\ Cardinality(CtxAhead') <= Cardinality(CtxAhead)
        /\ Cardinality(MainAhead') <= Cardinality(MainAhead)
        /\ Cardinality(Work') <= Cardinality(Work)
        /\ Cardinality(Queries') <= Cardinality(Queries)
        /\ Cardinality(Asks') <= Cardinality(Asks)
        /\ Cardinality(Pool') <= Cardinality(Pool)
        /\ {Cardinality(CtxAhead'), Cardinality(MainAhead'), Cardinality(Work'),
            Cardinality(Queries'), Cardinality(Asks'), Cardinality(Pool'),
            Cardinality(CtxAhead), Cardinality(MainAhead), Cardinality(Work),
            Cardinality(Queries), Cardinality(Asks), Cardinality(Pool)} \subseteq Nat
    BY <2>1, AheadIsFinite, Fewer DEF Less, NoMore
  <2>3. \/ Cardinality(CtxAhead') < Cardinality(CtxAhead)
        \/ Cardinality(MainAhead') < Cardinality(MainAhead)
        \/ Cardinality(Work') < Cardinality(Work)
        \/ Cardinality(Queries') < Cardinality(Queries)
        \/ Cardinality(Asks') < Cardinality(Asks)
        \/ Cardinality(Pool') < Cardinality(Pool)
    BY <2>1, AheadIsFinite, Fewer DEF Less, NoMore
  <2>4. StepsAhead' = Cardinality(CtxAhead') + Cardinality(MainAhead') + Cardinality(Work')
                      + Cardinality(Queries') + Cardinality(Asks') + Cardinality(Pool')
    BY DEF StepsAhead
  <2> QED BY <2>2, <2>3, <2>4 DEF StepsAhead
<1> QED BY <1>1, AtFirst, NeverStuck, InvHolds, FannedHolds, PTL DEF Spec, Converges
==============================================================================
