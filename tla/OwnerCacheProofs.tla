--------------------------- MODULE OwnerCacheProofs ---------------------------
(***************************************************************************)
(* Proofs about OwnerCache for all addresses, owners and numbers of        *)
(* goroutines.                                                             *)
(***************************************************************************)
EXTENDS OwnerCache, FiniteSetTheorems, TLAPS

LEMMA OwnerIsNotUnknown == \A o \in Owners : o # Unknown
<1> SUFFICES ASSUME NEW o \in Owners PROVE o # Unknown
  OBVIOUS
<1>1. "org" \in DOMAIN o /\ "org" \notin DOMAIN Unknown
  BY DEF Owners, Unknown
<1> QED BY <1>1

\* An owner cached or returned was named for its address.
Real(o, heard) == o # Unknown => o.ip \in IPs /\ o.org \in heard[o.ip]
Named == /\ \A i \in IPs : ipCache[i] # Unknown => ipCache[i].ip = i
         /\ \A i \in IPs : Real(ipCache[i], said)
         /\ \A c \in Callers : Real(result[c], said)

\* What a lookup has heard from rdap.org was said of its address.
Heard == \A c \in Callers : rdapResp[c] \notin {"open", "error"} =>
    asked[c] # "none" /\ rdapResp[c] \in said[asked[c]]

\* The lookups of a known address that are yet to store an owner, and those
\* that have, are different goroutines.
Room == \A i \in IPs :
    IF ipCache[i] = Unknown THEN stored[i] = 0
    ELSE stored[i] + Cardinality(InFlight(i)) <= Cardinality(Callers)

Inv == TypeOK /\ Named /\ Heard /\ Room

LEMMA InFlightFinite == ASSUME NEW i PROVE
    /\ IsFiniteSet(InFlight(i))
    /\ Cardinality(InFlight(i)) \in Nat /\ Cardinality(Callers) \in Nat
    /\ Cardinality(InFlight(i)) <= Cardinality(Callers)
<1>1. InFlight(i) \subseteq Callers
  BY DEF InFlight
<1> QED BY <1>1, FS_Subset, FS_CardinalityType, OwnerCacheAssumption DEF OwnerCacheAssumption

LEMMA Initially == Init => Inv
<1> SUFFICES ASSUME Init PROVE Inv
  OBVIOUS
<1> QED BY DEF Init, Inv, TypeOK, Named, Real, Heard, Room
------------------------------------------------------------------------------
\* The end of lookup c of address a: it is no longer in flight.
LEMMA ReturnLeaves ==
    ASSUME TypeOK, NEW c \in Callers, NEW a \in IPs, asked[c] = a, NEW r, Return(c, r)
    PROVE  /\ Cardinality(InFlight(a))' = Cardinality(InFlight(a)) - 1
           /\ Cardinality(InFlight(a)) > 0
           /\ \A i \in IPs \ {a} : InFlight(i)' = InFlight(i)
<1>0. /\ asked' = [asked EXCEPT ![c] = "none"] /\ asked \in [Callers -> IPs \cup {"none"}]
      /\ "none" \notin IPs
  BY OwnerCacheAssumption DEF Return, TypeOK, OwnerCacheAssumption
<1>1. c \in InFlight(a)
  BY DEF InFlight
<1>2. InFlight(a)' = InFlight(a) \ {c}
  BY <1>0 DEF InFlight
<1>3. \A i \in IPs \ {a} : InFlight(i)' = InFlight(i)
  BY <1>0 DEF InFlight
<1>4. Cardinality(InFlight(a) \ {c}) = Cardinality(InFlight(a)) - 1
  BY <1>1, InFlightFinite, FS_RemoveElement
<1>5. Cardinality(InFlight(a)) > 0
  BY <1>1, InFlightFinite, FS_EmptySet
<1> QED BY <1>2, <1>3, <1>4, <1>5

LEMMA ReturnTypes ==
    ASSUME TypeOK, NEW c \in Callers, NEW r \in Owners \cup {Unknown}, Return(c, r)
    PROVE  /\ asked' \in [Callers -> IPs \cup {"none"}]
           /\ rdapResp' \in [Callers -> Orgs \cup {"error", "open"}]
           /\ asn' \in [Callers -> ASNs \cup {"", "open"}]
           /\ result' \in [Callers -> Owners \cup {Unknown}]
           /\ \A d \in Callers : result'[d] = IF d = c THEN r ELSE result[d]
           /\ \A d \in Callers : rdapResp'[d] \notin {"open", "error"} =>
                rdapResp'[d] = rdapResp[d] /\ asked'[d] = asked[d]
BY DEF Return, TypeOK

LEMMA Inductive == Inv /\ [Next]_vars => Inv'
<1> SUFFICES ASSUME Inv, [Next]_vars PROVE Inv'
  OBVIOUS
<1>0. TypeOK /\ Named /\ Heard /\ Room
  BY DEF Inv
<1>1. ASSUME NEW c \in Callers, NEW i \in IPs, Hit(c, i) PROVE Inv'
  <2>1. TypeOK'
    BY <1>0, <1>1 DEF Hit, upstream, TypeOK, Cached
  <2>2. Named'
    BY <1>0, <1>1 DEF Hit, upstream, TypeOK, Named, Real
  <2>3. Heard' /\ Room'
    BY <1>0, <1>1 DEF Hit, upstream, Heard, Room, InFlight
  <2> QED BY <2>1, <2>2, <2>3 DEF Inv
<1>2. ASSUME NEW c \in Callers, NEW i \in IPs, Miss(c, i) PROVE Inv'
  <2>1. TypeOK'
    BY <1>0, <1>2 DEF Miss, upstream, TypeOK
  <2>2. Named'
    BY <1>0, <1>2 DEF Miss, upstream, Named, Real
  <2>3. Heard'
    BY <1>0, <1>2 DEF Miss, upstream, TypeOK, Heard
  <2>4. \A j \in IPs : ipCache[j] # Unknown => InFlight(j)' = InFlight(j)
    <3> SUFFICES ASSUME NEW j \in IPs, j # i PROVE InFlight(j)' = InFlight(j)
      BY <1>2 DEF Miss, Cached
    <3>1. \A d \in Callers : asked'[d] = j <=> asked[d] = j
      BY <1>0, <1>2, OwnerCacheAssumption DEF Miss, TypeOK, OwnerCacheAssumption
    <3> QED BY <3>1 DEF InFlight
  <2>5. Room'
    BY <1>0, <1>2, <2>4 DEF Miss, Room
  <2> QED BY <2>1, <2>2, <2>3, <2>5 DEF Inv
<1>3. ASSUME NEW c \in Callers, NEW org \in Orgs, RdapAnswers(c, org) PROVE Inv'
  <2>0. asked[c] \in IPs
    BY <1>0, <1>3 DEF RdapAnswers, TypeOK
  <2>1. TypeOK'
    BY <1>0, <1>3, <2>0 DEF RdapAnswers, TypeOK
  <2>2. \A i \in IPs : said[i] \subseteq said'[i]
    BY <1>0, <1>3 DEF RdapAnswers, TypeOK
  <2>3. Named'
    <3>1. \A o : Real(o, said) => Real(o, said')
      BY <2>2 DEF Real
    <3> QED BY <1>0, <1>3, <3>1 DEF RdapAnswers, Named
  <2>4. Heard'
    <3> SUFFICES ASSUME NEW d \in Callers, rdapResp'[d] \notin {"open", "error"}
                 PROVE asked'[d] # "none" /\ rdapResp'[d] \in said'[asked'[d]]
      BY DEF Heard
    <3>1. CASE d = c
      BY <1>0, <1>3, <2>0, <3>1 DEF RdapAnswers, TypeOK
    <3>2. CASE d # c
      <4>1. rdapResp'[d] = rdapResp[d] /\ asked'[d] = asked[d]
        BY <1>0, <1>3, <3>2 DEF RdapAnswers, TypeOK
      <4>2. asked[d] \in IPs /\ rdapResp[d] \in said[asked[d]] /\ asked[d] # "none"
        BY <1>0, <4>1 DEF Heard, TypeOK
      <4> QED BY <2>2, <4>1, <4>2
    <3> QED BY <3>1, <3>2
  <2>5. Room'
    BY <1>0, <1>3 DEF RdapAnswers, Room, InFlight
  <2> QED BY <2>1, <2>3, <2>4, <2>5 DEF Inv
<1>4. ASSUME NEW c \in Callers, RdapFails(c) PROVE Inv'
  <2>1. TypeOK'
    BY <1>0, <1>4 DEF RdapFails, TypeOK
  <2>2. Named' /\ Room'
    BY <1>0, <1>4 DEF RdapFails, Named, Real, Room, InFlight
  <2>3. Heard'
    BY <1>0, <1>4 DEF RdapFails, TypeOK, Heard
  <2> QED BY <2>1, <2>2, <2>3 DEF Inv
<1>5. ASSUME NEW c \in Callers, NEW as \in ASNs \cup {""}, AsnEnds(c, as) PROVE Inv'
  <2>1. TypeOK'
    BY <1>0, <1>5 DEF AsnEnds, TypeOK
  <2>2. Named' /\ Heard' /\ Room'
    BY <1>0, <1>5 DEF AsnEnds, Named, Real, Heard, Room, InFlight
  <2> QED BY <2>1, <2>2 DEF Inv
<1>6. ASSUME NEW c \in Callers, Fail(c) PROVE Inv'
  <2>0. asked[c] # "none" /\ asked[c] \in IPs /\ Return(c, Unknown)
    BY <1>0, <1>6 DEF Fail, Joined, TypeOK
  <2>1. TypeOK'
    BY <1>0, <1>6, <2>0, ReturnTypes DEF Fail, TypeOK
  <2>2. Named'
    <3>1. \A d \in Callers : result'[d] = IF d = c THEN Unknown ELSE result[d]
      BY <1>0, <2>0, ReturnTypes
    <3>2. Real(Unknown, said)
      BY DEF Real
    <3>3. \A d \in Callers : Real(result'[d], said)
      BY <1>0, <3>1, <3>2 DEF Named
    <3> QED BY <1>0, <1>6, <3>3 DEF Fail, Named, Real
  <2>3. Heard'
    BY <1>0, <1>6, <2>0, ReturnTypes DEF Fail, Heard
  <2>4. Room'
    <3>1. ipCache' = ipCache /\ stored' = stored /\ stored \in [IPs -> Nat]
      BY <1>0, <1>6 DEF Fail, TypeOK
    <3>2. \A i \in IPs : Cardinality(InFlight(i))' \in Nat
                         /\ Cardinality(InFlight(i))' <= Cardinality(InFlight(i))
      <4> SUFFICES ASSUME NEW i \in IPs
                   PROVE  /\ Cardinality(InFlight(i))' \in Nat
                          /\ Cardinality(InFlight(i))' <= Cardinality(InFlight(i))
        OBVIOUS
      <4>1. Cardinality(InFlight(i)) \in Nat
        BY InFlightFinite
      <4>2. CASE asked[c] = i
        BY <1>0, <2>0, <4>1, <4>2, ReturnLeaves
      <4>3. CASE asked[c] # i
        <5>1. InFlight(i)' = InFlight(i)
          BY <1>0, <2>0, <4>3, ReturnLeaves
        <5> QED BY <4>1, <5>1
      <4> QED BY <4>2, <4>3
    <3> QED BY <1>0, <3>1, <3>2, InFlightFinite DEF Room
  <2> QED BY <2>1, <2>2, <2>3, <2>4 DEF Inv
<1>7. ASSUME NEW c \in Callers, Store(c) PROVE Inv'
  <2> DEFINE owner == [ip |-> asked[c], org |-> rdapResp[c], asn |-> asn[c]]
  <2>0. /\ asked[c] # "none" /\ asked[c] \in IPs /\ Return(c, owner)
        /\ rdapResp[c] \in Orgs \ {"open", "error"} /\ asn[c] \in ASNs \cup {""}
        /\ ipCache' = [ipCache EXCEPT ![asked[c]] = owner]
        /\ stored' = [stored EXCEPT ![asked[c]] = @ + 1] /\ said' = said
    BY <1>0, <1>7 DEF Store, Joined, TypeOK
  <2>1. owner \in Owners /\ owner # Unknown
    BY <2>0, OwnerIsNotUnknown DEF Owners
  <2>2. TypeOK'
    <3> HIDE DEF owner
    <3>1. ipCache' \in [IPs -> Owners \cup {Unknown}]
      BY <1>0, <2>0, <2>1 DEF TypeOK
    <3>2. stored' \in [IPs -> Nat]
      <4>1. stored \in [IPs -> Nat]
        BY <1>0 DEF TypeOK
      <4>2. asked[c] \in IPs
        BY <2>0
      <4>3. stored[asked[c]] + 1 \in Nat
        BY <4>1, <4>2
      <4>4. stored' = [stored EXCEPT ![asked[c]] = @ + 1]
        BY <2>0
      <4> QED BY <4>1, <4>3, <4>4
    <3>3. said' \in [IPs -> SUBSET Orgs]
      BY <1>0, <2>0 DEF TypeOK
    <3> QED BY <1>0, <2>0, <2>1, <3>1, <3>2, <3>3, ReturnTypes DEF TypeOK
  <2>3. Named'
    <3>1. owner.ip = asked[c] /\ Real(owner, said')
      BY <1>0, <2>0 DEF Heard, Real
    <3>2. \A o : Real(o, said) => Real(o, said')
      BY <2>0 DEF Real
    <3>3. \A i \in IPs : ipCache'[i] = IF i = asked[c] THEN owner ELSE ipCache[i]
      BY <1>0, <2>0 DEF TypeOK
    <3>4. \A d \in Callers : result'[d] = IF d = c THEN owner ELSE result[d]
      BY <1>0, <2>0, <2>1, ReturnTypes
    <3>5. \A i \in IPs : ipCache'[i] # Unknown => ipCache'[i].ip = i
      BY <1>0, <3>1, <3>3 DEF Named
    <3>6. \A i \in IPs : Real(ipCache'[i], said')
      BY <1>0, <3>1, <3>2, <3>3 DEF Named, Real
    <3>7. \A d \in Callers : Real(result'[d], said')
      BY <1>0, <3>1, <3>2, <3>4 DEF Named, Real
    <3> QED BY <3>5, <3>6, <3>7 DEF Named
  <2>4. Heard'
    BY <1>0, <2>0, <2>1, ReturnTypes DEF Heard
  <2>5. Room'
    <3> SUFFICES ASSUME NEW i \in IPs
                 PROVE IF ipCache'[i] = Unknown THEN stored'[i] = 0
                       ELSE stored'[i] + Cardinality(InFlight(i))' <= Cardinality(Callers)
      BY DEF Room
    <3>1. CASE i = asked[c]
      <4>1. ipCache'[i] # Unknown /\ stored'[i] = stored[i] + 1 /\ stored[i] \in Nat
        BY <1>0, <2>0, <2>1, <3>1 DEF TypeOK
      <4>2. /\ Cardinality(InFlight(i))' = Cardinality(InFlight(i)) - 1
            /\ Cardinality(InFlight(i)) > 0
        BY <1>0, <2>0, <3>1, ReturnLeaves
      <4>3. \/ stored[i] = 0
            \/ stored[i] + Cardinality(InFlight(i)) <= Cardinality(Callers)
        BY <1>0 DEF Room
      <4> QED BY <4>1, <4>2, <4>3, InFlightFinite
    <3>2. CASE i # asked[c]
      <4>1. ipCache'[i] = ipCache[i] /\ stored'[i] = stored[i]
        BY <1>0, <2>0, <3>2 DEF TypeOK
      <4>2. InFlight(i)' = InFlight(i)
        BY <1>0, <2>0, <3>2, ReturnLeaves
      <4> QED BY <1>0, <4>1, <4>2 DEF Room
    <3> QED BY <3>1, <3>2
  <2> QED BY <2>2, <2>3, <2>4, <2>5 DEF Inv
<1>8. CASE UNCHANGED vars
  BY <1>0, <1>8 DEF vars, upstream, Inv, TypeOK, Named, Real, Heard, Room, InFlight
<1> QED BY <1>1, <1>2, <1>3, <1>4, <1>5, <1>6, <1>7, <1>8 DEF Next, Answered, AsnStep

LEMMA InvHolds == Spec => []Inv
BY Initially, Inductive, PTL DEF Spec
------------------------------------------------------------------------------
\* Types: in particular a lookup that stores has an organisation in hand, not
\* the mark of a request that failed or is still open (rdap.go:166-179).
THEOREM TypesHold == Spec => []TypeOK
<1>1. Inv => TypeOK
  BY DEF Inv
<1> QED BY <1>1, InvHolds, PTL

\* However many goroutines look up however many addresses, every owner cached
\* or returned is one that rdap.org named for its address (rdap.go:139-180).
THEOREM OwnersAreRealHolds == Spec => []OwnersAreReal
<1>1. Inv => OwnersAreReal
  BY DEF Inv, Named, Real, OwnersAreReal
<1> QED BY <1>1, InvHolds, PTL

\* An address is asked for successfully at most once for each goroutine of the
\* process, over its whole life (rdap.go:37-45).
THEOREM HerdIsBoundedHolds == Spec => []HerdIsBounded
<1>1. Inv => HerdIsBounded
  <2> SUFFICES ASSUME Inv, NEW i \in IPs PROVE stored[i] <= Cardinality(Callers)
    BY DEF HerdIsBounded
  <2>1. stored[i] \in Nat
    BY DEF Inv, TypeOK
  <2> QED BY <2>1, InFlightFinite DEF Inv, Room
<1> QED BY <1>1, InvHolds, PTL

\* Once an owner is known and no lookup of its address is under way, nothing
\* ever goes upstream for it again and its owner no longer changes.
THEOREM OwnersSettleHolds == Spec => OwnersSettle
<1> DEFINE Stays == \A i \in IPs : Settled(i) => Settled(i)' /\ ipCache'[i] = ipCache[i]
<1>1. Inv /\ [Next]_vars => [Stays]_vars
  <2> SUFFICES ASSUME Inv, Next, NEW i \in IPs, Settled(i)
               PROVE Settled(i)' /\ ipCache'[i] = ipCache[i]
    OBVIOUS
  <2>0. /\ ipCache[i] # Unknown /\ \A c \in Callers : asked[c] # i
        /\ ipCache \in [IPs -> Owners \cup {Unknown}]
        /\ asked \in [Callers -> IPs \cup {"none"}] /\ "none" \notin IPs
    BY OwnerCacheAssumption DEF Inv, TypeOK, Settled, InFlight, OwnerCacheAssumption
  <2>1. SUFFICES ipCache'[i] = ipCache[i] /\ \A c \in Callers : asked'[c] = asked[c] \/ asked'[c] # i
    BY <2>0 DEF Settled, InFlight
  <2>2. PICK c \in Callers :
            \/ \E j \in IPs : Hit(c, j) \/ Miss(c, j)
            \/ Answered(c) \/ RdapFails(c) \/ Fail(c) \/ Store(c)
    BY DEF Next
  <2>3. ASSUME NEW j \in IPs, Miss(c, j)
        PROVE ipCache'[i] = ipCache[i] /\ \A d \in Callers : asked'[d] = asked[d] \/ asked'[d] # i
    BY <2>0, <2>3 DEF Miss, Cached
  <2>4. CASE Fail(c)
    BY <2>0, <2>4 DEF Fail, Return, Joined
  <2>5. CASE Store(c)
    BY <2>0, <2>5 DEF Store, Return, Joined
  <2>6. CASE \/ \E j \in IPs : Hit(c, j)
             \/ Answered(c) \/ RdapFails(c)
    BY <2>0, <2>6 DEF Hit, Answered, AsnStep, AsnEnds, RdapAnswers, RdapFails
  <2> QED BY <2>2, <2>3, <2>4, <2>5, <2>6
<1>2. Spec => [][Stays]_vars
  BY <1>1, InvHolds, PTL DEF Spec
<1> QED BY <1>2 DEF OwnersSettle
------------------------------------------------------------------------------
\* What a lookup has still to do: its two requests, and the return.
StepsAhead(c) == IF asked[c] = "none" THEN 0
                 ELSE 1 + (IF rdapResp[c] = "open" THEN 1 ELSE 0) + (IF asn[c] = "open" THEN 1 ELSE 0)

\* A lookup that has gone upstream is over after three steps of its own; no other
\* goroutine, nor what it stores meanwhile, sets it back or holds it up, and it
\* returns the owner of the address it was asked about, or none (rdap.go:137-181).
LookupsConverge ==
    [][\A c \in Callers : asked[c] # "none" =>
         \/ UNCHANGED <<asked[c], rdapResp[c], asn[c]>>
         \/ /\ StepsAhead(c)' < StepsAhead(c)
            /\ asked'[c] # "none" => asked'[c] = asked[c]
            /\ asked'[c] = "none" => result'[c] = Unknown \/ result'[c].ip = asked[c]]_vars

\* However many goroutines look up whatever addresses, each lookup gets on by
\* itself: LookupsReturn but for the fairness of the two requests.
THEOREM LookupsConvergeHolds == Spec => LookupsConverge
<1> DEFINE GetsOn(c) ==
             \/ UNCHANGED <<asked[c], rdapResp[c], asn[c]>>
             \/ /\ StepsAhead(c)' < StepsAhead(c)
                /\ asked'[c] # "none" => asked'[c] = asked[c]
                /\ asked'[c] = "none" => result'[c] = Unknown \/ result'[c].ip = asked[c]
<1>1. ASSUME Inv, Next, NEW c \in Callers, asked[c] # "none" PROVE GetsOn(c)
  <2>0. /\ asked \in [Callers -> IPs \cup {"none"}] /\ rdapResp \in [Callers -> Orgs \cup {"error", "open"}]
        /\ asn \in [Callers -> ASNs \cup {"", "open"}] /\ result \in [Callers -> Owners \cup {Unknown}]
    BY <1>1 DEF Inv, TypeOK
  <2>1. PICK d \in Callers :
            \/ \E j \in IPs : Hit(d, j) \/ Miss(d, j)
            \/ Answered(d) \/ RdapFails(d) \/ Fail(d) \/ Store(d)
    BY <1>1 DEF Next
  <2>2. CASE d # c
    BY <2>0, <2>1, <2>2 DEF Hit, Miss, Answered, AsnStep, AsnEnds, RdapAnswers, RdapFails,
       Fail, Store, Return, upstream
  <2>3. CASE d = c /\ (Answered(c) \/ RdapFails(c))
    <3>1. ASSUME NEW v, AsnEnds(c, v) PROVE GetsOn(c)
      <4>1. asn[c] = "open" /\ asn'[c] = v /\ asked'[c] = asked[c] /\ rdapResp'[c] = rdapResp[c]
        BY <2>0, <3>1 DEF AsnEnds
      <4>2. CASE v = "open"
        BY <4>1, <4>2
      <4>3. CASE v # "open"
        <5>1. StepsAhead(c)' < StepsAhead(c)
          BY <1>1, <4>1, <4>3 DEF StepsAhead
        <5> QED BY <1>1, <4>1, <5>1
      <4> QED BY <4>2, <4>3
    <3>2. ASSUME NEW v \in Orgs \cup {"error"}, (RdapFails(c) /\ v = "error") \/ RdapAnswers(c, v)
          PROVE GetsOn(c)
      <4>1. rdapResp[c] = "open" /\ rdapResp'[c] = v /\ asked'[c] = asked[c] /\ asn'[c] = asn[c]
        BY <2>0, <3>2 DEF RdapFails, RdapAnswers
      <4>2. CASE v = "open"
        BY <4>1, <4>2
      <4>3. CASE v # "open"
        <5>1. StepsAhead(c)' < StepsAhead(c)
          BY <1>1, <4>1, <4>3 DEF StepsAhead
        <5> QED BY <1>1, <4>1, <5>1
      <4> QED BY <4>2, <4>3
    <3> QED BY <2>3, <3>1, <3>2 DEF Answered, AsnStep
  <2>4. CASE d = c /\ (Fail(c) \/ Store(c))
    <3>1. StepsAhead(c) = 1
      BY <1>1, <2>4 DEF Fail, Store, Joined, StepsAhead
    <3>2. asked'[c] = "none"
      BY <2>0, <2>4 DEF Fail, Store, Return
    <3>3. StepsAhead(c)' = 0
      BY <3>2 DEF StepsAhead
    <3>4. CASE Fail(c)
      <4>1. result' = [result EXCEPT ![c] = Unknown]
        BY <3>4 DEF Fail, Return
      <4>2. result'[c] = Unknown
        BY <2>0, <4>1
      <4> QED BY <3>1, <3>2, <3>3, <4>2
    <3>5. CASE Store(c)
      <4> DEFINE owner == [ip |-> asked[c], org |-> rdapResp[c], asn |-> asn[c]]
      <4>1. result' = [result EXCEPT ![c] = owner]
        BY <3>5 DEF Store, Return
      <4>2. result'[c] = owner
        BY <2>0, <4>1
      <4> QED BY <3>1, <3>2, <3>3, <4>2
    <3> QED BY <2>4, <3>4, <3>5
  <2>5. CASE d = c /\ \E j \in IPs : Hit(c, j) \/ Miss(c, j)
    BY <1>1, <2>5 DEF Hit, Miss
  <2> QED BY <2>1, <2>2, <2>3, <2>4, <2>5
<1>2. Inv /\ [Next]_vars => [\A c \in Callers : asked[c] # "none" => GetsOn(c)]_vars
  BY <1>1
<1>3. Spec => [][\A c \in Callers : asked[c] # "none" => GetsOn(c)]_vars
  BY <1>2, InvHolds, PTL DEF Spec
<1> QED BY <1>3 DEF LookupsConverge
==============================================================================
