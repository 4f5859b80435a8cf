----------------------------- MODULE OwnerCache -----------------------------
(***************************************************************************)
(* rdap.IP (internal/rdap/rdap.go): who holds an IP address, answered from *)
(* a cache that all lookups of the process share and that never drops an   *)
(* entry, or by two concurrent upstream requests: rdap.org for the owner   *)
(* and ip-api.com for the ASN, which is best-effort.  The cache is locked  *)
(* for the look-up and for the store, and not in between, so any number of *)
(* goroutines may ask upstream for one address at once.                    *)
(***************************************************************************)
EXTENDS Naturals, FiniteSets

CONSTANTS
    IPs,         \* the addresses looked up
    Callers,     \* the goroutines that can be in rdap.IP at a time
    Orgs,        \* the owners rdap.org may name
    ASNs         \* the ASNs ip-api.com may name

ASSUME OwnerCacheAssumption == IsFiniteSet(Callers) /\ "none" \notin IPs

VARIABLES
    ipCache,   \* ipCache[i]: the owner of i, or Unknown
    asked,     \* asked[c]: the address c asks upstream for, or "none"
    rdapResp,  \* rdapResp[c]: what rdap.org said: an org, "error", or "open"
    asn,       \* asn[c]: what ip-api.com said: an ASN, "" for none, or "open"
    result,    \* result[c]: what c's last lookup returned
    said,      \* history: said[i]: the orgs rdap.org has named for i
    stored     \* history: stored[i]: how often an owner of i was stored
vars == <<ipCache, asked, rdapResp, asn, result, said, stored>>
upstream == <<rdapResp, asn>>

Unknown == [ip |-> "none"]
Owners == [ip : IPs, org : Orgs, asn : ASNs \cup {""}]

Init ==
    /\ ipCache = [i \in IPs |-> Unknown]
    /\ asked = [c \in Callers |-> "none"]
    /\ rdapResp = [c \in Callers |-> "open"]
    /\ asn = [c \in Callers |-> "open"]
    /\ result = [c \in Callers |-> Unknown]
    /\ said = [i \in IPs |-> {}]
    /\ stored = [i \in IPs |-> 0]
------------------------------------------------------------------------------
\* Faulty: an owner whose ASN is missing is looked up again.
FaultyCached(i) == ipCache[i] # Unknown /\ ipCache[i].asn # ""
Cached(i) == ipCache[i] # Unknown

\* Served from the cache.
Hit(c, i) ==
    /\ asked[c] = "none" /\ Cached(i)
    /\ result' = [result EXCEPT ![c] = ipCache[i]]
    /\ UNCHANGED <<ipCache, asked, upstream, said, stored>>

\* Not in the cache: the lock is given back and both requests start.
Miss(c, i) ==
    /\ asked[c] = "none" /\ ~Cached(i)
    /\ asked' = [asked EXCEPT ![c] = i]
    /\ UNCHANGED <<ipCache, upstream, result, said, stored>>

\* get: rdap.org names the owner.
RdapAnswers(c, org) ==
    /\ asked[c] # "none" /\ rdapResp[c] = "open"
    /\ rdapResp' = [rdapResp EXCEPT ![c] = org]
    /\ said' = [said EXCEPT ![asked[c]] = @ \cup {org}]
    /\ UNCHANGED <<ipCache, asked, asn, result, stored>>

\* get: an error, another status, the end of the caller's context, the timeout.
RdapFails(c) ==
    /\ asked[c] # "none" /\ rdapResp[c] = "open"
    /\ rdapResp' = [rdapResp EXCEPT ![c] = "error"]
    /\ UNCHANGED <<ipCache, asked, asn, result, said, stored>>

\* Faulty: a request to ip-api.com has no timeout of its own.
FaultyAsnEnds(c, as) ==
    /\ asked[c] # "none" /\ asn[c] = "open" /\ as # ""
    /\ asn' = [asn EXCEPT ![c] = as]
    /\ UNCHANGED <<ipCache, asked, rdapResp, result, said, stored>>
\* asnForIP: an ASN; or none, within 5 seconds, if anything goes wrong.
AsnEnds(c, as) ==
    /\ asked[c] # "none" /\ asn[c] = "open"
    /\ asn' = [asn EXCEPT ![c] = as]
    /\ UNCHANGED <<ipCache, asked, rdapResp, result, said, stored>>

\* Faulty: the lookup goes on when the ASN is there.
FaultyJoined(c) == asked[c] # "none" /\ asn[c] # "open"
\* wg.Wait lets go.
Joined(c) == asked[c] # "none" /\ rdapResp[c] # "open" /\ asn[c] # "open"

\* rdap.IP returns r; its local variables are gone.
Return(c, r) ==
    /\ result' = [result EXCEPT ![c] = r]
    /\ asked' = [asked EXCEPT ![c] = "none"]
    /\ rdapResp' = [rdapResp EXCEPT ![c] = "open"]
    /\ asn' = [asn EXCEPT ![c] = "open"]

\* The lookup fails; nothing is stored, not even the ASN.
Fail(c) ==
    /\ Joined(c) /\ rdapResp[c] = "error"
    /\ Return(c, Unknown)
    /\ UNCHANGED <<ipCache, said, stored>>

\* The owner replaces what another lookup may have stored since the miss.
Store(c) ==
    LET owner == [ip |-> asked[c], org |-> rdapResp[c], asn |-> asn[c]] IN
    /\ Joined(c) /\ rdapResp[c] # "error"
    /\ ipCache' = [ipCache EXCEPT ![asked[c]] = owner]
    /\ stored' = [stored EXCEPT ![asked[c]] = @ + 1]
    /\ Return(c, owner)
    /\ UNCHANGED said

AsnStep(c) == \E as \in ASNs \cup {""} : AsnEnds(c, as)
Answered(c) == AsnStep(c) \/ \E org \in Orgs : RdapAnswers(c, org)

Next == \E c \in Callers :
    \/ \E i \in IPs : Hit(c, i) \/ Miss(c, i)
    \/ Answered(c) \/ RdapFails(c) \/ Fail(c) \/ Store(c)

Spec == Init /\ [][Next]_vars

\* Both requests end: by 5 seconds (rdap.go:211) and by the timeout of the
\* client (rdap.go:26).  That one succeeds is not assumed.
Fairness == \A c \in Callers : /\ WF_vars(RdapFails(c))
                               /\ WF_vars(AsnEnds(c, ""))
                               /\ WF_vars(Fail(c) \/ Store(c))
FairSpec == Spec /\ Fairness
------------------------------------------------------------------------------
TypeOK ==
    /\ ipCache \in [IPs -> Owners \cup {Unknown}]
    /\ asked \in [Callers -> IPs \cup {"none"}]
    /\ rdapResp \in [Callers -> Orgs \cup {"error", "open"}]
    /\ asn \in [Callers -> ASNs \cup {"", "open"}]
    /\ result \in [Callers -> Owners \cup {Unknown}]
    /\ said \in [IPs -> SUBSET Orgs]
    /\ stored \in [IPs -> Nat]

InFlight(i) == {c \in Callers : asked[c] = i}

\* Whoever asks, and however lookups of several addresses and failures mix, an
\* owner cached or returned is one that rdap.org named for that very address.
OwnersAreReal ==
    /\ \A i \in IPs : ipCache[i] # Unknown => ipCache[i].ip = i
    /\ \A o \in {ipCache[i] : i \in IPs} \cup {result[c] : c \in Callers} :
         o # Unknown => o.org \in said[o.ip]

\* Concurrent lookups of one address all go upstream, but no more of them than
\* there are goroutines: what is looked up once the owner is known, with or
\* without its ASN, comes from the cache.  (rdap.go:37-39)
HerdIsBounded == \A i \in IPs : stored[i] <= Cardinality(Callers)

\* Racing lookups of an address replace each other's owner, the one with an
\* ASN perhaps by one without; but once the last of them is done the address is
\* settled: nobody asks upstream for it again, and its owner stays what it is.
Settled(i) == ipCache[i] # Unknown /\ InFlight(i) = {}
OwnersSettle == [][\A i \in IPs : Settled(i) => Settled(i)' /\ ipCache'[i] = ipCache[i]]_vars

\* A lookup returns, and so the enrichment pool that joins its lookups goes on
\* (scan.go:264), although neither upstream ever answers.
LookupsReturn == \A c \in Callers : asked[c] # "none" ~> asked[c] = "none"
==============================================================================
