----------------------------- MODULE ResultCache -----------------------------
(***************************************************************************)
(* cache.Cache (internal/cache/cache.go): a map from keys to results with  *)
(* an expiry, and a goroutine that sweeps expired entries.  Every          *)
(* operation runs under the cache's mutex.  The handlers that share one    *)
(* cache are module Server.                                                *)
(***************************************************************************)
EXTENDS Integers

CONSTANTS
    Keys,      \* the keys the handlers use
    Values,    \* the results they store
    TTL,       \* ticks a result lives; 0 disables the cache
    MaxTime    \* bound of the clock, for TLC

VARIABLES
    now,    \* the clock
    m       \* m[k]: the entry under k, or NoEntry
cacheVars == <<now, m>>

NoEntry == [expires |-> -1]
Entries == [expires : 0..MaxTime + TTL, value : Values]

Init == now = 0 /\ m = [k \in Keys |-> NoEntry]
------------------------------------------------------------------------------
\* Faulty: an entry is served as long as the sweeper has not been.
FaultyExpired(e) == FALSE
\* time.Now().After(e.expires)
Expired(e) == now > e.expires

\* Get and GetDiscover find a result under k.
Hit(k) == TTL > 0 /\ m[k] # NoEntry /\ ~Expired(m[k])

\* Faulty: a result lives twice as long.
FaultyExpiry == now + TTL + TTL
Expiry == now + TTL

\* Set and SetDiscover.  A nil result is never passed.
Set(k, v) == m' = IF TTL > 0 THEN [m EXCEPT ![k] = [expires |-> Expiry, value |-> v]] ELSE m

\* Faulty: an entry is swept at the instant at which it is still served.
FaultySwept(e) == now >= e.expires
Swept(e) == now > e.expires

\* gc: its ticker has the period TTL, but it may be late.
Sweep ==
    /\ TTL > 0
    /\ m' = [k \in Keys |-> IF Swept(m[k]) THEN NoEntry ELSE m[k]]
    /\ UNCHANGED now

Tick == now < MaxTime /\ now' = now + 1 /\ UNCHANGED m

Next == Tick \/ Sweep \/ \E k \in Keys, v \in Values : Set(k, v) /\ UNCHANGED now

Spec == Init /\ [][Next]_cacheVars
------------------------------------------------------------------------------
CacheTypeOK == now \in 0..MaxTime /\ m \in [Keys -> Entries \cup {NoEntry}]

\* The cache implements CacheAbs: whatever the sweeper does and however often a
\* key is stored again, what is to be had is what was stored last, for TTL.
Abs == INSTANCE CacheAbs WITH
    held <- [k \in Keys |-> IF Hit(k) THEN [age |-> now + TTL - m[k].expires, value |-> m[k].value]
                            ELSE [age |-> -1]]
Promise == Abs!Spec
==============================================================================
