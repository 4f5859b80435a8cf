----------------------------- MODULE RateLimiter -----------------------------
(***************************************************************************)
(* httpmw.RateLimiter (internal/httpmw/httpmw.go): a token bucket for each *)
(* client, refilled when the client asks, and a goroutine that drops the   *)
(* buckets of clients that have been idle.  Each operation runs under the  *)
(* limiter's mutex and is one action.                                      *)
(*                                                                         *)
(* Time is counted in ticks, Minute of them a minute, and tokens in parts, *)
(* Minute of them a token, so that a tick refills PerMinute parts and all  *)
(* is integer.                                                             *)
(***************************************************************************)
EXTENDS Integers

CONSTANTS
    Clients,      \* the addresses clientIP returns
    PerMinute,    \* requests allowed per minute; RATE_LIMIT, 30 by default
    Burst,        \* the capacity; the server passes RATE_LIMIT for it too
    Minute,       \* ticks in a minute
    Idle,         \* ticks after which an unused bucket is dropped; 30 minutes
    RetryAfter,   \* ticks a refused client is told to wait; 10 seconds
    MaxTime       \* bound of the clock, for TLC

\* A dropped bucket would have been full: 30 minutes refill any burst that does
\* not exceed the requests of 30 minutes.
ASSUME RateLimiterAssumption ==
    /\ {PerMinute, Burst, Minute} \subseteq Nat \ {0}
    /\ {Idle, RetryAfter, MaxTime} \subseteq Nat
    /\ Idle * PerMinute >= Burst * Minute

VARIABLES
    now,       \* the clock
    buckets,   \* buckets[c]: NoBucket, or tokens (in parts) and last refill
    start,     \* history: start[c] opens the window in which c is watched
    passed,    \* history: the requests of c let through in its window
    served     \* history: when c was last let through, or Never
vars == <<now, buckets, start, passed, served>>

Capacity == Burst * Minute
NoBucket == [tokens |-> -1, last |-> 0]
Never == -1

Lesser(a, b) == IF a < b THEN a ELSE b

Init ==
    /\ now = 0
    /\ buckets = [c \in Clients |-> NoBucket]
    /\ start = [c \in Clients |-> 0]
    /\ passed = [c \in Clients |-> 0]
    /\ served = [c \in Clients |-> Never]
------------------------------------------------------------------------------
Tick ==
    /\ now < MaxTime
    /\ now' = now + 1
    /\ UNCHANGED <<buckets, start, passed, served>>

\* Faulty: a bucket fills beyond its capacity.
FaultyRefilled(b) == b.tokens + (now - b.last) * PerMinute
\* The tokens of a bucket once the time since its last refill is credited.
Refilled(b) == Lesser(Capacity, b.tokens + (now - b.last) * PerMinute)

\* What a request of c finds: a new bucket is full.
Available(c) == IF buckets[c] = NoBucket THEN Capacity ELSE Refilled(buckets[c])

\* Faulty: a started token counts as a token.
FaultyEnough(c) == Available(c) > 0
Enough(c) == Available(c) >= Minute

\* allow, with a token left.
Pass(c) ==
    /\ Enough(c)
    /\ buckets' = [buckets EXCEPT ![c] = [tokens |-> Available(c) - Minute, last |-> now]]
    /\ passed' = [passed EXCEPT ![c] = @ + 1]
    /\ served' = [served EXCEPT ![c] = now]
    /\ UNCHANGED <<now, start>>

\* Faulty: a refused request starts the wait for the next token anew.
FaultyKept(c) == 0
\* What a refused request leaves in the bucket: the refill is credited to it.
Kept(c) == Available(c)

\* allow, without: status 429.
Refuse(c) ==
    /\ ~Enough(c)
    /\ buckets' = [buckets EXCEPT ![c] = [tokens |-> Kept(c), last |-> now]]
    /\ UNCHANGED <<now, start, passed, served>>

\* Faulty: any bucket that is not in use at the moment is dropped.
FaultyUnused(b) == b.last < now
Unused(b) == b.last < now - Idle

\* gc, on a ticker of 10 minutes.  Its period plays no part: it may come any
\* time.
Sweep ==
    /\ buckets' = [c \in Clients |-> IF Unused(buckets[c]) THEN NoBucket ELSE buckets[c]]
    /\ UNCHANGED <<now, start, passed, served>>

\* No step of the program: from now on the requests of c are counted.
Watch(c) ==
    /\ start[c] = 0 /\ now > 0
    /\ start' = [start EXCEPT ![c] = now]
    /\ passed' = [passed EXCEPT ![c] = 0]
    /\ UNCHANGED <<now, buckets, served>>

Next == Tick \/ Sweep \/ \E c \in Clients : Pass(c) \/ Refuse(c) \/ Watch(c)

Spec == Init /\ [][Next]_vars
------------------------------------------------------------------------------
Buckets == [tokens : 0..Capacity, last : 0..now] \cup {NoBucket}

TypeOK ==
    /\ now \in 0..MaxTime
    /\ buckets \in [Clients -> Buckets]
    /\ start \in [Clients -> 0..now]
    /\ passed \in [Clients -> Nat]
    /\ served \in [Clients -> -1..now]

\* The promise of the limiter: in any window of time, whenever it is opened, a
\* client gets at most the burst and what the rate yields in it through, sweeps
\* notwithstanding (httpmw.go:81, 118).  (A minute can so see twice RATE_LIMIT.)
WindowBound == \A c \in Clients :
    Minute * passed[c] <= Capacity + PerMinute * (now - start[c])

\* The limiter implements LimiterAbs: what a client may still spend is filled by
\* time alone and only drawn on by what is let through.  Neither a refused
\* request, which moves the refill stamp (httpmw.go:109-112), nor a sweep, nor
\* another client's requests take or give anything.
Ideal == INSTANCE LimiterAbs WITH
    Full <- Capacity, Gain <- PerMinute, Price <- Minute,
    level <- [c \in Clients |-> Available(c)]
LimiterPromise == Ideal!Spec

\* A client is only refused if it got a request through less than Retry-After
\* ago: one that is told to wait and does so, asking again in vain or not, gets
\* through (httpmw.go:143), provided the rate yields a token in that time.
RetryAfterSuffices ==
    [][\A c \in Clients : Refuse(c) /\ PerMinute * RetryAfter >= Minute =>
         served[c] # Never /\ now < served[c] + RetryAfter]_vars
==============================================================================
