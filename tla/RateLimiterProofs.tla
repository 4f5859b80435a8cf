-------------------------- MODULE RateLimiterProofs --------------------------
(***************************************************************************)
(* Proofs about RateLimiter for every rate, burst, idle time and set of    *)
(* clients.                                                                *)
(***************************************************************************)
EXTENDS RateLimiter, TLAPS

LEMMA Grows == ASSUME NEW a \in Int, NEW b \in Int, NEW p \in Nat, a <= b
               PROVE a * p <= b * p
BY SMT

LEMMA CapacityType == Capacity \in Nat /\ Minute <= Capacity
<1>1. 1 * Minute <= Burst * Minute
  BY Grows, RateLimiterAssumption DEF RateLimiterAssumption
<1> QED BY <1>1, RateLimiterAssumption DEF RateLimiterAssumption, Capacity

\* The refill of a span of time, named so that it is only multiplied out here.
Yield(span) == span * PerMinute

LEMMA YieldType == ASSUME NEW s \in Int PROVE Yield(s) \in Int
BY RateLimiterAssumption DEF Yield, RateLimiterAssumption

LEMMA YieldOfNone == Yield(0) = 0
BY RateLimiterAssumption DEF Yield, RateLimiterAssumption

LEMMA YieldGrows == ASSUME NEW s \in Int, NEW t \in Int, s <= t PROVE Yield(s) <= Yield(t)
BY Grows, RateLimiterAssumption DEF Yield, RateLimiterAssumption

LEMMA YieldOfTick == ASSUME NEW s \in Int PROVE Yield(s + 1) = Yield(s) + PerMinute
BY RateLimiterAssumption DEF Yield, RateLimiterAssumption

\* Like PerMinute * span in WindowBound and in RetryAfterSuffices.
LEMMA YieldCommutes == ASSUME NEW s \in Int PROVE PerMinute * s = Yield(s)
BY RateLimiterAssumption DEF Yield, RateLimiterAssumption

Cost(n) == Minute * n

LEMMA CostType == ASSUME NEW n \in Int PROVE Cost(n) \in Int
BY RateLimiterAssumption DEF Cost, RateLimiterAssumption

LEMMA CostOf == /\ Cost(0) = 0 /\ Cost(1) = Minute
                /\ \A n \in Int : Cost(n + 1) = Cost(n) + Minute
BY RateLimiterAssumption DEF Cost, RateLimiterAssumption

LEMMA DroppedIsFull == Yield(Idle) >= Capacity
BY RateLimiterAssumption DEF Yield, Capacity, RateLimiterAssumption
------------------------------------------------------------------------------
\* A bucket's type as the prover wants it: an existing bucket is no NoBucket.
LEMMA BucketType == ASSUME TypeOK, NEW c \in Clients, buckets[c] # NoBucket
                    PROVE buckets[c] \in [tokens : 0..Capacity, last : 0..now]
BY DEF TypeOK, Buckets

LEMMA AvailableType == ASSUME TypeOK, NEW c \in Clients PROVE Available(c) \in 0..Capacity
<1>1. CASE buckets[c] = NoBucket
  BY <1>1, CapacityType DEF Available
<1>2. CASE buckets[c] # NoBucket
  <2>1. buckets[c].tokens \in 0..Capacity /\ buckets[c].last \in 0..now /\ now \in Nat
    BY <1>2, BucketType DEF TypeOK
  <2>2. Yield(0) <= Yield(now - buckets[c].last) /\ Yield(now - buckets[c].last) \in Int
    BY <2>1, YieldGrows, YieldType
  <2> QED BY <1>2, <2>1, <2>2, YieldOfNone, CapacityType DEF Available, Refilled, Lesser, Yield
<1> QED BY <1>1, <1>2

\* Budgets: what c may still be given is within what its window has yielded,
\* and c's wait since it was last let through is in its bucket.
Budget(c) == Cost(passed[c]) + Available(c) <= Capacity + Yield(now - start[c])
Saved(c) == IF served[c] = Never THEN Available(c) = Capacity
            ELSE Available(c) >= Lesser(Capacity, Yield(now - served[c]))

Inv == TypeOK /\ \A c \in Clients : Budget(c) /\ Saved(c)

LEMMA Initially == Init => Inv
<1> SUFFICES ASSUME Init PROVE Inv
  OBVIOUS
<1>1. TypeOK
  BY RateLimiterAssumption DEF Init, TypeOK, Buckets, RateLimiterAssumption, Never
<1>2. ASSUME NEW c \in Clients PROVE Budget(c) /\ Saved(c)
  <2>1. Available(c) = Capacity
    BY DEF Init, Available
  <2>2. passed[c] = 0 /\ start[c] = 0 /\ now = 0 /\ served[c] = Never
    BY DEF Init
  <2>3. now - start[c] = 0
    BY <2>2
  <2>4. Cost(passed[c]) = 0 /\ Yield(now - start[c]) = 0
    BY <2>2, <2>3, CostOf, YieldOfNone
  <2> QED BY <2>1, <2>2, <2>4, CapacityType DEF Budget, Saved
<1> QED BY <1>1, <1>2 DEF Inv
------------------------------------------------------------------------------
\* What a step that puts a bucket in place leaves of it.
LEMMA NewBucket ==
    ASSUME TypeOK, NEW c \in Clients, NEW n \in 0..Capacity,
           buckets' = [buckets EXCEPT ![c] = [tokens |-> n, last |-> now]], now' = now
    PROVE  /\ Available(c)' = n
           /\ \A d \in Clients \ {c} : Available(d)' = Available(d)
           /\ buckets' \in [Clients -> Buckets']
<1> DEFINE b == [tokens |-> n, last |-> now]
<1>1. now \in Nat /\ buckets'[c] = b /\ \A d \in Clients \ {c} : buckets'[d] = buckets[d]
  BY DEF TypeOK
<1>2. b.tokens = n /\ b.last = now /\ b # NoBucket /\ n \in Nat /\ n <= Capacity
  BY CapacityType DEF NoBucket
<1>3. Available(c)' = n
  BY <1>1, <1>2, YieldOfNone, CapacityType DEF Available, Refilled, Lesser, Yield, Capacity
<1>4. \A d \in Clients \ {c} : Available(d)' = Available(d)
  BY <1>1 DEF Available, Refilled
<1>5. buckets' \in [Clients -> Buckets']
  BY <1>1, CapacityType DEF TypeOK, Buckets, Capacity
<1> QED BY <1>3, <1>4, <1>5

\* A sweep drops full buckets only.
LEMMA SweepKeeps == ASSUME TypeOK, Sweep, NEW c \in Clients PROVE Available(c)' = Available(c)
<1>1. CASE Unused(buckets[c]) /\ buckets[c] # NoBucket
  <2>1. buckets[c].tokens \in 0..Capacity /\ buckets[c].last \in 0..now /\ now \in Nat
    BY <1>1, BucketType DEF TypeOK
  <2>2. Idle \in Nat /\ Idle <= now - buckets[c].last
    BY <1>1, <2>1, RateLimiterAssumption DEF Unused, RateLimiterAssumption
  <2>3. Capacity <= Yield(now - buckets[c].last) /\ Yield(now - buckets[c].last) \in Int
    BY <2>1, <2>2, DroppedIsFull, YieldGrows, YieldType, CapacityType
  <2>4. Available(c) = Capacity
    BY <1>1, <2>1, <2>3, CapacityType DEF Available, Refilled, Lesser, Yield
  <2>5. buckets'[c] = NoBucket
    BY <1>1 DEF Sweep
  <2> QED BY <2>4, <2>5 DEF Available, Capacity
<1>2. CASE ~(Unused(buckets[c]) /\ buckets[c] # NoBucket)
  BY <1>2 DEF Sweep, Available, Refilled
<1> QED BY <1>1, <1>2

\* With time a bucket fills, by no more than the rate.
LEMMA TickFills ==
    ASSUME TypeOK, Tick, NEW c \in Clients
    PROVE  /\ Available(c) <= Available(c)'
           /\ Available(c)' = Lesser(Capacity, Available(c) + PerMinute)
<1>1. now \in Nat /\ now' = now + 1 /\ buckets'[c] = buckets[c] /\ PerMinute \in Nat
  BY RateLimiterAssumption DEF Tick, TypeOK, RateLimiterAssumption
<1>2. CASE buckets[c] = NoBucket
  BY <1>1, <1>2, CapacityType DEF Available, Lesser, Capacity
<1>3. CASE buckets[c] # NoBucket
  <2>1. buckets[c].tokens \in 0..Capacity /\ buckets[c].last \in 0..now
    BY <1>3, BucketType DEF TypeOK
  <2>2. /\ Yield((now - buckets[c].last) + 1) = Yield(now - buckets[c].last) + PerMinute
        /\ Yield(now - buckets[c].last) \in Int
    BY <1>1, <2>1, YieldOfTick, YieldType
  <2>3. now' - buckets[c].last = (now - buckets[c].last) + 1
    BY <1>1, <2>1
  <2>4. Available(c) = Lesser(Capacity, buckets[c].tokens + Yield(now - buckets[c].last))
    BY <1>3 DEF Available, Refilled, Yield
  <2>5. Available(c)' = Lesser(Capacity, buckets[c].tokens + Yield((now - buckets[c].last) + 1))
    BY <1>1, <1>3, <2>3 DEF Available, Refilled, Yield, Capacity
  <2> QED BY <1>1, <2>1, <2>2, <2>4, <2>5, CapacityType DEF Lesser
<1> QED BY <1>2, <1>3
------------------------------------------------------------------------------
LEMMA Inductive == Inv /\ [Next]_vars => Inv'
<1> SUFFICES ASSUME Inv, [Next]_vars PROVE Inv'
  OBVIOUS
<1>0. TypeOK
  BY DEF Inv
<1>t. /\ now \in Nat /\ now <= MaxTime /\ MaxTime \in Nat
      /\ passed \in [Clients -> Nat] /\ start \in [Clients -> 0..now]
      /\ served \in [Clients -> -1..now]
      /\ \A c \in Clients : Available(c) \in Nat /\ Available(c) <= Capacity
  BY <1>0, AvailableType, CapacityType, RateLimiterAssumption DEF TypeOK, RateLimiterAssumption
<1>y. \A c \in Clients :
        /\ Yield(now - start[c]) \in Int /\ Yield(now - served[c]) \in Int
        /\ Cost(passed[c]) \in Int
  BY <1>t, YieldType, CostType
<1>1. CASE Tick
  <2>1. TypeOK'
    <3>1. now' \in 0..MaxTime /\ now' = now + 1
      BY <1>1, <1>t DEF Tick
    <3>2. buckets' \in [Clients -> Buckets']
      BY <1>0, <1>1, <1>t, <3>1 DEF Tick, TypeOK, Buckets, Capacity
    <3> QED BY <1>1, <1>t, <3>1, <3>2 DEF Tick, TypeOK
  <2>2. ASSUME NEW c \in Clients PROVE Budget(c)' /\ Saved(c)'
    <3>1. /\ now' - start'[c] = (now - start[c]) + 1 /\ now' - served'[c] = (now - served[c]) + 1
          /\ passed'[c] = passed[c] /\ served'[c] = served[c]
      BY <1>1, <1>t DEF Tick
    <3>2. /\ Yield(now' - start'[c]) = Yield(now - start[c]) + PerMinute
          /\ Yield(now' - served'[c]) = Yield(now - served[c]) + PerMinute
          /\ PerMinute \in Nat
      BY <1>t, <3>1, YieldOfTick, RateLimiterAssumption DEF RateLimiterAssumption
    <3>3. /\ Available(c) <= Available(c)'
          /\ Available(c)' = Lesser(Capacity, Available(c) + PerMinute)
      BY <1>0, <1>1, TickFills
    <3>4. Budget(c) /\ Saved(c)
      BY DEF Inv
    <3>5. Budget(c)'
      BY <1>t, <1>y, <3>1, <3>2, <3>3, <3>4, CapacityType
      DEF Budget, Lesser, Cost, Yield, Capacity
    <3>6. Saved(c)'
      BY <1>t, <1>y, <3>1, <3>2, <3>3, <3>4, CapacityType
      DEF Saved, Lesser, Yield, Capacity
    <3> QED BY <3>5, <3>6
  <2> QED BY <2>1, <2>2 DEF Inv
<1>2. CASE Sweep
  <2>1. TypeOK'
    BY <1>0, <1>2 DEF Sweep, TypeOK, Buckets, Capacity
  <2>2. ASSUME NEW c \in Clients PROVE Budget(c)' /\ Saved(c)'
    <3>1. Available(c)' = Available(c)
      BY <1>0, <1>2, SweepKeeps
    <3> QED BY <1>2, <3>1 DEF Sweep, Inv, Budget, Saved, Cost, Yield, Capacity, Lesser
  <2> QED BY <2>1, <2>2 DEF Inv
<1>3. ASSUME NEW c \in Clients, Pass(c) PROVE Inv'
  <2>1. Available(c) - Minute \in 0..Capacity
    BY <1>3, <1>t, CapacityType, RateLimiterAssumption DEF Pass, Enough, RateLimiterAssumption
  <2>2. now' = now /\ buckets' = [buckets EXCEPT ![c] = [tokens |-> Available(c) - Minute, last |-> now]]
    BY <1>3 DEF Pass
  <2>3. /\ Available(c)' = Available(c) - Minute
        /\ \A d \in Clients \ {c} : Available(d)' = Available(d)
        /\ buckets' \in [Clients -> Buckets']
    BY <1>0, <2>1, <2>2, NewBucket
  <2>4. TypeOK'
    BY <1>3, <1>t, <2>3 DEF Pass, TypeOK
  <2>5. Budget(c)' /\ Saved(c)'
    <3>1. Cost(passed'[c]) = Cost(passed[c]) + Minute /\ start' = start
          /\ served'[c] = now /\ served'[c] # Never
      BY <1>3, <1>t, CostOf DEF Pass, Never
    <3>2. Yield(now' - served'[c]) = 0
      BY <1>t, <2>2, <3>1, YieldOfNone
    <3>3. Budget(c)
      BY DEF Inv
    <3>4. Budget(c)'
      BY <1>t, <1>y, <2>1, <2>2, <2>3, <3>1, <3>3, CapacityType, RateLimiterAssumption
      DEF Budget, Cost, Yield, Capacity, RateLimiterAssumption
    <3>5. Saved(c)'
      BY <1>t, <2>1, <2>3, <3>1, <3>2, CapacityType DEF Saved, Lesser, Yield, Capacity
    <3> QED BY <3>4, <3>5
  <2>6. \A d \in Clients \ {c} : Budget(d)' /\ Saved(d)'
    BY <1>3, <1>t, <2>3 DEF Pass, Inv, Budget, Saved, Cost, Yield, Capacity, Lesser
  <2> QED BY <2>4, <2>5, <2>6 DEF Inv
<1>4. ASSUME NEW c \in Clients, Refuse(c) PROVE Inv'
  <2>1. Available(c) \in 0..Capacity
    BY <1>t
  <2>2. now' = now /\ buckets' = [buckets EXCEPT ![c] = [tokens |-> Available(c), last |-> now]]
    BY <1>4 DEF Refuse, Kept
  <2>3. /\ \A d \in Clients : Available(d)' = Available(d)
        /\ buckets' \in [Clients -> Buckets']
    BY <1>0, <2>1, <2>2, NewBucket
  <2>4. TypeOK'
    BY <1>4, <1>t, <2>3 DEF Refuse, TypeOK
  <2>5. \A d \in Clients : Budget(d)' /\ Saved(d)'
    BY <1>4, <2>3 DEF Refuse, Inv, Budget, Saved, Cost, Yield, Capacity, Lesser
  <2> QED BY <2>4, <2>5 DEF Inv
<1>5. ASSUME NEW c \in Clients, Watch(c) PROVE Inv'
  <2>1. now' = now /\ buckets' = buckets /\ served' = served
    BY <1>5 DEF Watch
  <2>2. \A d \in Clients : Available(d)' = Available(d)
    BY <2>1 DEF Available, Refilled, Capacity
  <2>3. TypeOK'
    BY <1>0, <1>5, <1>t, <2>1 DEF Watch, TypeOK, Buckets, Capacity
  <2>4. \A d \in Clients : Saved(d)'
    BY <2>1, <2>2 DEF Inv, Saved, Lesser, Yield, Capacity
  <2>5. Budget(c)'
    <3>1. start'[c] = now /\ passed'[c] = 0
      BY <1>5, <1>t DEF Watch
    <3> QED BY <1>t, <2>1, <2>2, <3>1, CostOf, YieldOfNone, CapacityType
            DEF Budget, Cost, Yield, Capacity
  <2>6. \A d \in Clients \ {c} : Budget(d)'
    BY <1>5, <1>t, <2>1, <2>2 DEF Watch, Inv, Budget, Cost, Yield, Capacity
  <2> QED BY <2>3, <2>4, <2>5, <2>6 DEF Inv
<1>6. CASE UNCHANGED vars
  BY <1>6 DEF vars, Inv, TypeOK, Buckets, Budget, Saved, Available, Refilled, Lesser, Capacity,
              Cost, Yield
<1> QED BY <1>1, <1>2, <1>3, <1>4, <1>5, <1>6 DEF Next

LEMMA InvHolds == Spec => []Inv
BY Initially, Inductive, PTL DEF Spec
------------------------------------------------------------------------------
\* Types: the tokens of a bucket stay between none and the capacity, although
\* the refill is computed from a span of any length (httpmw.go:104-112).
THEOREM TypesHold == Spec => []TypeOK
<1>1. Inv => TypeOK
  BY DEF Inv
<1> QED BY <1>1, InvHolds, PTL

\* The limiter's promise to the upstreams: within any window no client gets
\* more than the burst and the yield of the rate through, with sweeps at any
\* time (httpmw.go:81, 118).
THEOREM WindowBoundHolds == Spec => []WindowBound
<1>1. Inv => WindowBound
  <2> SUFFICES ASSUME Inv, NEW c \in Clients
               PROVE Minute * passed[c] <= Capacity + PerMinute * (now - start[c])
    BY DEF WindowBound
  <2>1. /\ now - start[c] \in Int /\ passed[c] \in Int /\ Available(c) \in Nat
    BY AvailableType, CapacityType DEF Inv, TypeOK
  <2>2. Cost(passed[c]) \in Int /\ Yield(now - start[c]) \in Int
    BY <2>1, CostType, YieldType
  <2>3. Cost(passed[c]) <= Capacity + Yield(now - start[c])
    BY <2>1, <2>2, CapacityType DEF Inv, Budget
  <2> QED BY <2>1, <2>3, YieldCommutes DEF Cost
<1> QED BY <1>1, InvHolds, PTL

\* The limiter implements LimiterAbs, for every rate, burst and idle time: a
\* tick fills each level by the rate, a request let through spends its price,
\* and refusals, sweeps and new buckets change no level (httpmw.go:104-135).
THEOREM LimiterPromiseHolds == Spec => LimiterPromise
<1> DEFINE Level == [c \in Clients |-> Available(c)]
<1>1. Init => Ideal!Init
  BY DEF Init, Ideal!Init, Available
<1>2. ASSUME Inv, [Next]_vars PROVE [Ideal!Next]_(Ideal!absVars)
  <2>0. /\ TypeOK /\ now \in Nat /\ Capacity \in Nat /\ Minute \in Nat /\ PerMinute \in Nat
        /\ \A c \in Clients : Available(c) \in 0..Capacity
    BY <1>2, AvailableType, CapacityType, RateLimiterAssumption
    DEF Inv, TypeOK, RateLimiterAssumption
  \* A step that leaves every level as it is stutters.
  <2>s. ASSUME now' = now, \A c \in Clients : Available(c)' = Available(c)
        PROVE  UNCHANGED Ideal!absVars
    BY <2>s, Zenon DEF Ideal!absVars
  <2>1. CASE Tick
    <3>1. \A c \in Clients : Available(c)' = Lesser(Capacity, Available(c) + PerMinute)
      BY <2>0, <2>1, TickFills
    <3>2. \A c \in Clients : Available(c)' = Ideal!Filled(Available(c))
      BY <2>0, <3>1 DEF Lesser, Ideal!Filled
    <3>3. Ideal!Tick
      BY <2>1, <3>2 DEF Tick, Ideal!Tick
    <3> QED BY <3>3 DEF Ideal!Next
  <2>2. CASE Sweep
    <3>1. \A c \in Clients : Available(c)' = Available(c)
      BY <2>0, <2>2, SweepKeeps
    <3> QED BY <2>2, <2>s, <3>1 DEF Sweep
  <2>3. ASSUME NEW c \in Clients, Pass(c) PROVE Ideal!Next
    <3>1. Available(c) >= Minute /\ Available(c) - Minute \in 0..Capacity
      BY <2>0, <2>3, CapacityType DEF Pass, Enough
    <3>2. /\ Available(c)' = Available(c) - Minute
          /\ \A d \in Clients \ {c} : Available(d)' = Available(d)
      BY <2>0, <2>3, <3>1, NewBucket DEF Pass
    <3>3. Level' = [Level EXCEPT ![c] = Level[c] - Minute]
      BY <3>2
    <3>4. Ideal!Spend(c)
      BY <2>3, <3>1, <3>3 DEF Pass, Ideal!Spend
    <3> QED BY <3>4 DEF Ideal!Next
  <2>4. ASSUME NEW c \in Clients, Refuse(c) PROVE UNCHANGED Ideal!absVars
    <3>1. \A d \in Clients : Available(d)' = Available(d)
      BY <2>0, <2>4, NewBucket DEF Refuse, Kept
    <3> QED BY <2>4, <2>s, <3>1 DEF Refuse
  <2>5. ASSUME NEW c \in Clients, Watch(c) PROVE UNCHANGED Ideal!absVars
    <3>1. \A d \in Clients : Available(d)' = Available(d)
      BY <2>5 DEF Watch, Available, Refilled, Capacity
    <3> QED BY <2>5, <2>s, <3>1 DEF Watch
  <2>6. CASE UNCHANGED vars
    <3>1. \A d \in Clients : Available(d)' = Available(d)
      BY <2>6 DEF vars, Available, Refilled, Capacity
    <3> QED BY <2>6, <2>s, <3>1 DEF vars
  <2> QED BY <1>2, <2>1, <2>2, <2>3, <2>4, <2>5, <2>6 DEF Next
<1> QED BY <1>1, <1>2, InvHolds, PTL DEF Spec, LimiterPromise, Ideal!Spec

\* A client that waits for Retry-After after it was last let through is not
\* refused (httpmw.go:139-144), provided that time is worth a token.
THEOREM RetryAfterSufficesHolds == Spec => RetryAfterSuffices
<1> DEFINE Explained == \A c \in Clients : Refuse(c) /\ PerMinute * RetryAfter >= Minute =>
         served[c] # Never /\ now < served[c] + RetryAfter
<1>1. Inv /\ [Next]_vars => [Explained]_vars
  <2> SUFFICES ASSUME Inv, NEW c \in Clients, Refuse(c), PerMinute * RetryAfter >= Minute
               PROVE served[c] # Never /\ now < served[c] + RetryAfter
    OBVIOUS
  <2>1. /\ now \in Nat /\ served[c] \in -1..now /\ Available(c) \in 0..Capacity
        /\ Capacity \in Nat /\ Minute \in Nat /\ Minute <= Capacity /\ RetryAfter \in Nat
    BY AvailableType, CapacityType, RateLimiterAssumption DEF Inv, TypeOK, RateLimiterAssumption
  <2>2. Available(c) < Minute
    BY <2>1 DEF Refuse, Enough
  <2>3. Saved(c) /\ served[c] # Never
    BY <2>1, <2>2 DEF Inv, Saved
  <2>4. Yield(now - served[c]) \in Int /\ Yield(RetryAfter) \in Int
    BY <2>1, YieldType
  <2>5. Yield(now - served[c]) < Minute
    BY <2>1, <2>2, <2>3, <2>4 DEF Saved, Lesser
  <2>6. Yield(RetryAfter) >= Minute
    BY <2>1, YieldCommutes
  <2>7. ASSUME RetryAfter <= now - served[c] PROVE FALSE
    BY <2>1, <2>4, <2>5, <2>6, <2>7, YieldGrows
  <2> QED BY <2>1, <2>3, <2>7
<1>2. Spec => [][Explained]_vars
  BY <1>1, InvHolds, PTL DEF Spec
<1> QED BY <1>2 DEF RetryAfterSuffices
==============================================================================
