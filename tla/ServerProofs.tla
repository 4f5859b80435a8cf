----------------------------- MODULE ServerProofs -----------------------------
(***************************************************************************)
(* Proofs about Server, and with it ResultCache, for all requests, numbers *)
(* of them at once, lifetimes of results and configurations of the chain.  *)
(***************************************************************************)
EXTENDS Server, TLAPS

(* Requests and keys *)

\* Equal keys, equal options, and the other way round: neither does the cache
\* confuse requests nor does it miss one it knows.
LEMMA KeyTellsOptions ==
    ASSUME NEW q \in Cacheable, NEW p \in Cacheable, Key(q) = Key(p)
    PROVE  Options(q) = Options(p)
<1>1. q.path = p.path /\ q.domain = p.domain
  BY DEF Key, Cacheable
<1>2. Heeded(q) = Heeded(p)
  BY <1>1 DEF Heeded
<1>3. \A t \in Heeded(q) : On(q, t) = On(p, t)
  BY <1>2 DEF Key
<1> QED BY <1>1, <1>2, <1>3 DEF Options

LEMMA OptionsTellKey ==
    ASSUME NEW q, NEW p, Options(q) = Options(p)
    PROVE  Key(q) = Key(p) /\ (q \in Cacheable <=> q.path \in {"/api/scan", "/api/discover"} /\ q \in Requests)
<1>1. q.path = p.path /\ q.domain = p.domain
  BY DEF Options
<1>2. Heeded(q) = Heeded(p)
  BY <1>1 DEF Heeded
<1>3. {t \in Heeded(q) : On(q, t)} = {t \in Heeded(q) : On(p, t)}
  BY <1>2 DEF Options
<1>4. \A t \in Heeded(q) : On(q, t) <=> On(p, t)
  BY <1>3
<1>5. \A t \in Heeded(q) : On(q, t) = On(p, t)
  BY <1>4, Zenon DEF On
<1>6. [t \in Heeded(q) |-> On(q, t)] = [t \in Heeded(p) |-> On(p, t)]
  BY <1>2, <1>5
<1>7. (q.path = "/api/discover") = (p.path = "/api/discover")
  BY <1>1
<1> QED BY <1>1, <1>6, <1>7 DEF Key, Cacheable

LEMMA KeyOfCacheable == ASSUME NEW q \in Cacheable PROVE Key(q) \in Keys /\ q \in Requests
BY DEF Keys, Cacheable

Authorised(q) == /\ ApiKeySet => q.keyed
                 /\ q.method \in {"GET", "POST"}

\* What has come through the chain to a handler, and passed its tests.
LEMMA Admitted ==
    ASSUME NEW q, Stopping(q, 1) = {} PROVE Authorised(q)
<1>1. DOMAIN Layers = 1..7
  BY DEF Layers
<1>2. 3 \in DOMAIN Layers /\ 4 \in DOMAIN Layers /\ 6 \in DOMAIN Layers
  BY <1>1
<1>3. ~(ApiKeySet /\ ~Keyless(q) /\ ~q.keyed) /\ q.path \notin Exempt /\ q.method \in Methods(q.path)
  BY <1>2, Zenon DEF Stopping
<1>4. q.method \in {"GET", "POST"}
  BY <1>3 DEF Methods
<1>5. q.method # "OPTIONS"
  BY <1>4
<1>6. ~Keyless(q)
  BY <1>3, <1>5, Zenon DEF Keyless, Preflight
<1> QED BY <1>3, <1>4, <1>6, Zenon DEF Authorised

LEMMA LeastExists == ASSUME NEW S \in SUBSET (1..7), S # {}
                     PROVE \E x \in S : \A y \in S : x =< y
<1>1. CASE 1 \in S
  BY <1>1
<1>2. CASE 1 \notin S /\ 2 \in S
  BY <1>2
<1>3. CASE 1 \notin S /\ 2 \notin S /\ 3 \in S
  BY <1>3
<1>4. CASE 1 \notin S /\ 2 \notin S /\ 3 \notin S /\ 4 \in S
  BY <1>4
<1>5. CASE 1 \notin S /\ 2 \notin S /\ 3 \notin S /\ 4 \notin S /\ 5 \in S
  BY <1>5
<1>6. CASE 1 \notin S /\ 2 \notin S /\ 3 \notin S /\ 4 \notin S /\ 5 \notin S /\ 6 \in S
  BY <1>6
<1>7. CASE 1 \notin S /\ 2 \notin S /\ 3 \notin S /\ 4 \notin S /\ 5 \notin S /\ 6 \notin S /\ 7 \in S
  BY <1>7
<1>8. \E i \in {1, 2, 3, 4, 5, 6, 7} : i \in S
  BY 1..7 = {1, 2, 3, 4, 5, 6, 7}
<1> QED BY <1>1, <1>2, <1>3, <1>4, <1>5, <1>6, <1>7, <1>8, Zenon

\* The first layer that stops a request is one of the seven.
LEMMA FirstStop ==
    ASSUME NEW q, NEW tokens \in 0..1, Stopping(q, tokens) # {}
    PROVE  Layers[Min(Stopping(q, tokens))] \in {204, 429, 401, 200, 404, 405, 400}
<1> DEFINE S == Stopping(q, tokens)
<1>1. DOMAIN Layers = 1..7
  BY DEF Layers
<1>2. S \in SUBSET (1..7) /\ S # {}
  BY <1>1, Zenon DEF Stopping
<1> HIDE DEF S
<1>3. Min(S) \in S
  BY <1>2, LeastExists DEF Min
<1>4. \A i \in 1..7 : Layers[i] \in {204, 429, 401, 200, 404, 405, 400}
  BY DEF Layers
<1> QED BY <1>2, <1>3, <1>4 DEF S
------------------------------------------------------------------------------
(* The inductive invariant *)

\* How far a request is decides what is known of it.
Stages ==
    /\ \A r \in Ids : at[r] # "answered" => answer[r] = NoAnswer /\ stored[r] = -1
    /\ \A r \in Ids : at[r] = "working" => req[r] \in Requests
    /\ \A r \in Ids : stored[r] # -1 => req[r] \in Cacheable /\ stored[r] <= now
    /\ \A r \in Ids : answer[r].by \in Ids => at[answer[r].by] = "answered"

\* An entry is the result its request stored, for TTL from then on.
Stored(e, k) == /\ stored[e.value] # -1 /\ Key(req[e.value]) = k
                /\ e.expires = stored[e.value] + TTL
Entered == \A k \in Keys : m[k] # Cache!NoEntry => Stored(m[k], k)

\* No result is forgotten before its time.
Remembered == TTL > 0 => \A r \in Ids : stored[r] # -1 /\ now - stored[r] <= TTL =>
    /\ m[Key(req[r])] # Cache!NoEntry
    /\ m[Key(req[r])].expires >= stored[r] + TTL

AllAuthorised ==
    \A r \in Ids : at[r] = "working" \/ answer[r].by # "nobody" => Authorised(req[r])

Inv == /\ TypeOK /\ ResultIsOfTheRequest /\ AllAuthorised
       /\ Stages /\ Entered /\ Remembered

LEMMA EntryType == ASSUME TypeOK, NEW k \in Keys, m[k] # Cache!NoEntry
                   PROVE  m[k].value \in Ids /\ m[k].expires \in Nat
BY ServerAssumption DEF TypeOK, Cache!CacheTypeOK, Cache!Entries, ServerAssumption

LEMMA Basics == ASSUME TypeOK
                PROVE  /\ now \in Nat /\ TTL \in Nat /\ MaxTime \in Nat /\ now <= MaxTime
                       /\ "nobody" \notin Ids /\ \A r \in Ids : stored[r] \in Int
                       /\ m \in [Keys -> Cache!Entries \cup {Cache!NoEntry}]
BY ServerAssumption DEF TypeOK, Cache!CacheTypeOK, ServerAssumption

LEMMA Initially == Init => Inv
<1> SUFFICES ASSUME Init PROVE Inv
  OBVIOUS
<1>1. Cache!CacheTypeOK
  BY ServerAssumption DEF Init, Cache!Init, Cache!CacheTypeOK, ServerAssumption
<1>2. TypeOK
  BY <1>1, ServerAssumption DEF Init, TypeOK, NoAnswer, ServerAssumption
<1>3. ResultIsOfTheRequest /\ AllAuthorised
  BY DEF Init, ResultIsOfTheRequest, AllAuthorised, NoAnswer
<1>4. Stages /\ Entered /\ Remembered
  BY ServerAssumption DEF Init, Cache!Init, Stages, Entered, Remembered, NoAnswer, ServerAssumption
<1> QED BY <1>2, <1>3, <1>4 DEF Inv

\* The clock and the sweeper.
LEMMA CacheKeeps == ASSUME Inv, Cache!Tick \/ Cache!Sweep, UNCHANGED requestVars PROVE Inv'
<1>0. /\ TypeOK /\ Stages /\ Entered /\ Remembered
      /\ now \in Nat /\ TTL \in Nat /\ MaxTime \in Nat /\ now <= MaxTime
      /\ \A r \in Ids : stored[r] \in Int
      /\ m \in [Keys -> Cache!Entries \cup {Cache!NoEntry}]
  BY Basics DEF Inv
<1>1. UNCHANGED <<req, at, ctx, answer, stored>>
  BY DEF requestVars
<1>2. ResultIsOfTheRequest' /\ AllAuthorised'
  BY <1>1 DEF Inv, ResultIsOfTheRequest, AllAuthorised
<1>3. now' \in 0..MaxTime /\ now' >= now
  BY <1>0 DEF Cache!Tick, Cache!Sweep
<1>4. \A k \in Keys : \/ m'[k] = m[k]
                      \/ m'[k] = Cache!NoEntry /\ now' = now /\ now > m[k].expires
  BY <1>0 DEF Cache!Tick, Cache!Sweep, Cache!Swept
<1>5. m' \in [Keys -> Cache!Entries \cup {Cache!NoEntry}]
  BY <1>0 DEF Cache!Tick, Cache!Sweep
<1>6. TypeOK'
  BY <1>0, <1>1, <1>3, <1>5 DEF TypeOK, Cache!CacheTypeOK, Cache!Entries, Cache!NoEntry
<1>7. Stages'
  BY <1>0, <1>1, <1>3 DEF Stages
<1>8. Entered'
  BY <1>0, <1>1, <1>4 DEF Entered, Stored, Cache!NoEntry
<1>9. Remembered'
  <2> SUFFICES ASSUME TTL > 0, NEW r \in Ids, stored[r] # -1, now' - stored[r] <= TTL
               PROVE  m'[Key(req[r])] # Cache!NoEntry /\ m'[Key(req[r])].expires >= stored[r] + TTL
    BY <1>1 DEF Remembered, Cache!NoEntry
  <2> DEFINE k == Key(req[r])
  <2>1. k \in Keys
    BY <1>0, KeyOfCacheable DEF Stages
  <2>2. now - stored[r] <= TTL
    BY <1>0, <1>3
  <2>3. m[k] # Cache!NoEntry /\ m[k].expires >= stored[r] + TTL
    BY <1>0, <2>2 DEF Remembered
  <2>4. m[k].expires \in Nat
    BY <1>0, <2>1, <2>3, EntryType
  <2>5. m'[k] = m[k]
    <3> HIDE DEF k
    <3> QED BY <1>0, <1>4, <2>1, <2>2, <2>3, <2>4
  <2> QED BY <2>3, <2>5
<1> QED BY <1>2, <1>6, <1>7, <1>8, <1>9 DEF Inv

Answers == [status : {0, 200, 204, 400, 401, 404, 405, 429}, by : Ids \cup {"nobody"}]

\* Request q comes in as r, which is then at stage s with answer a.
Arrival(r, q, s, a) ==
    /\ at[r] = "none" /\ req' = [req EXCEPT ![r] = q] /\ UNCHANGED <<now, m, ctx, stored>>
    /\ at' = [at EXCEPT ![r] = s] /\ answer' = [answer EXCEPT ![r] = a] /\ a \in Answers
    /\ s = "working" => a = NoAnswer /\ Stopping(q, 1) = {}
    /\ a.by # "nobody" => /\ a.by \in Ids \ {r} /\ at[a.by] = "answered"
                          /\ Options(q) = Options(req[a.by])
                          /\ Stopping(q, 1) = {}

\* It changes nothing that a request already at work or answered, or the cache,
\* relies on.
LEMMA ArrivalKeeps ==
    ASSUME Inv, NEW r \in Ids, NEW q \in Requests, NEW s \in {"working", "answered"}, NEW a,
           Arrival(r, q, s, a)
    PROVE  Inv'
<1> USE DEF Arrival, Answers
<1>0. /\ TypeOK /\ ResultIsOfTheRequest /\ AllAuthorised /\ Stages /\ Entered /\ Remembered
      /\ "nobody" \notin Ids
  BY Basics DEF Inv
<1>1. /\ req'[r] = q /\ at'[r] = s /\ answer'[r] = a
      /\ \A p \in Ids \ {r} : req'[p] = req[p] /\ at'[p] = at[p] /\ answer'[p] = answer[p]
  BY <1>0 DEF TypeOK
<1>2. stored[r] = -1 /\ \A p \in Ids : stored[p] # -1 => p # r
  BY <1>0 DEF Stages
<1>3. TypeOK'
  BY <1>0 DEF TypeOK, Cache!CacheTypeOK, Cache!Entries, Cache!NoEntry
<1>4. ResultIsOfTheRequest'
  <2> SUFFICES ASSUME NEW p \in Ids, answer'[p].by # "nobody"
               PROVE  Options(req'[p]) = Options(req'[answer'[p].by])
    BY Zenon DEF ResultIsOfTheRequest, Options, On, Heeded
  <2>1. CASE p = r
    <3>1. a.by \in Ids \ {r} /\ Options(q) = Options(req[a.by])
      BY <1>1, <2>1
    <3> QED BY <1>1, <2>1, <3>1
  <2>2. CASE p # r
    <3>1. answer[p].by # "nobody" /\ answer'[p] = answer[p] /\ answer[p].by \in Ids
      BY <1>0, <1>1, <2>2 DEF TypeOK
    <3>2. answer[p].by # r
      BY <1>0, <3>1 DEF Stages
    <3>3. Options(req[p]) = Options(req[answer[p].by])
      BY <1>0, <3>1 DEF ResultIsOfTheRequest
    <3> QED BY <1>1, <2>2, <3>1, <3>2, <3>3
  <2> QED BY <2>1, <2>2
<1>5. AllAuthorised'
  <2> SUFFICES ASSUME NEW p \in Ids, at'[p] = "working" \/ answer'[p].by # "nobody"
               PROVE  Authorised(req'[p])
    BY DEF AllAuthorised, Authorised
  <2>1. CASE p = r
    <3>1. Stopping(q, 1) = {}
      BY <1>1, <2>1
    <3>2. Authorised(q)
      BY <3>1, Admitted
    <3>3. req'[p] = q
      BY <1>1, <2>1
    <3> QED BY <3>2, <3>3
  <2>2. CASE p # r
    <3>1. req'[p] = req[p] /\ (at[p] = "working" \/ answer[p].by # "nobody")
      BY <1>1, <2>2
    <3> QED BY <1>0, <3>1 DEF AllAuthorised
  <2> QED BY <2>1, <2>2
<1>6. Stages'
  <2>1. \A p \in Ids : at'[p] # "answered" => answer'[p] = NoAnswer /\ stored[p] = -1
    BY <1>0, <1>1 DEF Stages
  <2>2. \A p \in Ids : at'[p] = "working" => req'[p] \in Requests
    BY <1>0, <1>1 DEF Stages
  <2>3. \A p \in Ids : stored[p] # -1 => req'[p] \in Cacheable /\ stored[p] <= now
    BY <1>0, <1>1, <1>2 DEF Stages
  <2>4. \A p \in Ids : answer'[p].by \in Ids => at'[answer'[p].by] = "answered"
    <3> SUFFICES ASSUME NEW p \in Ids, answer'[p].by \in Ids PROVE at'[answer'[p].by] = "answered"
      OBVIOUS
    <3>1. answer'[p].by # r /\ at[answer'[p].by] = "answered"
      BY <1>0, <1>1 DEF Stages
    <3> QED BY <1>1, <3>1
  <2> QED BY <2>1, <2>2, <2>3, <2>4 DEF Stages
<1>7. Entered'
  <2> SUFFICES ASSUME NEW k \in Keys, m[k] # Cache!NoEntry PROVE Stored(m[k], k)'
    BY DEF Entered, Cache!NoEntry
  <2>1. Stored(m[k], k) /\ m[k].value \in Ids
    BY <1>0, EntryType DEF Entered
  <2>2. m[k].value # r
    BY <1>2, <2>1 DEF Stored
  <2> QED BY <1>1, <2>1, <2>2 DEF Stored
<1>8. Remembered'
  BY <1>0, <1>1, <1>2 DEF Remembered, Cache!NoEntry
<1> QED BY <1>3, <1>4, <1>5, <1>6, <1>7, <1>8 DEF Inv

LEMMA StoppedKeeps == ASSUME Inv, NEW r \in Ids, NEW q \in Requests, Stopped(r, q) PROVE Inv'
<1>1. PICK tokens \in 0..1 :
        /\ Stopping(q, tokens) # {}
        /\ Answer(r, Layers[Min(Stopping(q, tokens))], "nobody")
  BY DEF Stopped
<1> DEFINE status == Layers[Min(Stopping(q, tokens))]
           a == [status |-> status, by |-> "nobody"]
<1>2. status \in {204, 429, 401, 200, 404, 405, 400}
  BY <1>1, FirstStop
<1> HIDE DEF status
<1>3. a \in [status : {0, 200, 204, 400, 401, 404, 405, 429}, by : Ids \cup {"nobody"}]
  BY <1>2
<1>4. /\ at[r] = "none" /\ req' = [req EXCEPT ![r] = q] /\ UNCHANGED <<now, m, ctx, stored>>
      /\ at' = [at EXCEPT ![r] = "answered"] /\ answer' = [answer EXCEPT ![r] = a]
  BY <1>1 DEF Stopped, Arrives, Answer, status
<1>5. a.by = "nobody"
  OBVIOUS
<1> HIDE DEF a
<1>6. Arrival(r, q, "answered", a)
  BY <1>3, <1>4, <1>5 DEF Arrival, Answers
<1> QED BY <1>6, ArrivalKeeps

\* What is served is the result of a request with the same options.
LEMMA HitIsOurs ==
    ASSUME Inv, NEW q \in Cacheable, Cache!Hit(Key(q))
    PROVE  LET v == m[Key(q)].value IN
           /\ v \in Ids /\ stored[v] # -1 /\ at[v] = "answered"
           /\ Options(q) = Options(req[v]) /\ now - stored[v] <= TTL
<1> DEFINE k == Key(q)
           v == m[k].value
<1>0. TypeOK /\ Stages /\ Entered /\ now \in Nat /\ TTL \in Nat /\ \A r \in Ids : stored[r] \in Int
  BY Basics DEF Inv
<1>1. k \in Keys /\ m[k] # Cache!NoEntry /\ ~(now > m[k].expires)
  BY KeyOfCacheable DEF Cache!Hit, Cache!Expired
<1>2. v \in Ids /\ stored[v] # -1 /\ Key(req[v]) = k /\ m[k].expires = stored[v] + TTL
  BY <1>0, <1>1, EntryType DEF Entered, Stored
<1>3. req[v] \in Cacheable /\ at[v] = "answered"
  BY <1>0, <1>2 DEF Stages, TypeOK
<1>4. Options(q) = Options(req[v])
  <2> HIDE DEF v
  <2> QED BY <1>2, <1>3, KeyTellsOptions
<1>5. now - stored[v] <= TTL
  <2> HIDE DEF k, v
  <2> QED BY <1>0, <1>1, <1>2
<1> QED BY <1>2, <1>3, <1>4, <1>5

LEMMA ServedKeeps == ASSUME Inv, NEW r \in Ids, NEW q \in Requests, Served(r, q) PROVE Inv'
<1> DEFINE v == m[Key(q)].value
           a == [status |-> 200, by |-> v]
<1>1. /\ at[r] = "none" /\ req' = [req EXCEPT ![r] = q] /\ UNCHANGED <<now, m, ctx, stored>>
      /\ at' = [at EXCEPT ![r] = "answered"] /\ answer' = [answer EXCEPT ![r] = a]
      /\ Stopping(q, 1) = {} /\ q \in Cacheable /\ Cache!Hit(Key(q))
  BY DEF Served, Arrives, Answer
<1>2. v \in Ids /\ at[v] = "answered" /\ Options(q) = Options(req[v])
  BY <1>1, HitIsOurs
<1> HIDE DEF v
<1>3. a \in [status : {0, 200, 204, 400, 401, 404, 405, 429}, by : Ids \cup {"nobody"}]
      /\ a.by = v /\ v # r
  BY <1>1, <1>2
<1> HIDE DEF a
<1>4. Arrival(r, q, "answered", a)
  BY <1>1, <1>2, <1>3 DEF Arrival, Answers
<1> QED BY <1>4, ArrivalKeeps

LEMMA WorkKeeps == ASSUME Inv, NEW r \in Ids, NEW q \in Requests, Work(r, q) PROVE Inv'
<1>1. /\ at[r] = "none" /\ req' = [req EXCEPT ![r] = q] /\ UNCHANGED <<now, m, ctx, stored>>
      /\ at' = [at EXCEPT ![r] = "working"] /\ answer' = answer /\ Stopping(q, 1) = {}
  BY DEF Work, Arrives
<1>2. answer[r] = NoAnswer /\ answer' = [answer EXCEPT ![r] = NoAnswer]
  BY <1>1 DEF Inv, Stages, TypeOK
<1>3. NoAnswer \in Answers
      /\ NoAnswer.by = "nobody"
  BY DEF NoAnswer, Answers
<1>4. Arrival(r, q, "working", NoAnswer)
  BY <1>1, <1>2, <1>3 DEF Arrival, Answers
<1> QED BY <1>4, ArrivalKeeps

LEMMA DoneKeeps == ASSUME Inv, NEW r \in Ids, Done(r) PROVE Inv'
<1> DEFINE k == Key(req[r])
           a == [status |-> 200, by |-> r]
           e == [expires |-> now + TTL, value |-> r]
<1>0. /\ TypeOK /\ ResultIsOfTheRequest /\ AllAuthorised /\ Stages /\ Entered /\ Remembered
      /\ now \in Nat /\ TTL \in Nat /\ MaxTime \in Nat /\ now <= MaxTime /\ "nobody" \notin Ids
      /\ \A p \in Ids : stored[p] \in Int
      /\ m \in [Keys -> Cache!Entries \cup {Cache!NoEntry}]
      /\ stored \in [Ids -> -1..MaxTime]
  BY Basics DEF Inv, TypeOK
<1>1. /\ at[r] = "working" /\ at' = [at EXCEPT ![r] = "answered"]
      /\ answer' = [answer EXCEPT ![r] = a] /\ UNCHANGED <<now, req, ctx>>
  BY DEF Done, Answer
<1>2. /\ at'[r] = "answered" /\ answer'[r] = a /\ a.by = r
      /\ \A p \in Ids \ {r} : at'[p] = at[p] /\ answer'[p] = answer[p]
      /\ a \in [status : {0, 200, 204, 400, 401, 404, 405, 429}, by : Ids \cup {"nobody"}]
  BY <1>0, <1>1 DEF TypeOK
<1>3. /\ m' \in [Keys -> Cache!Entries \cup {Cache!NoEntry}] /\ stored' \in [Ids -> -1..MaxTime]
      /\ Entered' /\ Remembered'
      /\ \A p \in Ids : stored'[p] # -1 => req[p] \in Cacheable /\ stored'[p] <= now
      /\ \A p \in Ids \ {r} : stored'[p] = stored[p]
  <2>1. CASE req[r] \in Cacheable
    <3>1. k \in Keys /\ stored' = [stored EXCEPT ![r] = now]
          /\ m' = IF TTL > 0 THEN [m EXCEPT ![k] = e] ELSE m
      BY <2>1, KeyOfCacheable DEF Done, Cache!Set, Cache!Expiry
    <3>2. /\ stored'[r] = now /\ now # -1 /\ \A p \in Ids \ {r} : stored'[p] = stored[p]
          /\ TTL > 0 => m'[k] = e /\ \A l \in Keys \ {k} : m'[l] = m[l]
          /\ e.expires = now + TTL /\ e.value = r
      BY <1>0, <3>1
    <3>3. e \in Cache!Entries /\ e # Cache!NoEntry
      <4>1. e \in Cache!Entries
        BY <1>0 DEF Cache!Entries
      <4>2. "value" \in DOMAIN e /\ "value" \notin DOMAIN Cache!NoEntry
        BY DEF Cache!NoEntry
      <4> QED BY <4>1, <4>2
    <3> HIDE DEF e, k
    <3>4. m' \in [Keys -> Cache!Entries \cup {Cache!NoEntry}] /\ stored' \in [Ids -> -1..MaxTime]
      BY <1>0, <3>1, <3>3
    <3>5. Entered'
      <4> SUFFICES ASSUME NEW l \in Keys, m'[l] # Cache!NoEntry
                   PROVE  /\ stored'[m'[l].value] # -1 /\ Key(req[m'[l].value]) = l
                          /\ m'[l].expires = stored'[m'[l].value] + TTL
        BY <1>1 DEF Entered, Stored, Cache!NoEntry
      <4>1. CASE TTL > 0 /\ l = k
        <5>1. m'[l] = e
          BY <3>2, <4>1
        <5> QED BY <3>2, <4>1, <5>1 DEF k
      <4>2. CASE ~(TTL > 0 /\ l = k)
        <5>1. m'[l] = m[l]
          BY <1>0, <3>1, <3>2, <4>2
        <5>2. Stored(m[l], l) /\ m[l].value \in Ids
          BY <1>0, <5>1, EntryType DEF Entered
        <5>3. m[l].value # r
          BY <1>0, <1>1, <5>2 DEF Stored, Stages
        <5> QED BY <3>2, <5>1, <5>2, <5>3 DEF Stored
      <4> QED BY <4>1, <4>2
    <3>6. Remembered'
      <4> SUFFICES ASSUME TTL > 0, NEW p \in Ids, stored'[p] # -1, now - stored'[p] <= TTL
                   PROVE  /\ m'[Key(req[p])] # Cache!NoEntry
                          /\ m'[Key(req[p])].expires >= stored'[p] + TTL
        BY <1>1 DEF Remembered, Cache!NoEntry
      <4>1. CASE p = r
        BY <1>0, <3>2, <3>3, <4>1 DEF k
      <4>2. CASE p # r
        <5>1. /\ m[Key(req[p])] # Cache!NoEntry /\ m[Key(req[p])].expires >= stored[p] + TTL
              /\ stored'[p] = stored[p] /\ stored[p] <= now /\ Key(req[p]) \in Keys
          BY <1>0, <3>2, <4>2, KeyOfCacheable DEF Remembered, Stages
        <5>2. CASE Key(req[p]) = k
          BY <1>0, <3>2, <3>3, <5>1, <5>2
        <5>3. CASE Key(req[p]) # k
          BY <3>2, <5>1, <5>3
        <5> QED BY <5>2, <5>3
      <4> QED BY <4>1, <4>2
    <3>7. \A p \in Ids : stored'[p] # -1 => req[p] \in Cacheable /\ stored'[p] <= now
      BY <1>0, <2>1, <3>2 DEF Stages
    <3>8. \A p \in Ids \ {r} : stored'[p] = stored[p]
      BY <3>2
    <3> QED BY <3>4, <3>5, <3>6, <3>7, <3>8
  <2>2. CASE req[r] \notin Cacheable
    <3>1. m' = m /\ stored' = stored
      BY <2>2 DEF Done
    <3> QED BY <1>0, <1>1, <3>1 DEF Entered, Stored, Remembered, Stages, Cache!NoEntry
  <2> QED BY <2>1, <2>2
<1> HIDE DEF a, e, k
<1>4. TypeOK'
  BY <1>0, <1>1, <1>2, <1>3 DEF TypeOK, Cache!CacheTypeOK, Cache!Entries, Cache!NoEntry
<1>5. ResultIsOfTheRequest'
  <2> SUFFICES ASSUME NEW p \in Ids, answer'[p].by # "nobody"
               PROVE  Options(req'[p]) = Options(req'[answer'[p].by])
    BY Zenon DEF ResultIsOfTheRequest, Options, On, Heeded
  <2>1. CASE p = r
    BY <1>2, <2>1
  <2>2. CASE p # r
    BY <1>0, <1>1, <1>2, <2>2 DEF ResultIsOfTheRequest
  <2> QED BY <2>1, <2>2
<1>6. AllAuthorised'
  <2> SUFFICES ASSUME NEW p \in Ids, at'[p] = "working" \/ answer'[p].by # "nobody"
               PROVE  Authorised(req[p])
    BY <1>1 DEF AllAuthorised, Authorised
  <2>1. at[p] = "working" \/ answer[p].by # "nobody"
    BY <1>1, <1>2
  <2> QED BY <1>0, <2>1 DEF AllAuthorised
<1>7. Stages'
  <2>1. \A p \in Ids : at'[p] # "answered" => answer'[p] = NoAnswer /\ stored'[p] = -1
    BY <1>0, <1>2, <1>3 DEF Stages
  <2>2. \A p \in Ids : at'[p] = "working" => req'[p] \in Requests
    BY <1>0, <1>1, <1>2 DEF Stages
  <2>3. \A p \in Ids : answer'[p].by \in Ids => at'[answer'[p].by] = "answered"
    BY <1>0, <1>2 DEF Stages
  <2> QED BY <1>1, <1>3, <2>1, <2>2, <2>3 DEF Stages
<1> QED BY <1>3, <1>4, <1>5, <1>6, <1>7 DEF Inv

LEMMA Inductive == Inv /\ [Next]_vars => Inv'
<1> SUFFICES ASSUME Inv, [Next]_vars PROVE Inv'
  OBVIOUS
<1>1. ASSUME NEW r \in Ids, CtxEnds(r) PROVE Inv'
  <2>1. ctx' \in [Ids -> {"live", "ended"}] /\ UNCHANGED <<now, m, req, at, answer, stored>>
    BY <1>1 DEF CtxEnds, Inv, TypeOK
  <2> QED BY <2>1 DEF Inv, TypeOK, Cache!CacheTypeOK, Cache!Entries, Cache!NoEntry, Stages, Entered,
                      Stored, Remembered, ResultIsOfTheRequest, AllAuthorised
<1>2. CASE UNCHANGED vars
  BY <1>2 DEF vars, Inv, TypeOK, Cache!CacheTypeOK, Cache!Entries, Cache!NoEntry, Stages, Entered,
              Stored, Remembered, ResultIsOfTheRequest, AllAuthorised
<1> QED BY <1>1, <1>2, CacheKeeps, StoppedKeeps, ServedKeeps, WorkKeeps, DoneKeeps DEF Next

LEMMA InvHolds == Spec => []Inv
BY Initially, Inductive, PTL DEF Spec
------------------------------------------------------------------------------
\* Types: among them that only the chain's and the handlers' statuses are sent,
\* and that an entry expires when the clock and TTL say (cache.go:78-86).
THEOREM TypesHold == Spec => []TypeOK
<1>1. Inv => TypeOK
  BY DEF Inv
<1> QED BY <1>1, InvHolds, PTL

\* However requests with equal and different keys overlap, an answer is about
\* its own domain and options (main.go:205-210, 267-271).
THEOREM ResultIsOfTheRequestHolds == Spec => []ResultIsOfTheRequest
<1>1. Inv => ResultIsOfTheRequest
  BY DEF Inv
<1> QED BY <1>1, InvHolds, PTL

\* No work is done, and no result sent, for a request without the key when
\* there is one (httpmw.go:36-52, main.go:192).
THEOREM WorkIsAuthorisedHolds == Spec => []WorkIsAuthorised
<1>1. Inv => WorkIsAuthorised
  <2> SUFFICES ASSUME Inv, NEW r \in Ids, at[r] = "working" \/ answer[r].by # "nobody"
               PROVE  (ApiKeySet => req[r].keyed) /\ req[r].method \in {"GET", "POST"}
    BY DEF WorkIsAuthorised
  <2>1. Authorised(req[r])
    BY DEF Inv, AllAuthorised
  <2> QED BY <2>1, Zenon DEF Authorised
<1> QED BY <1>1, InvHolds, PTL

\* A result served from the cache is at most TTL old (cache.go:67-76).
THEOREM ServedIsFreshHolds == Spec => ServedIsFresh
<1> DEFINE Fresh == \A r \in Ids :
         answer'[r] # answer[r] /\ answer'[r].by \notin {r, "nobody"} =>
         now - stored[answer'[r].by] <= TTL
<1>1. Inv /\ [Next]_vars => [Fresh]_vars
  <2> SUFFICES ASSUME Inv, Next, NEW r \in Ids, answer'[r] # answer[r],
                      answer'[r].by \notin {r, "nobody"}
               PROVE  now - stored[answer'[r].by] <= TTL
    OBVIOUS
  <2>0. answer \in [Ids -> Answers]
    BY DEF Inv, TypeOK, Answers
  <2>1. CASE (Cache!Tick \/ Cache!Sweep) /\ UNCHANGED requestVars
    BY <2>1 DEF requestVars
  <2>2. ASSUME NEW p \in Ids, CtxEnds(p) PROVE FALSE
    BY <2>2 DEF CtxEnds
  <2>3. ASSUME NEW p \in Ids, Done(p) PROVE FALSE
    BY <2>0, <2>3 DEF Done, Answer
  <2>4. ASSUME NEW p \in Ids, NEW q \in Requests, Stopped(p, q) PROVE FALSE
    <3>1. \E status : answer' = [answer EXCEPT ![p] = [status |-> status, by |-> "nobody"]]
      BY <2>4 DEF Stopped, Answer
    <3> QED BY <2>0, <3>1
  <2>5. ASSUME NEW p \in Ids, NEW q \in Requests, Work(p, q) PROVE FALSE
    BY <2>5 DEF Work
  <2>6. ASSUME NEW p \in Ids, NEW q \in Requests, Served(p, q)
        PROVE  now - stored[answer'[r].by] <= TTL
    <3> DEFINE v == m[Key(q)].value
    <3>1. /\ q \in Cacheable /\ Cache!Hit(Key(q))
          /\ answer' = [answer EXCEPT ![p] = [status |-> 200, by |-> v]]
      BY <2>6 DEF Served, Answer
    <3>2. now - stored[v] <= TTL
      BY <3>1, HitIsOurs
    <3> HIDE DEF v
    <3>3. answer'[r].by = v
      BY <2>0, <3>1
    <3> QED BY <3>2, <3>3
  <2> QED BY <2>1, <2>2, <2>3, <2>4, <2>5, <2>6 DEF Next
<1>2. Spec => [][Fresh]_vars
  BY <1>1, InvHolds, PTL DEF Spec
<1> QED BY <1>2 DEF ServedIsFresh

\* With a cache, no work is done for options whose result was stored within
\* TTL (main.go:205-210).
THEOREM NoWorkTwiceHolds == Spec => NoWorkTwice
<1> DEFINE Once == \A r, q \in Ids :
         /\ TTL > 0 /\ at[r] = "none" /\ at'[r] = "working" /\ stored[q] # -1
         /\ req'[r] \in Cacheable /\ Options(req'[r]) = Options(req[q])
         => now - stored[q] > TTL
<1>1. Inv /\ [Next]_vars => [Once]_vars
  <2> SUFFICES ASSUME Inv, Next, NEW r \in Ids, NEW p \in Ids,
                      TTL > 0, at[r] = "none", at'[r] = "working", stored[p] # -1,
                      req'[r] \in Cacheable, Options(req'[r]) = Options(req[p])
               PROVE  now - stored[p] > TTL
    OBVIOUS
  <2>0. /\ now \in Nat /\ TTL \in Nat /\ stored[p] \in Int
        /\ at \in [Ids -> {"none", "working", "answered"}]
        /\ req \in [Ids -> Requests \cup {NoRequest}]
    BY Basics DEF Inv, TypeOK
  <2>1. \A q \in Requests : Work(r, q) => now - stored[p] > TTL
    <3> SUFFICES ASSUME NEW q \in Requests, Work(r, q), now - stored[p] <= TTL PROVE FALSE
      BY <2>0
    <3>1. req'[r] = q /\ (q \in Cacheable => ~Cache!Hit(Key(q)))
      BY <2>0 DEF Work, Arrives
    <3>2. Key(q) = Key(req[p]) /\ Key(q) \in Keys
      BY <3>1, OptionsTellKey, KeyOfCacheable
    <3>3. m[Key(q)] # Cache!NoEntry /\ m[Key(q)].expires >= stored[p] + TTL
      BY <3>2 DEF Inv, Remembered
    <3>4. now > m[Key(q)].expires
      BY <3>1, <3>3 DEF Cache!Hit, Cache!Expired
    <3>5. m[Key(q)].expires \in Nat
      BY <3>2, <3>3, EntryType DEF Inv
    <3> QED BY <2>0, <3>3, <3>4, <3>5
  <2>2. \E q \in Requests : Work(r, q)
    <3>1. CASE (Cache!Tick \/ Cache!Sweep) /\ UNCHANGED requestVars
      BY <3>1 DEF requestVars
    <3>2. ASSUME NEW s \in Ids, CtxEnds(s) \/ Done(s) PROVE FALSE
      BY <2>0, <3>2 DEF CtxEnds, Done, Answer
    <3>3. ASSUME NEW s \in Ids, NEW q \in Requests, Stopped(s, q) \/ Served(s, q) PROVE FALSE
      <4>1. at' = [at EXCEPT ![s] = "answered"]
        BY <3>3 DEF Stopped, Served, Answer
      <4> QED BY <2>0, <4>1
    <3>4. ASSUME NEW s \in Ids, NEW q \in Requests, Work(s, q) PROVE s = r
      BY <2>0, <3>4 DEF Work
    <3> QED BY <3>1, <3>2, <3>3, <3>4 DEF Next
  <2> QED BY <2>1, <2>2
<1>2. Spec => [][Once]_vars
  BY <1>1, InvHolds, PTL DEF Spec
<1> QED BY <1>2 DEF NoWorkTwice
------------------------------------------------------------------------------
(* The cache as the server uses it implements CacheAbs *)

\* What ResultCache takes for CacheAbs's held.
Live(clock, e) == TTL > 0 /\ e # Cache!NoEntry /\ ~(clock > e.expires)
Aged(clock, e) == IF Live(clock, e) THEN [age |-> clock + TTL - e.expires, value |-> e.value]
                  ELSE [age |-> -1]
Held(clock, entries) == [k \in Keys |-> Aged(clock, entries[k])]

LEMMA HeldIs ==
    /\ [k \in Keys |-> IF Cache!Hit(k) THEN [age |-> now + TTL - m[k].expires, value |-> m[k].value]
                       ELSE [age |-> -1]] = Held(now, m)
    /\ [k \in Keys |-> IF Cache!Hit(k) THEN [age |-> now + TTL - m[k].expires, value |-> m[k].value]
                       ELSE [age |-> -1]]' = Held(now', m')
BY DEF Held, Aged, Live, Cache!Hit, Cache!Expired, Cache!NoEntry

LEMMA AgedIsSomething == ASSUME NEW a, NEW v PROVE [age |-> a, value |-> v] # [age |-> -1]
<1>1. "value" \in DOMAIN [age |-> a, value |-> v] /\ "value" \notin DOMAIN [age |-> -1]
  OBVIOUS
<1> QED BY <1>1, Zenon

\* A tick ages what is held by one.
LEMMA TickAges ==
    ASSUME NEW clock \in Nat, NEW e, e # Cache!NoEntry => e.expires \in Nat, TTL \in Nat
    PROVE  Aged(clock + 1, e) = Cache!Abs!Older(Aged(clock, e))
<1>1. CASE Live(clock, e)
  <2> DEFINE h == [age |-> clock + TTL - e.expires, value |-> e.value]
  <2>1. Aged(clock, e) = h /\ h # [age |-> -1] /\ h.age = clock + TTL - e.expires /\ h.value = e.value
    BY <1>1, AgedIsSomething DEF Aged
  <2>2. e.expires \in Nat /\ e.expires >= clock /\ TTL > 0 /\ e # Cache!NoEntry
    BY <1>1 DEF Live
  <2>3. CASE e.expires = clock
    <3>1. Aged(clock + 1, e) = [age |-> -1]
      BY <2>2, <2>3 DEF Aged, Live
    <3>2. h.age = TTL
      BY <2>1, <2>2, <2>3
    <3> HIDE DEF h
    <3> QED BY <2>1, <3>1, <3>2 DEF Cache!Abs!Older, Cache!Abs!Nothing
  <2>4. CASE e.expires # clock
    <3>1. Aged(clock + 1, e) = [age |-> clock + 1 + TTL - e.expires, value |-> e.value]
      BY <2>2, <2>4 DEF Aged, Live
    <3>2. h.age # TTL
      BY <2>1, <2>2, <2>4
    <3>3. Cache!Abs!Older(h) = [h EXCEPT !.age = @ + 1]
      <4> HIDE DEF h
      <4> QED BY <2>1, <3>2 DEF Cache!Abs!Older, Cache!Abs!Nothing
    <3>4. [h EXCEPT !.age = @ + 1] = [age |-> clock + 1 + TTL - e.expires, value |-> e.value]
      BY <2>2
    <3> QED BY <2>1, <3>1, <3>3, <3>4
  <2> QED BY <2>3, <2>4
<1>2. CASE ~Live(clock, e)
  <2>1. Aged(clock, e) = [age |-> -1] /\ ~Live(clock + 1, e)
    BY <1>2 DEF Aged, Live
  <2>2. Aged(clock + 1, e) = [age |-> -1]
    BY <2>1 DEF Aged
  <2> QED BY <2>1, <2>2 DEF Cache!Abs!Older, Cache!Abs!Nothing
<1> QED BY <1>1, <1>2

LEMMA AbsInit == Init => Cache!Abs!Init
BY DEF Init, Cache!Init, Cache!Abs!Init, Cache!Hit, Cache!NoEntry, Cache!Abs!Nothing

LEMMA AbsNext == Inv /\ [Next]_vars => [Cache!Abs!Next]_(Cache!Abs!absVars)
<1> SUFFICES ASSUME Inv, [Next]_vars PROVE [Cache!Abs!Next]_(Cache!Abs!absVars)
  OBVIOUS
<1>0. /\ now \in Nat /\ TTL \in Nat /\ m \in [Keys -> Cache!Entries \cup {Cache!NoEntry}]
      /\ \A k \in Keys : m[k] # Cache!NoEntry => m[k].expires \in Nat
  BY Basics, EntryType DEF Inv
<1>1. ASSUME now' = now, Held(now', m') = Held(now, m) PROVE UNCHANGED Cache!Abs!absVars
  BY <1>1, HeldIs DEF Cache!Abs!absVars
<1>2. CASE Cache!Tick
  <2>1. now' = now + 1 /\ m' = m
    BY <1>2 DEF Cache!Tick
  <2>2. Held(now', m') = [k \in Keys |-> Cache!Abs!Older(Held(now, m)[k])]
    BY <1>0, <2>1, TickAges DEF Held
  <2>3. Cache!Abs!Tick
    BY <2>1, <2>2, HeldIs DEF Cache!Abs!Tick
  <2> QED BY <2>3 DEF Cache!Abs!Next
<1>3. CASE Cache!Sweep
  <2>1. now' = now
    BY <1>3 DEF Cache!Sweep
  <2>2. \A k \in Keys : Aged(now', m'[k]) = Aged(now, m[k])
    BY <1>0, <1>3, <2>1 DEF Cache!Sweep, Cache!Swept, Aged, Live
  <2>3. Held(now', m') = Held(now, m)
    BY <2>2 DEF Held
  <2> QED BY <1>1, <2>1, <2>3
<1>4. ASSUME NEW r \in Ids, Done(r) PROVE [Cache!Abs!Next]_(Cache!Abs!absVars)
  <2> DEFINE k == Key(req[r])
             e == [expires |-> now + TTL, value |-> r]
  <2>1. now' = now
    BY <1>4 DEF Done
  <2>2. CASE TTL > 0 /\ req[r] \in Cacheable
    <3>1. k \in Keys /\ m' = [m EXCEPT ![k] = e]
      BY <1>4, <2>2, KeyOfCacheable DEF Done, Cache!Set, Cache!Expiry
    <3>2. e # Cache!NoEntry /\ e.expires = now + TTL /\ e.value = r
      <4>1. "value" \in DOMAIN e /\ "value" \notin DOMAIN Cache!NoEntry
        BY DEF Cache!NoEntry
      <4> QED BY <4>1
    <3>3. Aged(now, e) = [age |-> 0, value |-> r]
      <4>1. Live(now, e)
        <5> HIDE DEF e
        <5> QED BY <1>0, <2>2, <3>2 DEF Live
      <4>2. Aged(now, e) = [age |-> now + TTL - e.expires, value |-> e.value]
        BY <4>1 DEF Aged
      <4> HIDE DEF e
      <4>3. now + TTL - e.expires = 0
        BY <1>0, <3>2
      <4> QED BY <3>2, <4>2, <4>3
    <3> HIDE DEF e, k
    <3>4. \A l \in Keys : Aged(now, m'[l]) = IF l = k THEN [age |-> 0, value |-> r] ELSE Aged(now, m[l])
      BY <1>0, <3>1, <3>3
    <3>5. Held(now', m') = [Held(now, m) EXCEPT ![k] = [age |-> 0, value |-> r]]
      BY <2>1, <3>1, <3>4 DEF Held
    <3>6. Cache!Abs!Put(k, r)
      BY <2>1, <3>5, HeldIs DEF Cache!Abs!Put
    <3> QED BY <3>1, <3>6 DEF Cache!Abs!Next
  <2>3. CASE ~(TTL > 0 /\ req[r] \in Cacheable)
    <3>1. m' = m
      BY <1>4, <2>3 DEF Done, Cache!Set
    <3> QED BY <1>1, <2>1, <3>1
  <2> QED BY <2>2, <2>3
<1>5. CASE UNCHANGED vars
  BY <1>1, <1>5 DEF vars
<1>6. ASSUME NEW r \in Ids, NEW q \in Requests,
             CtxEnds(r) \/ Stopped(r, q) \/ Served(r, q) \/ Work(r, q)
      PROVE  UNCHANGED Cache!Abs!absVars
  BY <1>1, <1>6 DEF CtxEnds, Stopped, Served, Work
<1>7. ASSUME NEW r \in Ids, CtxEnds(r) PROVE UNCHANGED Cache!Abs!absVars
  BY <1>1, <1>7 DEF CtxEnds
<1> QED BY <1>2, <1>3, <1>4, <1>5, <1>6, <1>7 DEF Next

\* As the handlers use it, the cache keeps its promise: what is to be had under
\* a key is what was stored last, for exactly TTL, whatever the sweeper does
\* and however often requests store again (cache.go:36-100).
THEOREM CachePromiseHolds == Spec => CachePromise
<1>1. Spec => Cache!Abs!Init /\ [][Cache!Abs!Next]_(Cache!Abs!absVars)
  BY AbsInit, AbsNext, InvHolds, PTL DEF Spec
<1> QED BY <1>1 DEF CachePromise, Cache!Promise, Cache!Abs!Spec
------------------------------------------------------------------------------
\* What a request under work is still waiting for: the end of its context, at
\* the latest, and the answer.
StepsAhead(r) == IF at[r] # "working" THEN 0 ELSE IF ctx[r] = "live" THEN 2 ELSE 1

\* Every request is answered once, for good, and from its own work if it was
\* worked on.  It waits for that work or its timeout alone: no other request, the
\* sweeper or the clock sets it back (main.go:205-241, 265-292).
AnswersAreFinal ==
    [][\A r \in Ids :
         /\ at[r] = "answered" => UNCHANGED <<req[r], at[r], answer[r], stored[r]>>
         /\ at[r] = "working" => /\ req'[r] = req[r]
                                 /\ \/ UNCHANGED <<at[r], ctx[r]>>
                                    \/ StepsAhead(r)' < StepsAhead(r)
                                 /\ at'[r] # "working" => at'[r] = "answered" /\ answer'[r].by = r]_vars

\* For all requests and times: WorkIsAnswered but for the fairness of timeouts.
THEOREM AnswersAreFinalHolds == Spec => AnswersAreFinal
<1> DEFINE GetsOn(r) ==
             /\ at[r] = "answered" => UNCHANGED <<req[r], at[r], answer[r], stored[r]>>
             /\ at[r] = "working" => /\ req'[r] = req[r]
                                     /\ \/ UNCHANGED <<at[r], ctx[r]>>
                                        \/ StepsAhead(r)' < StepsAhead(r)
                                     /\ at'[r] # "working" => at'[r] = "answered" /\ answer'[r].by = r
<1>1. ASSUME TypeOK, Next, NEW r \in Ids PROVE GetsOn(r)
  <2>0. /\ req \in [Ids -> Requests \cup {NoRequest}] /\ at \in [Ids -> {"none", "working", "answered"}]
        /\ ctx \in [Ids -> {"live", "ended"}] /\ DOMAIN answer = Ids /\ DOMAIN stored = Ids
    BY <1>1 DEF TypeOK
  <2>1. CASE (Cache!Tick \/ Cache!Sweep) /\ UNCHANGED requestVars
    BY <2>1 DEF requestVars
  <2>2. ASSUME NEW q \in Ids, CtxEnds(q) PROVE GetsOn(r)
    BY <2>0, <2>2 DEF CtxEnds, StepsAhead
  <2>3. ASSUME NEW q \in Ids, Done(q) PROVE GetsOn(r)
    <3>1. /\ at[q] = "working" /\ at' = [at EXCEPT ![q] = "answered"] /\ UNCHANGED <<req, ctx>>
          /\ answer' = [answer EXCEPT ![q] = [status |-> 200, by |-> q]]
          /\ stored' = stored \/ stored' = [stored EXCEPT ![q] = now]
      BY <2>3 DEF Done, Answer
    <3>2. CASE q = r
      <4>1. StepsAhead(r)' = 0 /\ StepsAhead(r) \in {1, 2}
        BY <2>0, <3>1, <3>2 DEF StepsAhead
      <4>2. at'[r] = "answered" /\ answer'[r].by = r
        BY <2>0, <3>1, <3>2
      <4> QED BY <3>1, <3>2, <4>1, <4>2
    <3>3. CASE q # r
      BY <2>0, <3>1, <3>3
    <3> QED BY <3>2, <3>3
  <2>4. ASSUME NEW i \in Ids, NEW q \in Requests, Stopped(i, q) \/ Served(i, q) \/ Work(i, q)
        PROVE GetsOn(r)
    <3>1. /\ at[i] = "none" /\ UNCHANGED <<ctx, stored>>
          /\ \A j \in Ids \ {i} : req'[j] = req[j] /\ at'[j] = at[j] /\ answer'[j] = answer[j]
      BY <2>0, <2>4 DEF Stopped, Served, Work, Arrives, Answer
    <3> QED BY <2>0, <3>1
  <2> QED BY <1>1, <2>1, <2>2, <2>3, <2>4 DEF Next
<1>2. TypeOK /\ [Next]_vars => [\A r \in Ids : GetsOn(r)]_vars
  BY <1>1
<1>3. Spec => [][\A r \in Ids : GetsOn(r)]_vars
  BY <1>2, TypesHold, PTL DEF Spec
<1> QED BY <1>3 DEF AnswersAreFinal
==============================================================================
