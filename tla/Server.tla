------------------------------- MODULE Server -------------------------------
(***************************************************************************)
(* The HTTP server (cmd/server/main.go): requests go through the layers of *)
(* the middleware chain (internal/httpmw) to a handler, which answers from *)
(* the result cache or does the work under a context with a timeout.  Any  *)
(* number of requests are served at once, and nothing keeps two of them    *)
(* from doing the same work.                                               *)
(*                                                                         *)
(* The work itself, Options.Run, Discover or EnrichHosts, is one interval  *)
(* here; modules Discovery and Enrichment have it.  None of them returns   *)
(* an error, so status 502 is never sent.                                  *)
(***************************************************************************)
EXTENDS Integers, Sequences, FiniteSetsExt

CONSTANTS
    Requests,      \* the requests clients may send, see ServerAssumption
    Ids,           \* one for each request that is sent
    TTL, MaxTime,  \* of the cache
    ApiKeySet,     \* API_KEY is set
    CorsOn,        \* CORS_ORIGINS is set
    LimitOn,       \* RATE_LIMIT is positive
    AllowBrute     \* ALLOW_BRUTE is "1"

Toggles == {"passive", "brute", "whois", "owner", "takeover"}
Exempt == {"/", "/healthz", "/api"}
ApiPaths == {"/api/scan", "/api/discover", "/api/enrich"}

\* A request: its method and path, whether it carries the key, the domain
\* sanitizeDomain makes of it ("" for none), the toggles that are given, and
\* whether its body decodes and, for enrich, names a host of the domain.
ASSUME ServerAssumption ==
    /\ \A q \in Requests :
         /\ q.method \in {"GET", "POST", "OPTIONS", "PUT"}
         /\ q.keyed \in BOOLEAN /\ q.valid \in BOOLEAN
         /\ q.given \in [Toggles -> {"yes", "no", "absent"}]
    /\ {ApiKeySet, CorsOn, LimitOn, AllowBrute} \subseteq BOOLEAN
    /\ TTL \in Nat /\ MaxTime \in Nat
    /\ "nobody" \notin Ids

VARIABLES
    now, m,    \* of the cache
    req,       \* req[r]: the request r, or NoRequest
    at,        \* at[r]: "none", "working", "answered"
    ctx,       \* ctx[r]: the context r works under: "live", "ended"
    answer,    \* answer[r]: its status, and who did the work the result is of
    stored     \* history: when r's own result was stored, or -1
vars == <<now, m, req, at, ctx, answer, stored>>
requestVars == <<req, at, ctx, answer, stored>>

NoRequest == [path |-> "none"]
NoAnswer == [status |-> 0, by |-> "nobody"]
------------------------------------------------------------------------------
(* What a request asks for *)

\* A toggle that a GET leaves out is on, brute excepted; one that the body of a
\* POST leaves out keeps Go's zero value and is off (README.md:159 has it on:
\* ServerClaims).  Brute force must be allowed by the server.
On(q, t) ==
    /\ q.given[t] = "yes" \/ (q.given[t] = "absent" /\ q.method = "GET" /\ t # "brute")
    /\ t = "brute" => AllowBrute

\* The options the work is done with: a scan heeds all toggles, the two phases
\* two each.
Heeded(q) == CASE q.path = "/api/scan" -> Toggles
               [] q.path = "/api/enrich" -> {"owner", "takeover"}
               [] OTHER -> {"passive", "whois"}
Options(q) == [path |-> q.path, domain |-> q.domain,
               enabled |-> {t \in Heeded(q) : On(q, t)}]

\* Faulty: the owner toggle, added late, is not part of the key.
FaultyKey(q) == <<q.path = "/api/discover", q.domain, [t \in Heeded(q) \ {"owner"} |-> On(q, t)]>>
\* The cache key: a prefix sets the keys of discover apart.
Key(q) == <<q.path = "/api/discover", q.domain, [t \in Heeded(q) |-> On(q, t)]>>

Cacheable == {q \in Requests : q.path \in {"/api/scan", "/api/discover"}}
Keys == {Key(q) : q \in Cacheable}

Cache == INSTANCE ResultCache WITH Values <- Ids
------------------------------------------------------------------------------
(* The chain: CORS, rate limit, API key, the mux and the handler's own tests *)

Preflight(q) == q.method = "OPTIONS"

\* Faulty: whatever comes under an exempt path is exempt.
FaultyKeyless(q) == q.path \in Exempt \cup ApiPaths \/ Preflight(q)
Keyless(q) == q.path \in Exempt \/ Preflight(q)

Methods(path) == IF path = "/api/enrich" THEN {"POST"} ELSE {"GET", "POST"}

\* The layers in the order of the chain, by the status they answer with.
Layers == <<204, 429, 401, 200, 404, 405, 400>>

\* The layers that would stop a request whose client has that many tokens left.
\* The limiter lets exempt paths and preflights pass, as the key check does.
Stopping(q, tokens) == {layer \in DOMAIN Layers :
    \/ layer = 1 /\ CorsOn /\ Preflight(q)
    \/ layer = 2 /\ LimitOn /\ tokens = 0 /\ q.path \notin Exempt /\ ~Preflight(q)
    \/ layer = 3 /\ ApiKeySet /\ ~Keyless(q) /\ ~q.keyed
    \/ layer = 4 /\ q.path \in Exempt
    \/ layer = 5 /\ q.path \notin ApiPaths
    \/ layer = 6 /\ q.method \notin Methods(q.path)
    \/ layer = 7 /\ (~q.valid \/ q.domain = "")}

Answer(r, status, by) == /\ at' = [at EXCEPT ![r] = "answered"]
                         /\ answer' = [answer EXCEPT ![r] = [status |-> status, by |-> by]]

Arrives(r, q) == at[r] = "none" /\ req' = [req EXCEPT ![r] = q]

\* A layer answers.  Whether the limiter has a token left is its own affair.
Stopped(r, q) ==
    /\ Arrives(r, q)
    /\ \E tokens \in 0..1 :
         /\ Stopping(q, tokens) # {}
         /\ Answer(r, Layers[Min(Stopping(q, tokens))], "nobody")
    /\ UNCHANGED <<now, m, ctx, stored>>

\* The handler is reached, and finds a result in the cache.
Served(r, q) ==
    /\ Arrives(r, q) /\ Stopping(q, 1) = {}
    /\ q \in Cacheable /\ Cache!Hit(Key(q))
    /\ Answer(r, 200, m[Key(q)].value)
    /\ UNCHANGED <<now, m, ctx, stored>>

\* The handler is reached, and there is work to do.
Work(r, q) ==
    /\ Arrives(r, q) /\ Stopping(q, 1) = {}
    /\ q \in Cacheable => ~Cache!Hit(Key(q))
    /\ at' = [at EXCEPT ![r] = "working"]
    /\ UNCHANGED <<now, m, ctx, answer, stored>>

\* Faulty: only a scan runs under a timeout.
FaultyCtxEnds(r) ==
    /\ at[r] = "working" /\ ctx[r] = "live" /\ req[r].path = "/api/scan"
    /\ ctx' = [ctx EXCEPT ![r] = "ended"]
    /\ UNCHANGED <<now, m, req, at, answer, stored>>
\* The timeout fires, or the client leaves.
CtxEnds(r) ==
    /\ at[r] = "working" /\ ctx[r] = "live"
    /\ ctx' = [ctx EXCEPT ![r] = "ended"]
    /\ UNCHANGED <<now, m, req, at, answer, stored>>

\* The work is done, or has been cut short by the end of its context.  Either
\* way its result is stored, replacing one that may have come meanwhile, and
\* sent.  The results of enrich are not cached.
Done(r) ==
    /\ at[r] = "working"
    /\ IF req[r] \in Cacheable
       THEN /\ Cache!Set(Key(req[r]), r)
            /\ stored' = [stored EXCEPT ![r] = now]
       ELSE UNCHANGED <<m, stored>>
    /\ Answer(r, 200, r)
    /\ UNCHANGED <<now, req, ctx>>

Init ==
    /\ Cache!Init
    /\ req = [r \in Ids |-> NoRequest]
    /\ at = [r \in Ids |-> "none"]
    /\ ctx = [r \in Ids |-> "live"]
    /\ answer = [r \in Ids |-> NoAnswer]
    /\ stored = [r \in Ids |-> -1]

Next ==
    \/ (Cache!Tick \/ Cache!Sweep) /\ UNCHANGED requestVars
    \/ \E r \in Ids : CtxEnds(r) \/ Done(r)
    \/ \E r \in Ids, q \in Requests : Stopped(r, q) \/ Served(r, q) \/ Work(r, q)

Spec == Init /\ [][Next]_vars

\* Timeouts fire, and work whose context has ended ends: its lookups fail at
\* once.  Nothing is assumed of work under a live context.
Fairness == \A r \in Ids : /\ WF_vars(CtxEnds(r))
                           /\ WF_vars(Done(r) /\ ctx[r] = "ended")
FairSpec == Spec /\ Fairness
------------------------------------------------------------------------------
TypeOK ==
    /\ Cache!CacheTypeOK
    /\ req \in [Ids -> Requests \cup {NoRequest}]
    /\ at \in [Ids -> {"none", "working", "answered"}]
    /\ ctx \in [Ids -> {"live", "ended"}]
    /\ answer \in [Ids -> [status : {0, 200, 204, 400, 401, 404, 405, 429},
                           by : Ids \cup {"nobody"}]]
    /\ stored \in [Ids -> -1..MaxTime]

\* Whoever did the work, a result is of the domain and the options it is served
\* for, as the handler reads them: a GET and a POST that come to the same share
\* a result, toggles that matter to the work are told apart by the key, and a
\* scan is never answered with a discovery, which Get could not render
\* (cache.go:73).
ResultIsOfTheRequest == \A r \in Ids : answer[r].by # "nobody" =>
    Options(req[r]) = Options(req[answer[r].by])

\* What is served from the cache was stored at most TTL ago: a result that was
\* cut short, or is wrong for another reason, is gone after that.
ServedIsFresh ==
    [][\A r \in Ids : answer'[r] # answer[r] /\ answer'[r].by \notin {r, "nobody"} =>
         now - stored[answer'[r].by] <= TTL]_vars

\* With a cache, work is only done if no result of the same options was stored
\* within TTL, whatever other requests have stored and the sweeper has dropped
\* since.
NoWorkTwice ==
    [][\A r, q \in Ids :
         /\ TTL > 0 /\ at[r] = "none" /\ at'[r] = "working" /\ stored[q] # -1
         /\ req'[r] \in Cacheable /\ Options(req'[r]) = Options(req[q])
         => now - stored[q] > TTL]_vars

\* No upstream is bothered for a request without the key, although OPTIONS
\* passes the key check: the handlers' own methods stop it (main.go:192).
WorkIsAuthorised == \A r \in Ids : at[r] = "working" \/ answer[r].by # "nobody" =>
    /\ ApiKeySet => req[r].keyed
    /\ req[r].method \in {"GET", "POST"}

\* The server uses its cache as ResultCache has it, which keeps its promise.
CachePromise == Cache!Promise

\* A request that is being worked on is answered, even if no upstream answers.
WorkIsAnswered == \A r \in Ids : at[r] = "working" ~> at[r] = "answered"
==============================================================================
