# Verification of subscope

TLA+ models of *subscope*, a Go program that discovers the subdomains of a
domain from several sources at once and enriches each with DNS records, IP
owners and takeover signals. It runs as a command line tool and as an HTTP
server with a web page. TLC checks the models on small instances; TLAPS proves
theorems about them for every value of their constants. Paths below are relative
to the repository root, and `scan.go` is `internal/scan/scan.go`, `main.go` is
`cmd/server/main.go`, and so on.

## 1. Inventory

| component | state it keeps | operations | hard behaviour | correct when |
|---|---|---|---|---|
| `scan.Options.Discover` (scan.go:71-226) | shared `model.Set`, statuses map, WaitGroup | start a goroutine per source, set a status, join, count, report, WHOIS | up to seven goroutines writing a set and a map; one child context per HTTP source; parent context of a client that may leave | the report is what the sources had contributed when each had settled; verdicts tell the truth |
| HTTP sources (discover/crtsh.go, passive.go) | attempt counter, last error | key check, fetch, retry, backoff, add | silent, failing, slow upstreams; retry against a deadline | an "ok" source lost nothing, a failed one added nothing |
| `discover.AXFR` (axfr.go, dnsx/resolver.go:235-275) | list of leaking servers | look up name servers, transfer from each | one of several servers refusing; no context | all servers asked |
| `discover.Brute` (brute.go) | job channel, pool, word index | load list, send, look up, add, close, wait | select between end of context and send; workers in flight at return | nil means the list was exhausted; nothing is added after the return |
| `scan.Options.EnrichHosts` (scan.go:228-293) | job channel, pool, shared slice | send, resolve, ask owners, check, append, wait | two levels of fan-out and join; context ending half-way | exactly one record per host; record fields consistent |
| `scan.Options.Run` (scan.go:47-69) | host list and source map of the first phase | discover, enrich | two phases made into one report | counts, tags and records agree |
| `dnsx.Resolver` | HTTP and DNS clients (immutable) | query, Exists, Enrich, NSForDomain, AXFR | failure looks like absence | |
| `rdap` | process-wide owner cache | IP, Domain | check-ask-store without a lock in between | a hit is what some upstream said of that address |
| `takeover.Check` | none | scan the CNAME chain | acts on a lookup that may have failed | an alarm is about a dangling target |
| `cache.Cache` | map with expiry | Get, Set, sweep | concurrent misses, expiry against sweep | never serves expired or foreign results |
| server handlers (main.go) | none of their own | scan, discover, enrich | timeouts, client leaving, caching what was cut short | a request's answer is of its own domain and options |
| `httpmw` | token buckets | allow, sweep; API key; CORS | many clients, sweep against refill; the order of the layers | at most capacity + rate * time requests; no work without the key |
| web client (web/index.html) | the last report, the button | discover, then enrich | an asynchronous handler; the second phase replaces the first | shows the last scan, can be used again |
| command line (cmd/subscope/main.go) | none | flags, Run, output | interrupt | |

The handlers and the command line call `Discover` and `EnrichHosts`; `Discover`
shares one `model.Set` with its sources and gives them its context or a child of
it; both resolve through `dnsx`, and enrichment asks `rdap`, whose cache all
requests of the process share. The HTTP handlers share the result cache and the
rate limiter. The page calls the handlers, one after the other. `PROJECT.json`
lists every component with its status, and under `hazards` what in this code is
hard to test, line by line.

## 2. Plan

Done, each with its proofs:

1. `DiscoverAbs`, `Discovery`: the core.
2. `Brute`, the pool that `Discovery` abstracts to one source.
3. `EnrichAbs`, `Enrichment`.
4. `OwnerCache`: the process-wide memo of `rdap.IP` and its two upstreams.
5. `CacheAbs`, `ResultCache` and, around it, `Server`: middleware chain,
   handlers, timeouts, clients that leave.
6. `LimiterAbs`, `RateLimiter`: buckets and their sweeper.
7. `Pipeline`: the two ways from discovery to enriched records, `Options.Run`
   (over `DiscoverAbs`) and the page.
8. `DiscoveryProgress`, `BruteProgress` and `EnrichmentProgress`: why those
   three end.

Left, in this order:

9. Termination of Options.Run in `Pipeline` along the lines of the `Progress`
   modules.
10. `Hostnames`: `normalizeHost`, `sanitizeDomain` and the host filter of
   `/api/enrich` on names given as label sequences, against a reference
   definition.
11. The DoH and UDP transports of `dnsx`, if a property can be found that tells
   them apart.

## 3. Modules

Each `MC` module gives its component the model values of the configurations.
Definitions called `Faulty...` are plausible bugs; each shows that one property
depends on the definition it follows in the text.

### Discovery

One source is one goroutine; its place in the code is `pc[s]`: `try` (loop head
of `CrtSh`), `fetch` (request and body), `backoff`, `adding` (the loop around
`Set.Add`), `returned` (back in the wrapper `run`) and `done` (status set,
`dwg.Done`). `err[s]` is what the function returned; `sctx[s]` is the child
context of a source started by `run`, `ctx` the caller's, which alone axfr and
brute get. `found` is the set, as a function from names to tags, so that
`Set.Add` is one action, as its mutex makes it. Counting and reporting happen in
`Collect`, after the join, from the snapshot `items`. `main` is Discover's own
goroutine.

A name is a model value. `InScope` is what `normalizeHost` keeps; `Kept` is its
use. An upstream hands over any set of names, once for the JSON sources (they
decode the whole body first) and for hackertarget (which does not, hence
`CanBreak`), per name server for axfr: `zones` has what each of them will hand
over, settled when they are looked up, so that `OkIsComplete` can speak of the
names of a server that has not been asked. For securitytrails a name is one with
the domain appended, as the code does before it normalizes.

An HTTP request ends in `Fetched` or `FetchFails`/`CrtShFails` at any time: the
30-second client timeout and every kind of upstream error are among the
failures. The classification of an error, `State`, is evaluated when the status
is set, later than the return, because the code reads `sctx.Err()` then.

`DiscoverAbs` is the promise to callers: each source contributes hosts, settles
once, and the single report attributes to each source its verdict and exactly
what it contributed. `Discovery` implements it (`Promise`), with a source's
contribution read off `found` and the report off `items`.

### Brute

Words are numbers in list order. A worker's place `at[k]` is `idle` at the
channel, one of the three queries of `Exists`, `add`, or `exited`. A send on the
unbuffered channel and its receive are one action, `Send`. `Abandon` and `Send`
can both be enabled, as the Go `select` has no preference. `HasA`, `HasAAAA`,
`HasCNAME` say which queries have an answer; `YieldsNothing` covers both an
empty answer and a failed query. `lost` is a history variable that remembers
for which words an answer was lost.

`Discovery` has the whole pool as its source "brute" and lets it add any host
and return at will. That this is what the pool does is `PlaysItsPart`: `AsSource`
instantiates `Discovery` with brute as its only source besides a crt.sh that has
yet to start, and `Brute` implements it. `main = "returned"` is the source's
return, `found` its tag in the set; sends, lookups and exits stutter. So nothing
is added after the return, and an error has the cause that the guard of
`BruteReturns` gives it: the context has ended, or there is no host.

### Enrichment

A worker's `stage[k]` is `idle`, `dns` (six concurrent queries, of which the
model has the address queries and CNAME), `owner` (one goroutine per address),
`takeover`, `exists` (the lookups of a CNAME target), `append` or `exited`.
`open[k]` has the queries and lookups that are under way, which the worker's
WaitGroup waits for; that none outlives its stage is a consequence of the join
(`QueryIsJoined`), not a guard. Queries only go out under a live context
(`QueriesOut`): afterwards they fail at once and a record stays blank, but those
already out may still bring an answer, and the takeover check, which looks its
target up in vain, then flags the host. `FalseAlarmsAreOfTheEnd` is what holds in
spite of that: the hosts in hand at that moment are the only ones at risk. A
record is built in `rec[k]`, appended to `results`. An answer to an
address query may contain CNAME targets; the code puts those among the addresses
and merges them into the CNAMEs, and so does the model. `refused` is a history
field: addresses whose owner lookup failed. An owner lookup is one step here and
`OwnerCache` has its inside. `EnrichAbs` is the promise to callers: one record
per position of the host list, then the report.

### OwnerCache

`rdap.IP` as several goroutines (`Callers`) run it. `asked[c]` is the address a
goroutine is asking upstream for; `Hit` and `Miss` are the look-up under the
lock, `Store` the store under it, and between them the lock is free. `rdapResp`
and `asn` are the two concurrent requests, `Joined` the WaitGroup that joins
them. A lookup without an owner is not stored (`Fail`); one without an ASN is
(`asn = ""`), for the life of the process. `said` and `stored` are history
variables: what rdap.org has named for an address and how often it was stored.

### ResultCache, CacheAbs and Server

`ResultCache` is `cache.Cache`: `m` maps keys to entries with their expiry, on a
clock of ticks; `Hit` is the test of `Get` and `GetDiscover`, `Set` both
setters, `Sweep` one round of `gc`, which may come any time. `CacheAbs` is the
promise: what was put last is to be had for TTL and no longer, with no sweeper
and no expiry stamps in sight.

`Server` instantiates `ResultCache` with request identities as values, so that
`answer[r].by` tells whose work an answer contains. A request arrives and in one
step is stopped by a layer of the chain (`Stopped`, the first of `Layers` that
does), served from the cache (`Served`) or handed to the work (`Work`), which
ends in `Done`, with a live context or one that has ended by timeout or because
the client left (`CtxEnds`): the code stores the result in either case. `On`
has the defaults of the toggles as the handlers read them, which differ between
GET and POST (the documentation has them alike, see Claims); `Key` is the key
the handlers make of domain and toggles, `Options` what the work depends on.

### RateLimiter

`buckets[c]` has the tokens of a client and the time of its last refill. Time is
in ticks and tokens are in fractions, `Minute` of them a token, so that
`elapsed * PerMinute` is exact. `Pass` and `Refuse` are the two outcomes of
`allow`, `Sweep` one round of `gc`. `Watch` is no step of the program: it opens,
at any time, the window in which `passed[c]` counts.

`LimiterAbs` is the promise: a level per client that every tick fills up to the
capacity and only a request that is let through draws on. Buckets that are made
at the first request, refilled late and dropped by the sweeper are nowhere in
it. `RateLimiter` implements it (`LimiterPromise`), a client's level being what
`allow` would find (`Available`); a refusal, which does write to the bucket, and
a sweep are stutters.

### Pipeline

Two programs in one module, told apart by `program`. The page: `Submit`, then
`DiscoverAnswers` or `DiscoverFails`, then `EnrichAnswers` or `EnrichFails`;
`pc[s]` is the place of the handler of submit `s`, and only the disabled button
(`busy`) keeps two of them apart. `rows` is the table; `Accepted` is what
`/api/enrich` makes of the host list (filter, then at most `MaxHosts`).
`Options.Run`: the variables of `DiscoverAbs` evolve by its steps until the
report, then `RunEnriches` makes the records in any order.

### Progress

`DiscoveryProgress`, `BruteProgress` and `EnrichmentProgress` add no behaviour.
Each defines, in the terms of its component, what is still ahead of it:
`StepsAhead` counts the words, hosts, queries, attempts, budgets and returns to
come, part by part, and `CanMove` says that one of the goroutines is not waiting
for another, nor, in Discovery, for an HTTP upstream. `Converges` is the safety
core of termination, without fairness: `StepsAhead` is bounded at first, every
step makes it less, and until the return there is a step to be taken. The number
is a natural, so that a behaviour has finitely many steps; where it ends,
`CanMove` names an action that is weakly fair, so that it has returned. This
last inference, which needs ENABLED, is left to TLC (`DiscoverReturns`,
`BruteEnds`, `EnrichEnds`).

### Claims

`EnrichmentClaims`, `ServerClaims` and `PipelineClaims` hold statements of the
repository's comments and documentation that the code does not keep. Each is refuted by a run:

| property | statement | what the code does |
|---|---|---|
| `OwnersAreOfIPs` | model.go:24 "Owners maps each A/AAAA IP" | CNAME targets are looked up as IP addresses |
| `AlarmIsReal` | takeover.go:3 "does not resolve (NXDOMAIN)" | any failed lookup raises the alarm: the context ends when a host's queries are out, they bring its CNAME, and the target's lookups fail at once |
| `DefaultsAreOn` | README.md:159 "(POST JSON or GET query params) ... (default true)" | a toggle left out of a POST body is off |
| `RecordsAreMerged` | index.html:159 "Merge enriched records back into the report" | the records replace the rows: sources are gone, and hosts `/api/enrich` did not accept |

Met while modelling, and to be read off the models without a run:

- model.go:66 "new uniques attributed to this source": a host found by two
  sources counts for both (`Collect`).
- brute.go:15 "Any candidate that resolves ... is added": Brute returns nil
  although the context ended under its last lookups (`lost` in `Brute`).
- scan.go:89 "Each source is bounded by its own deadline": brute and axfr have
  the caller's only (`sctx` in `Discovery`).
- Concurrent misses all do the work, in `Server` (the last one's result stays in
  the cache) as in `OwnerCache` (whose last owner may lack the ASN that an
  earlier one had). DOCUMENTATION.md:288 calls IP lookups "cached and deduped".
- A scan that its deadline or a leaving client cut short is cached for the whole
  TTL (`Done` does not look at `ctx`).
- A minute can let twice RATE_LIMIT requests through (burst plus refill), and
  `Retry-After: 10` is too short when RATE_LIMIT is below 6: hence the proviso
  of `RetryAfterSuffices`.
- `Run`, `Discover` and `EnrichHosts` never return an error, so the handlers'
  502 is never sent.
- The page never asks for brute force, and after a failed second phase its rows
  stay pending (`EnrichFails`).
- A takeover check stops at the first CNAME with a fingerprint: a dangling one
  after it goes unnoticed.

## 4. Runs

| run | what it shows | bounds |
|---|---|---|
| `discovery_server` | well-typed, scope, failed sources add nothing, cancellation is no timeout, the promise | crtsh, hackertarget, virustotal without a key; apex, one subdomain, one foreign name; two crt.sh attempts; both ends of the context; WHOIS |
| `discovery_cli` | "ok" is complete, what is ahead gets less, and Discover returns | crtsh, axfr with two name servers, brute; interrupt |
| `brute_pool` | what is found, Brute is the source that Discovery has, it cannot get stuck and returns | two workers, four words: found by A, by AAAA, by CNAME, and one that does not exist |
| `enrich_pool` | one record each, no owner lost, records consistent with the joined answers, no false alarm but for the hosts in hand when the context ends, EnrichHosts cannot get stuck and returns | two workers, two hosts, A and CNAME queries, one address, one target of a known service, which exists; interrupt |
| `owner_cache` | owners are real and settle, upstream is asked a bounded number of times, lookups return | two goroutines, two addresses, two organisations, an ASN or none |
| `rate_limiter` | window bound, a level that only service draws on (`LimiterPromise`), Retry-After | two clients, capacity two, two thirds of a token per tick, idle time of three ticks, six ticks |
| `server` | answers belong to their requests and are fresh, work is authorised, not repeated, and answered | three requests of seven kinds at once, by GET and POST with and without toggles, on two domains; TTL 1, two ticks |
| `pipeline` | what the page shows, what Run credits, the form comes back | two submits, a domain with an odd name and three others and one with the apex only; two sources; at most two hosts enriched |
| `claim_owner_ips`, `claim_alarm` | refute the claims above | one worker, one host, A and AAAA, one address, two targets of which one does not exist |
| `claim_defaults`, `claim_merge` | refute the claims above | one request of `server`; as `pipeline` |

Why the bounds are enough. In discovery, sources meet only in the set, the
statuses and the join, and each only touches its own tag and its own status;
three concurrent sources, one of each kind (retrying, streaming, skipped or
budgetless), already give every order of two adds, two settlements and a join.
The keyed sources and otx differ by name alone. A third crt.sh attempt repeats
the second (after it, too, `CrtSh` waits once more). Two workers and more words
than workers make sends wait for workers and workers for sends. In
enrichment, two hosts and two workers have a host sent before the end of the
context and one after, and a worker that joins while the other appends; a second
address or target is one more member of the sets that are joined. Two goroutines
in `rdap.IP` race on one address or work on two. Two ticks with TTL 1 have one
expiry, an entry renewed, a sweep before, at and after the instant of expiry;
three requests have two that do the same work and one that finds its result.
Six ticks are two minutes: a bucket is emptied, left with a fraction, refilled
to the brim, dropped and made anew. Two submits have one scan after another of
another domain. The proofs of section 6 hold without the bounds.

No symmetry is used, as the runs with liveness properties could not. Where
deadlock is not reported (`CHECK_DEADLOCK FALSE`), every behaviour may end:
after the return, or when all requests, ticks or submits allowed are used up,
nothing is left to do. That nothing stops earlier is what `DiscoverReturns`,
`BruteEnds`, `EnrichEnds`, `WorkIsAnswered` and `FormComesBack` show.

`TypeOK` bounds counters, loop indices, token counts and expiry stamps, and the
number of rows of a host, which is where it can fail; its mutants are
off-by-one loops, a missing cap, a wrong expiry, a merge that doubles rows.

## 5. Fairness

Goroutines that can run do, timers fire, deadlines arrive (`BudgetExpires`).
Nothing is assumed of an HTTP upstream of discovery: a request is only certain
to fail once its own context has ended, and success is never assumed. (The
client timeout of 30 seconds would be another certain end; `DiscoverReturns`
does not need it.) A DNS query and a zone transfer end by the timeouts of the
DNS library or of the resolver's HTTP client, and an owner or WHOIS request by
the 15-second client timeout of rdap.go:26, so those steps are weakly fair; in
`OwnerCache` it is the failing end that is fair, at rdap.go:26 and, for the ASN,
at rdap.go:211. In `Server`, the handlers' timeout fires (`CtxEnds`), and work
whose context has ended ends. In `Pipeline`, a fetch settles: the server answers
(`WorkIsAnswered`) or its write timeout closes the connection (main.go:109). The
end of the caller's context is assumed of the server only, whose handlers set a
timeout.

## 6. Proofs

Every safety property of the passing runs, and every refinement, is a theorem:
for all values of the constants that satisfy the module's assumption, which says
what the constants are. In each module an inductive invariant is built from
named parts, one lemma per action shows that it is kept, and the theorems follow.

`DiscoveryProofs` (from `DiscoveryAssumption`: the apex is in scope, the sources
are those of the code, at least one attempt). The properties are about the
report and are not inductive. `Inv` adds

- `Joining`: a source is done exactly when its status is set, and once Discover
  has gone on all are done and the snapshot is still the set, so that what holds
  of `found` holds of the report;
- `Truthful`: the verdict agrees with the error returned, and "timeout" with the
  child context, which no longer changes once it has ended;
- `Scoped`: the set itself is in scope;
- `Complete`: a source that returned nil has added all it was given, to which
  `Asked` adds that the answer of axfr has the zone of every server that is not
  left to ask, and none is left when it returns;
- `Clean`: a source that has not yet got its whole answer, or has failed, has no
  tag in the set.

The refinement follows: a step that adds to `found` comes from a source that is
not done, so the report does not exist yet; `Settle` is one abstract `Settle`;
`Collect` is `Publish`; everything else stutters.

`BruteProofs`, for all lists, pools and zones. The heart is `Handled`: every
word sent that resolves is found, lost, or in the hands of a worker that has no
query with an answer behind it; with all workers gone (`Phases`), nothing is
left but found or lost. `ErrorIsExplained`, a part of `Inv`, is what the return
needs in the refinement of `Discovery`'s source.

`ConvergesHolds`, in `DiscoveryProofs`, `BruteProofs` and `EnrichmentProofs`,
has the same argument in each (from `FiniteAssumption`: names and name servers,
workers, addresses and targets are finite; words and hosts are numbered).
`StepsAreSpent`: a step takes something from one part of what is ahead and adds
to none, by cases on the action; it needs that a word or a host is with one
worker at most (`Orderly`; `Disjoint` and `Sent`), so that nobody else still
owes what a worker has just done. In Discovery it is the place of a source that
moves on, or the attempt of crt.sh. `NeverStuck`: a busy worker can go on
because what it waits for is of its own (`Fanned`), an idle one is met by the
send or finds the channel closed; a source whose upstream is silent has a live
budget, or a context that has ended. The parts are finite sets, so that each
loss makes the sum less.

`EnrichmentProofs` (addresses, targets, query types and "none" are different
things).
`InHand` says what is true of a record at each stage of its worker, up to
`Whole` at the append; `Sound` and `AllWhole` say it of all workers and of the
slice. `FalseAlarmsAreOfTheEnd` has a live part, which `Explained` gives, and one
about each position sent after the end of the context: `Spared` says that it is
not flagged and that its worker has no query under way, no answer and no
finding; `SparedForEver` that every step keeps this. For the refinement,
`Disjoint` and `Sent` say that the positions sent are those at work and those recorded, each once; `CountsOfAppend` turns that into
the numbers `EnrichAbs` counts.

`OwnerCacheProofs` (finitely many goroutines). `Named` and `Heard` carry what
rdap.org said from the request to the cache and the result. `Room` bounds the
herd: the lookups of a known address that may still store, and those that have,
are different goroutines. `LookupsConvergeHolds` is the safety half of
`LookupsReturn`: `StepsAhead`, the two requests and the return, becomes less
with every step of the lookup and with no step of another.

`RateLimiterProofs` (a dropped bucket would have been full:
`Idle * PerMinute >= Burst * Minute`, true of 30 minutes and a burst of one
minute's requests; it makes the sweep a stutter in `LimiterPromiseHolds`).
`Budget`: what a client has let through, plus what it has
left, is at most the capacity and the refill of its window; `Saved`: a client
has at least the refill since it was last served, up to the capacity. The products are kept
behind `Yield` and `Cost`, whose few arithmetic facts are lemmas.

`ServerProofs` (TTL and MaxTime are naturals, "nobody" is no request).
`KeyTellsOptions` and `OptionsTellKey`: keys and options tell requests apart
equally well. `Admitted`: what passes the chain is authorised. `Stages` says
which requests have contexts, answers and results; `Entered`, that an entry is
the result of a request with its key, stored TTL before its expiry;
`Remembered`, that a stored result is in the cache, or replaced by a later one,
until it expires. `CachePromise` maps each step of the server to a step of
`CacheAbs` or a stutter: a sweep changes nothing that was to be had.
`AnswersAreFinalHolds` is the safety half of `WorkIsAnswered`: a request under
work waits for its own work and context only, and its answer is its own and stays.

`PipelineProofs` (finitely many hosts, "seed" is no source). `OneAtATime`: a
handler that is under way is that of the last submit, and the button is
disabled; `Shown`: the table as a function of how far it has come; `Reporting`
and `Recorded`: the report holds what the sources contributed, the records
what the report has. That a table without two rows for a host has as many rows
as hosts, and what a truncated host list is, are lemmas on cardinality. `FormConvergesHolds`
is the safety half of `FormComesBack`: the button is disabled only while the
last submit's handler waits for a fetch, and the second to end gives it back.

Only model-checked: the liveness properties, as the prover does not reason about
ENABLED: `DiscoverReturns`, `BruteEnds`, `EnrichEnds`, `FormComesBack`,
`LookupsReturn` and `WorkIsAnswered`. The part of each that is safety is proved
as said.

## 7. Not modelled

- Parsing: the JSON of the upstreams, DNS messages, word-list files, flags,
  host names. A response is the set of names or strings it yields.
- The transports of `dnsx`: DoH and UDP are an answer, none, or a failure.
- `output`: pure formatting of a finished report, and the HTML of `render`.
- Log lines, durations and detail texts; the headers that carry the key or that
  CORS adds; the copy `Get` makes in order to set `Cached`.
- Time, except in `ResultCache`/`Server` and `RateLimiter`: elsewhere deadlines
  are events that can come at any moment. So the 15 seconds between the
  scan's timeout and the server's write timeout are not measured.
- Memory and goroutine scheduling below the level of the Go statements: shared
  data is only touched under a mutex or before a join.
