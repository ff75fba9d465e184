# A TLA+ model of openrate

openrate serves currency rates from a graph of quotes. It fetches quotes from
providers on a schedule, keeps them per source, computes an all-pairs snapshot
and answers from it in process, over HTTP and through a C ABI. This directory
models the parts of it that are hard to test: what happens when several
goroutines or host threads use them at once, when providers fail, when limits
are reached. TLC checks the models on small instances, and TLAPS proves the
central properties for every value of the constants.

`PROJECT.json` lists components, runs, the mutants each property must catch,
the source lines behind each definition, the hazards and the theorems.

## 1. The system

| Component | Source | State | Operations |
|---|---|---|---|
| Engine | `engine.go` | the current snapshot (under `e.mu`), the `ready` channel | `Load`, `Snapshot`, `Convert`, `Rates` |
| Refresher | `refresh.go` | edge graph and status table (under `r.mu`) | `Refresh`, `Run`, `Ready`, `Status` |
| Graph | `fx/graph.go` | edges per source | `Replace`, `Materialize`; on a snapshot `Lookup`, `Has`, `Rebase`, `DirectQuotes` |
| Quality, Describe | `fx/quality.go`, `fx/conversion.go` | none | grade a pair, describe a conversion |
| Rate limiter | `serve/ratelimit` | capped map of token buckets, overflow bucket (under `l.mu`), gc goroutine | `Allow`, `Middleware`, `Stop`, `ClientIP` |
| HTTP API | `serve` | the limiter, created once | `Handler`, `Close`, the handlers |
| Clients' identity | `serve/ratelimit` (`parseProxies`, `ClientIP`, `bucketKey`) | the trusted networks | whose bucket a request is charged to |
| Interest rates | `serve/interest`, `internal/ratestore`, `internal/rates`, `internal/ratequality` | book of observations, snapshot (under one lock) | a refresh loop like Refresher's, read-only handlers |
| C ABI | `ffi/abi` (and the cgo shim over it) | handle registry; per engine a child list; per refresher a loop, the calls in flight, `closed` | `New`, `NewRefresher`, `Call`, `Close` |
| One-call server | `openrate.go`, `cmd/openrate` | the loops, the server, the limiter's sweeper, `Close`'s progress | `Start`, `Close` |
| Adapters | `fxsource`, `internal/ratesources`, `internal/safedial`, `internal/redact` | none beyond a fetch: requests made, time spent | choose sources, fetch and parse, retry, dial policy, redaction |
| SDKs | `sdks/*` | a child process or a loaded library | bindings, sidecar supervision (start, live, ready, close) |

How they interact. A Refresher's fetch goroutines send results over a channel
to the goroutine that called `Refresh`, which applies each to the graph and
status under `r.mu`, materializes a snapshot, releases `r.mu` and loads the
snapshot into the Engine under `e.mu`. `Ready` waits on a channel that the
first non-empty `Load` closes. The HTTP handlers and the ABI methods read one
snapshot. The ABI wraps both types in handle objects; a host calls it from any
threads, and close must leave nothing running behind. `Start` launches the
loops, the limiter and the server as goroutines, and `Local.Close` ends them in
turn; a program that does not embed openrate runs `cmd/openrate` as a child and
supervises it over HTTP and signals.

What is hard: snapshots loaded out of order; failures of some sources only;
two sources with one name; readiness against having rates; loops, calls and
closes of one handle racing each other; an eviction that must not become a
refund; a clock read too early; products of rates beyond the representable
band; the order Go leaves to chance (map iteration, unstable sort, select).
Each of these is a `hazards` entry at the line where it bites.

What makes the components correct:

* Engine and Refresher: what was fetched is what is served; failures lose
  nothing; status and graph agree; readiness means what it says; a loop heals
  and stops.
* Graph: a pair is explained by its legs; direct and fresh beats indirect;
  shortest otherwise; nothing reachable is left out but for the band; a pair and
  its reverse agree.
* Limiter: the bound on memory never turns into free allowance.
* ABI: nothing outlives its handle, no handle is out of reach, close returns.
* One-call server and sidecar: a Close that reports success left nothing at work
  and no child; every Start and Close returns, whatever a source or client does.
* Adapters: a fetch returns, in the end, what the document said, the right way
  round, or an error that shows no key, and dials no address it should not.
* HTTP, ABI, library: one conversion, told the same way; one answer is of one
  snapshot; a grade is earned by the provenance shown beside it.
* Clients: no header a sender writes changes whose bucket is charged.

## 2. The modules

### Refresher

`Refresher` models the Engine and the Refresher together. A provider publishes
a *table* (a list of edges; table 0 has no usable edge) and may be down. One
action stands for the code between two points where another goroutine can get
in:

| Action | Code |
|---|---|
| `Start` | `Refresh` spawns one fetch per configured source |
| `FetchEnd` | a fetch goroutine sends its result, an error when the provider is down or the ctx is done |
| `Apply` | the loop takes one result: `Replace` or `LastError`, status, `Materialize`, all under `r.mu` |
| `Install`, `Latch` | `Engine.Load`: the snapshot under `e.mu`, then `readyOnce` |
| `Return` | all results taken: nil if one succeeded |
| `Cancel`, `Stop` | the ctx of a `Run` ends; its select takes `ctx.Done()` |
| `HostLoad` | a host loads a snapshot of its own |
| `Publish`, `Toggle` | the environment: a provider's list changes, it fails or recovers |

`Slots` are the positions of the source list and `Name` gives each its name, so
two sources may share one. Any number of callers overlap. Not modelled: the
contents of a table (see FxGraph), the interval and timeout durations (a fetch
may end, and a tick come, at any time), logging, redaction. `setup` says, once
and for all, which of the positions are configured, what their providers may
publish and which goroutines use the Refresher; one run checks several of them,
and `Alone` is the case of a single goroutine.

### FxGraph

`FxGraph` is `Graph.Materialize` step by step, one breadth-first search per
currency in sorted order. A rate is its logarithm as an integer: products are
sums, inverses negations, the band `[1e-18, 1e18]` becomes `-Band..Band`; the
code relies on exactly that symmetry ("closed under reciprocal"). Rounding of
`float64` is not modelled. The edges map has no order and `sort.Slice` is not
stable, so of a node's remaining edges any freshest one may come next. The
three cases of the inner loop are `AlreadyReached`, `OutOfBand` and `Reach`. The
currencies are finitely many: the quotes come from finite lists.

### TokenBuckets and Limiter

`TokenBuckets` is what the limiter promises: one bucket per client for ever,
and one shared bucket that may be charged for a client that has its full
allowance. `Limiter` is what it does: a map capped at `MaxBuckets`, lazy
refill, eviction of a full bucket out of a sample (any subset of the map of the
sample's size: Go's map order), the overflow bucket, and the sweep in two steps
(`GcTick` reads the clock before `Sweep` has the lock). Time is in seconds,
tokens in units of which a request costs `Cost` and a second brings `Rate`, so
rates below one token a second are exact. The refinement maps a client without
a bucket to a full level. Three histories say what was answered: `spent`, what a
client was granted from buckets of its own, `lent`, what all of them together
were granted from the overflow bucket, and `answer`, what each was last told, and
when. `Stop` and the end of the sweeper are in Local.

`WithinBudget` bounds both: own buckets by a burst and the refill, the overflow
bucket by one more for everybody together. So a client may have twice its
allowance, and *n* clients *n* + 1 times between them; that is what the cap on
memory costs. `RetryAfterSuffices` is about every refused client, whichever bucket
refused it; the one it says nothing for is a client that can get no bucket of its
own while others have been at the overflow bucket in those last seconds, since
nothing is reserved there for who waits.

### Clients

Who a client is. A request travels: somebody untrusted sends it with any lines
in `X-Forwarded-For` (`Send`), trusted proxies add whom they were called by, to
the last line or as a line of their own (`Forward`), and `Charge` is the
middleware: `ClientIP`'s walk from the right, then `BucketKey`. An address has
a network half and a host half (so that a /64 and a /32 differ), may be an IPv4
address in IPv6 spelling, and may carry a zone, which `net.ParseIP` refuses and
`netip.ParseAddr` takes; an entry may be blank or junk. Port stripping and
`JoinHostPort` are left out. `ClientsAssumption` types the peers and the lines
that may be sent.

### RateBook and RateStore

`RateBook` is `Book.Materialize`: which observations are admitted, each source's
newest one, the headline, and the history with one point a day. The newest
observation and the day's point are chosen by two loops of the code and so by
two operators here (`Newest`, `Kept`). The headline is the result of walking the
sources in some order (`Headline`); Go fixes none, so `Materialize` answers with
every snapshot some order gives. A level is an integer, NaN and infinity are one
beyond the band, dates are instants with `DayLength` to a day. The sources are
finitely many and their ranks those of the code's table, 0 to 4.

`RateStore` is the loop around it. It has Refresher's shape (`Begin`, `FetchEnd`,
`Apply`, `Return`, `Stop`) with one goroutine, and `Apply` installs the snapshot
in the critical section that changes the book: the design that has no
`refresher_lost_update`.

### RateQuality and InterestApi

`RateQuality` is `internal/ratequality.Assess` on integers: levels in basis
points, factors in hundredths. `InterestApi` is every handler of
`serve/interest` as an operator over a snapshot and a reading of the clock;
since a handler takes each once, its answers are checked in every state of
`RateStore` rather than by steps of their own. Filters and names are members of
small sets.

### Quality and Serving

`Quality` is `fx.Assess`: bands of freshness and directness, the weakest source,
corroboration by distinct source (the last quote of each counts), caveats, and
the published rounding, which is what is graded. Factors are integers over a
common denominator, so the bands' edges are exact; in the code they are products
of `float64`.

`Serving` is one Engine read over HTTP, over the ABI and as a library, while a
Refresher with several sources replaces its snapshot. A handler reads the clock,
the snapshot and the statuses one by one, in the code's order (`Plan`: `convert`
reads the clock before the snapshot, `rates` after it), and a refresh may land
between any two (`Apply`, `Load`, `TimePasses`); a table of rates is described
row by row (`DescribeOne`). `Describe` has its four refusals, and `HttpConvert`,
`AbiConvert` and `EngineConvert` what each surface does before and after it.
The search behind a snapshot is a parameter (`Materialize`; `BookOf` in the
instance: direct or one cross), because FxGraph has it. What Serving takes for
granted of it is named: `MaterializeAssumption` says that the snapshot of what
the Refresher may hold (`Holdings`) is an `IsSnapshot`: it carries the time it
was built at; a pair joins two of its currencies, has a hop at least, is none
younger than the snapshot and comes from sources that have quotes; a snapshot
with currencies has a pair; and direct quotes are within the admissible band.
FxGraph keeps those promises (`SnapshotsAreServable`, section 4).

### Adapters and Fetch

`Adapters` is what each of the thirteen FX and three interest-rate adapters
makes of a document: which rows it takes, which way round a rate goes, which
date it carries, and the registries (`Build`, `FromEnvSpec`, the interest
`Build`, all three over `Resolve`, the loop that skips unknown and repeated
names). A rate is its logarithm; `NaN` is a number `ParseFloat` takes and
`rate <= 0` lets through.

`Fetch` is one fetch: the budget it gets (the ABI's milliseconds wrap and clamp
over a word of a few bits, which keeps every boundary), one request after
another (retries, mirrors, a request per symbol), the dialer's decision on each
address, the body in one read or (bis) row by row, a failure at any moment, and
the two timeouts that bound it (the client's and the ctx). `Redacted` is what of
an error reaches the status. Time is in units of five seconds. What providers
publish is a parameter. `Truthful` says, source by source and in the terms of its
format, when a document is right: what it states as a price is the price, in the
format's own direction, or a value no adapter should use (zero, NaN), and its date
is the day or none. `DocumentsAssumption` is that documents are truthful; that the
edges made of them are, is the adapters' doing and what is proved.

### Local

`Start`, what it launches, and `Close`, which any number of host goroutines may
call, and again; a `Start` whose server never answers calls it too. One action
per stage of `Close` (`Cancel`, `StopCheck`, `StopClose`, `Shutdown`, `Drained`,
`AwaitServe`, `AwaitLoops`): between two of them another caller, a loop, the
server or a request may step. A fetch may ignore its ctx (`wedged`), a client
read for ever (`stuck`). `net/http`'s server is used by its contract.

### Sidecar

The supervising program against its child and the port: the port is chosen by
binding and releasing it, so a stranger may get it; the child boots, listens,
gets rates, crashes, ignores a signal; what exits stays a zombie until it is
reaped. `cmd/openrate`'s `main` is the child.

### Boundary

The composition for checking: a state of Local, Sidecar, Fetch, Clients and
Serving together. The five share no state in the code, so a product of them
would add states and no behaviour; each behaviour of `Boundary` uses one of them
while the others are at rest. What they do share (the Refresher's loop, the
limiter's map, the graph's search) is modelled in the module of that part.

### Abi

`Abi` has the registry (`registry`, `next`), one record per handle's object
(`obj`, which survives its close as the Go object does), the loops running and
cancelled (`loops`, `ended`), and per host thread where it is and what it holds
(`th`, `cut`). Each critical section is one action, and so is each step after
an unlock: cancel, wait, close the channel. `drained` goes nil, made, taken
(the last `leave` took it out of the object), closed. Errors that change
nothing (a stale handle, a wrong kind) are left out. An engine's list of children
is a set: a closing engine takes them in any order, which includes the code's. `New` reserves and
installs in one action: nobody knows the handle in between. The declared lock order (engine, then refresher, then registry) is
respected by construction of the actions: only `Adopt` holds two locks at once,
and no action waits while it holds one, so a cycle of lock waits cannot arise
from the code this models. `convert`, `rates` and `meta` are in Serving, the
millisecond conversions in Fetch.

## 3. What the runs check

| Run | Instance | Shows |
|---|---|---|
| `refresher` | three setups: a `Run` alone over three positions of which two share a name, tables 0 and 1; a `Run`, a one-shot caller and a host that loads empty or not, 1 source that always has rates; a `Run` and a one-shot caller, 1 source, tables 0 and 1. Every provider may change, fail, recover at any time | `Refresh`'s promise holds for whoever is alone, and a failing source stays; for all of them, status agrees with the graph, nil means ready, the loop repairs what was overwritten, and stops |
| `refresher_lost_update` | 2 callers, 2 sources | violation: see findings |
| `refresher_ready_but_empty` | 2 callers, 2 sources that may answer with nothing usable | violation: see findings |
| `limiter` | 3 clients, 2 buckets, sample 1, cost 3, rate 2, burst 6 (two tokens), sweep after 1 s idle, seconds 0 to 3 | the map is capped, grants stay within the allowance of the buckets that make them, Retry-After suffices, and the limiter refines `TokenBuckets` |
| `abi` | 3 threads, 2 handles, 2 loops | every race of calls, stops and closes of an engine and its refresher; close and stop return |
| `abi_close_leaves_loop` | 2 threads | violation: see findings |
| `fxgraph` | every graph of at most 6 out of 13 quotes, 5 currencies, band 2 | the properties of section 1 for each row of each graph |
| `rates` | 3 sources (two of one rank and one above), two series, two lists each for two sources with several observations for a day and for an instant and levels beyond the band; two sources may fail | every snapshot of the interest-rate store has the best headline, a history that ends at it, and no quote lost to a failure; on each, the interest endpoints agree and no grade is better than its provenance |
| `fxgraph_stale_route` | at most 4 quotes | violation: see findings |
| `boundary` | each part of Boundary: 2 closers and 1 request; a child and a stranger; every source with good and bad documents, durations on both sides of every boundary, public and private addresses; 9 addresses, 6 headers, 3 proxy lists, 2 proxies; 3 sources with two lists each, 2 results, 3 instants | what Close and a supervisor leave behind, what a fetch returns, who is charged, whether the surfaces tell one story of one moment, and that all of it ends |
| `bis_never_returns` | the fetches of bis | violation: see findings |
| `grade_a_as_documented` | the sources and quotes of `boundary`, a library caller | violation: see findings |

Why the bounds are enough. Two sources are what it takes for one to fail while
another succeeds, and to share a name; two callers and a host are what it takes
to load in the wrong order. The limiter's hazards need a client more than there
are buckets, and enough seconds to drain, refill and come back. The ABI races
are between a call, a stop and a close of one object (three threads), and a
close of its engine; a second refresher over the engine adds no object that
the first one's close touches, except the list they share (three handles with
two threads also hold, about 200,000 states). `LoopIds` bounds the loops of one
refresher that exist at once; a `start` that would need a third waits. The pool
of quotes has routes of one to three hops between the same currencies, parallel
quotes, ties with different rates, a quote dated after `Now`, products beyond
the band on some routes and not on others, and an inadmissible quote.
In `boundary`, two closers are what it takes for one to close between the
other's check and close; a second request adds nothing to one that may be stuck.
Two results of fetches let a refresh land between any two reads of a request;
the instants are zero, inside the first band of ages, and past a day. Three
sources (official, exchange, without a rank) quote one pair up to 200 basis
points apart, quote it in both directions, and make crosses through the naira
and the kuna. The word of the millisecond conversions is small, and the
durations lie on both sides of zero, of the largest and of its multiples. Two
proxies are what it takes for the outer one's entry to be followed by another.
`MaxHops`, `MaxResults`, `MaxNow` and `MaxHandle` bound the clock and the handles of the runs only; the
theorems hold for every value.

`CHECK_DEADLOCK FALSE` stands where the program may stop: `Materialize` returns
(`fxgraph*`), a fetch, an answer, a supervising program has come to its end
(`boundary`, `bis_never_returns`, `grade_a_as_documented`), and all host threads may sit in a `ready` without a timeout that
nobody cancels (`abi*`), which the code allows ("it will simply wait").

### Fairness

Refresher: a goroutine that can run does (`WF` on `GoesOn`: `Apply`, `Return`,
`Install`, `Latch`); a fetch ends within its timeout (`WF FetchEnd`); the
ticker of a `Run` ticks (`WF Start`); Go's select picks at random among ready
cases, so a done ctx is not passed over for ever (`SF Stop`). Ordinary callers
are never obliged to call again, and providers never to recover:
`RunConverges` asks only about one that has settled.
Abi: a thread inside the library goes on when it can, a cancelled loop comes
to its select. A `ready` without timeout is not assumed to end, which is why
close must cancel it.
Local, Sidecar and Fetch: a goroutine or program that can go on does, and a
timer fires (`Late`, `LiveTimeout`, `CloseLate`, `Break` after a timeout). A
loop of Local, a wedged fetch, a slow client, a child and the network are obliged to
nothing; a child that is killed dies. `EveryCallReturns` holds all the same, by the bounds
the code puts on each wait.
RateStore, FxGraph, Clients and Serving are checked for safety only; that a collecting loop heals
and stops is what the refresher runs show.

### Findings

Six statements of the repository that the code does not keep; each has a run.

1. `refresh.go:120` "when it returns, the Engine holds everything this refresh
   could get". The snapshot is loaded after `r.mu` is released (`refresh.go:182`),
   so two overlapping refreshes can load in the opposite order. Shown by
   `refresher_lost_update`; `AloneEngineHoldsWhatRefreshGot` proves it for a
   single caller.
2. `refresh.go:219` "Ready blocks until the Engine holds a snapshot with at
   least one currency in it". It waits for the first such snapshot; a later
   empty one leaves it open. Shown by `refresher_ready_but_empty`.
3. `ffi/include/openrate.h:234` "when it returns, any background loop on the
   handle has been cancelled AND has exited". `stopLoop` takes the loop out of
   the object before it has ended, and a close that comes in between finds none.
   Shown by `abi_close_leaves_loop`. No other loop can outlive a close: it is one
   whose stop has not returned (`NoLoopIsLost`). What the header draws from its
   promise, that a host which closes everything *and has no call under way* may
   unload the library, holds (`UnloadIsSafe`).
4. `fx/graph.go:192` "exactly the prefer direct, else shortest path, else
   freshest rule". Among equally short routes the freshest first leg wins, not
   the freshest route. Shown by `fxgraph_stale_route`.
5. `internal/ratesources/bis.go:93` "Skip a malformed row rather than abandoning
   the whole feed." An error of the body (a timeout, a broken connection) is not
   `io.EOF` and comes back from every further `Read`, so the loop never ends,
   past the client's "hard overall timeout" (`httpclient.go:33`) and the fetch's
   ctx. The store waits for every source: it refreshes nothing more, and
   `Local.Close` reports a loop that did not stop. Shown by `bis_never_returns`;
   for the other sources `FetchReturns` holds.
6. `ACCURACY.md:104` "Reaching A needs at least two independent sources quoting
   that exact pair and agreeing within 25 bps". A pair that nobody quotes has the
   factor 1.0 for corroboration (`quality.go:174`), so a cross of two official
   legs under five minutes old has 0.90 and an A with no quote at all; and quotes
   25 to 100 bps apart have 0.93, so a direct official rate of that age is an A
   too. Shown by `grade_a_as_documented`. What an A does mean is
   `GradeAIsEarned`.

Without a run of their own, because a passing property has to exclude them or
because they end the process before anything can be said of it:

* Two calls of `Limiter.Stop` that overlap may both find `done` open
  (`ratelimit.go:128-134`), and the second `close` panics; `Server.Close` and
  `Local.Close` lead there from any two host goroutines. The model has the panic
  (`panicked` in Local); `RepeatedCloseIsSafe` says that it takes an overlap.
* Over HTTP a code nobody knows is a 404. The ABI and the library convert it to
  itself, at rate 1 and from no source (`fx/graph.go:83-88`), though
  `openrate.h:179` calls the ABI's answers identical to the HTTP API's.
  `SurfacesAgree` excludes exactly that case.
* `-interest-refresh` is passed on unchecked (`cmd/openrate/main.go:50`, `:84`)
  and `ratestore` gives it to `time.NewTicker` after its first refresh: zero or
  less ends the server with a panic. `-refresh` has a default for that case
  (`refresh.go:82-85`).
* A `start` that comes while a `stop` waits for its loop starts a second one, so
  for that time two tickers feed one engine, which "is never what anybody meant"
  (`ffi/abi/refresher.go:344`). `EveryLoopHasAnOwner` does not exclude it; it says
  that at most one of them goes on.
* A `Handler` and a `Close` of `serve.Server` that nothing orders race on
  `s.limiter` (`serve.go:143`); Local builds the handler first, as both callers in
  the repository do.

Smaller observations, each visible in a definition:

* Adding a source does not always raise a grade (`ACCURACY.md:119`): a fresh
  official cross that nobody quotes has 0.90, and the first direct quote of that
  pair makes it 0.88; and an unknown source (0.80) ranks above an unofficial one
  (0.70).
* `convert` reads the clock before the snapshot, so a refresh in between makes a
  negative age, which is in the first band. `rates` reads them the other way
  round (`OneMomentPerAnswer` states the ages of a table).
* `Engine.Convert` gives "" no default, unlike `Engine.Rates` and both wire
  surfaces.
* Three attempts of a slow SARB host take three client timeouts of twenty
  seconds, not three dials of thirteen (`sarb.go:42`): the refresh's budget may
  run out first, and the fetch then ends with the attempt it is in.
* `frankfurter`, `erapi` and `oxr` check the quoted codes but not the base.
* `waitLive` looks at a `ProcessState` that only `Wait` would set: a child that
  exits at once is polled until the deadline (`LiveTimeout`).
* A `Start` that fails drops the error of the `Close` it calls, and an error of
  `Shutdown` hides that of the loops.
* An `X-Forwarded-For` entry with a zone or a port ends the walk and charges the
  innermost trusted proxy.

## 4. What is proved

The theorems hold for all constants that satisfy the modules' named
assumptions. `RefresherProofs`:

* `TypeCorrect`, `StatusAgreesWithGraph`, `OkMakesReady` for any sources,
  tables, callers and hosts. `TypeOK` is inductive. `StatusMatchesGraph` is
  inductive given types, since one critical section writes both. `OkMeansReady`
  is not: between `Apply` and `Latch` the call has a success and the engine is
  not ready. The strengthening (`OkInv`) says that a caller with a success has
  latched, or holds a non-empty snapshot on its way to latching.
* `AloneEngineHoldsWhatRefreshGot` and `AloneNoSourceIsLost`, which say
  something of the setups in which one goroutine uses the Refresher (`Alone`): the
  sequential invariant says that the engine holds the materialized graph, or the
  one caller is carrying it there.

`LimiterProofs`:

* `LimiterTypeCorrect` (with `ClocksBehind`: no reading is ahead of the clock),
  `MapStaysCapped`, `AllowanceIsBounded`, and
  `LimiterImplementsUnboundedBuckets`: every step of the limiter is a step of
  `TokenBuckets` or leaves level and shared as they were. The heart is that a
  bucket full at the sweep's earlier reading is full now, so removing it changes
  no level; it needs `ClocksBehind`.

* `AllowanceIsBounded` is inductive once the levels are related to `spent` and
  `lent` (`WithinBudget` itself): a grant moves units from a level to a history,
  a second adds `Rate` to both sides, and an eviction or a sweep takes away only
  buckets that are full, which leaves every level as it was.
* `WaitingIsEnough`: the wait of a refused client is a rounded-down quotient and
  one, and a lemma on `\div` says that this brings a token, for any rate, cost
  and burst. It needs to know that a bucket was last used when its client was
  last answered (`Dated`).

`AbiSteps` and `AbiProofs` (any numbers of threads, handles and loops; the
effect of each action in the first, the invariant in the second):

* `AbiInvariant`. None of the header's promises is inductive: a close is half a
  dozen steps and a call may be anywhere. `AbiInv` adds what each line of a
  thread knows: which kind of object its handle is (`Roles`), what an object of
  each kind holds (`Objects`), that a loop a thread is about to cancel runs and is
  known to nobody else (`LoopsHeld`), that the calls in flight on an object are the
  threads at work on it (`CallsInFlight`), and what a close has done by each of its
  stages (`Closes`). From it
  `EveryRefresherIsReachable`, `NoCallOutlivesItsClose`,
  `ClosedRefreshersDropOut` and `UnloadingIsSafe`, with `AbiTypes`.
* `NoLoopIsLost` says besides which loop may outlive a close that has returned:
  one that a stop has taken out and still waits for, and none that the close itself
  took. That needs a second invariant (`ClosedOnce`): a refresher is closed by one
  thread at a time, the one that took its handle, and by none once it is retired.

`FxGraphProofs` (any finite set of currencies, any quotes, any band):

* `GraphInvariant`. A row under way is explained by its legs, its direct quotes
  are freshest, and a quote that leads out of it starts in the queue, is still to
  be considered, or was out of the band; a row that is over has only the last.
  From it `LegsExplainEveryPair`, `DirectQuotesWin`, `OnlyTheBandLeavesOut` and
  `PairsReverse`.
* `ShortestPaths` needs the order of the search besides (`BreadthInv`): the queue
  is in the order of hops, at most one apart, and while nothing has been skipped a
  pair's hops name the first ring its currency is in.
* `SnapshotsAreServable` states in FxGraph's terms what Serving assumes of a
  snapshot, and follows from `GraphInv`.

`InterestProofs` (any finite set of sources and series, any lists):

* `StoreInvariant`: the snapshot is always one of the book as it stands, since
  one critical section writes both. `HeadlineIsTheBest` and
  `HistoryAndHeadlineAgree` are then facts about `Materialize`, in whatever order
  it walks the sources: that the three loops of the code choose one observation.
  `QuotesSurviveFailures` is an action property. `AnswersAreEarned` bounds the
  product of the four factors of a grade.

`ServingProofs`, of Serving's own steps, and `BoundaryProofs`:

* `AnswersAreOfOneMoment`. What a request has read is related to a Refresher that
  has moved on: `ServingInv` says that every snapshot on its way, loaded or read
  has been attested (each of its sources has been heard from, and lists a rate
  or was heard from since the snapshot was built), that this stays true as the
  statuses change, that the clock a table is aged by was read after the snapshot
  it is a table of, and that the rows made so far are those of one snapshot.
* `SurfacesTellOneStory`, for any codes, any amount and any snapshot whose pairs
  are among its currencies.
* `AnAIsEarned`: each of the six factors of a grade is bounded by its band, and
  the products of the bounds are compared with 0.895; the quotes that count are
  the last of each source. It needs from the snapshot only `IsSnapshot`, and
  holds for any authority of the sources, 0 to 4, and any caveats.
* `SendersPayForThemselves`: a request under way comes from its sender, or from a
  trusted proxy with lines over which the walk from the right comes to the sender
  (`Underway`); each proxy keeps that in whichever way it adds its caller.
* `NothingIsLeftBehind`, for any number of goroutines that close and of requests:
  a nil from `Close` is not inductive, so `CloseInv` says for each stage of
  `Close` what lies behind it (the limiter stopped, the listener shut, the
  requests drained unless Shutdown ran late, `Serve` returned), and that none of
  it can be undone: after the listener is shut nothing arrives, and no loop is
  launched once `Start` has left its first step. For the supervisor `SidecarInv`
  ties where it is to whether there can be a child.
* `SequentialClosesAreSafe`: until two calls of `Close` overlap, one caller at
  most is inside it, and one about to close the limiter's channel found it open.
  `LocalAssumption` (the goroutine in `Start` is none of the closers) is the one
  assumption.
* `ReadyChildHasRates`, under the same condition as the property: no stranger
  has held the port.
* `FetchesTellTheTruth`, in three parts. One lemma for each of the sixteen adapters:
  what it makes of truthful documents is the market's (the direction of the rate,
  the date, the fiat-only and the inverse rows are where they differ), gathered in
  `ParsedTrue`. `ResolvedAre` for the registries: the loop returns the named and
  known, each once, so that the sources are those asked for (`SourcesAre`).
  `BudgetIs` for the two conversions of milliseconds: the product wraps for no value
  the ABI lets through, and a clamped one is the largest. `FetchInv` then ties
  the fetch together, with a lemma for each action: at every point the documents
  read so far, and the one being read, are truthful, a private address it has
  reached was not dialled by an unguarded name, and what it has returned is as the
  property says (an error passes through `Redacted` on the way).
* Each is a theorem of `Boundary`'s specification: every step of it is a step of
  the part (Local, Sidecar, Fetch, Clients, Serving) or leaves that part alone,
  and it starts as the part does or at rest.

What the theorems assume of the constants is in the modules' named assumptions,
which TLC evaluates on the instances. Beyond types they are: finitely many
currencies, sources and quotes in a list; ranks from 0 to 4, as in both tables
of the code; that numbers which parse are none of the three spellings that do
not; that documents are truthful (`DocumentsAssumption`), the two names of
bitcoin have one price, and the sources' lists are finite (`FetchAssumption`);
and `MaterializeAssumption`. The last is not instantiated formally, because
Serving's rates are positive integers and FxGraph's logarithms. Clause by clause it is
`SnapshotsAreServable`: a pair's currencies, hops, age and sources, and that a
snapshot with currencies has a pair, where some quote is not from a currency to
itself; that direct quotes are within the band is `Admitted`, part of
`GraphInvariant`.

Definitions by recursion (`Product`, `Ball`, `Resolve`, RateBook's `Admitted` and
`Headline`, `FlattenSeq` over the header's lines) are recursive functions. That one exists,
and what holds of all its values, is proved by the least counterexample: a set
of natural numbers that is not empty has a least element (`Least`, from the
library's well-founded minimum), where the library's induction theorems would
need an operator for a parameter.

Only model-checked:

* the liveness properties (`RunConverges`, `RunStops`, `CloseAndStopReturn`,
  `EveryCallReturns`), which are out of the prover's reach: every invariant and
  action property that a passing run checks is a theorem;
* the violations of section 3, each a trace that TLC shows.

## 5. Not modelled, and what is left

Not modelled, with the reason:

* the cgo shim and `openrate.h`: strings and panic recovery around `ffi/abi`, no
  state of its own; the header's promises are what Abi's properties quote;
* version and header checks, generators, the console and the site: build-time or
  assets;
* the SDKs other than the Go sidecar: bindings with the ABI's behaviour in
  another language, and supervisors that follow the Go one;
* flags and `.env` of `cmd/openrate`, HTTP headers and CORS, JSON and XML
  decoding, text redaction beyond which parameter is masked, logging;
* the rounding of `float64`: products and factors are exact here.

Left: an instance of `MaterializeAssumption` over FxGraph with one scale of
rates, instead of the theorem beside it.
