------------------------------- MODULE Serving -------------------------------
(***************************************************************************)
(* What a client is told about a rate: one Engine, read over HTTP (serve), *)
(* over the C ABI (ffi/abi) and as a library, while a Refresher replaces   *)
(* its snapshot.  A reading reads the snapshot, the clock and the fetch    *)
(* statuses one after the other, and a refresh may land between any two;   *)
(* the answer is then computed from what was read.                         *)
(*                                                                         *)
(* A rate is a positive integer, the same for a pair and for its reverse:  *)
(* the spread of some quotes is that of their inverses, and no answer      *)
(* relates a rate to its inverse.  FxGraph has the search behind           *)
(* Materialize; here it is a parameter.                                    *)
(***************************************************************************)
EXTENDS Quality

CONSTANTS
    Source,             \* the sources of the Refresher
    Feed,               \* Feed[s]: the lists of quotes s may answer with
    Materialize(_, _),  \* the snapshot of some edges, built at an instant
    Codes,              \* the codes a client may name, "" for none
    Bases,              \* those it asks a table of rates for
    DefaultBase,
    Number,             \* the amounts that parse, and their values
    Infinite,           \* the value among them that is not finite
    Largest,            \* the largest number float64 holds
    Instants,           \* the readings of the clock, which never goes back
    MaxResults,         \* how many results of fetches there are
    Asked               \* the requests, each [surface, method]

Never == -100000        \* the zero time

ASSUME ServingAssumption ==
    /\ Instants \subseteq Nat /\ 0 \in Instants /\ MaxResults \in Nat
    /\ DefaultBase # ""
    /\ Infinite \in Nat /\ Largest \in Nat
    /\ \A raw \in DOMAIN Number : raw \notin {"", "junk", "1e999"} /\ Number[raw] \in Nat
    /\ \A s \in Source : \A quotes \in Feed[s] :
         IsFiniteSet(quotes) /\ \A q \in quotes : q.lag \in Int
    /\ \A q \in Asked : /\ q.surface \in {"http", "abi", "library"}
                        /\ q.method \in {"convert", "rates", "meta"}

\* The edges of source s when it answers with these quotes at t.
Edges(s, quotes, t) ==
    {[from |-> q.from, to |-> q.to, rate |-> q.rate, source |-> s, time |-> t - q.lag]
       : q \in quotes}

\* What the Refresher may hold of s.
Held(s) == {{}} \cup {Edges(s, quotes, t) : quotes \in Feed[s], t \in Instants}

Holdings == {g \in [Source -> UNION {Held(s) : s \in Source}] : \A s \in Source : g[s] \in Held(s)}

\* A snapshot of currencies, the pairs among them and their direct quotes: a pair has
\* a hop at least and its sources are some of the graph's; quotes are admitted ones.
IsSnapshot(book, sources) ==
    /\ book = [built |-> book.built, currencies |-> book.currencies,
               pair |-> book.pair, direct |-> book.direct]
    /\ book.built \in Instants
    /\ \A p \in DOMAIN book.pair :
         /\ \E a, b \in book.currencies : a # b /\ p = <<a, b>>
         /\ book.pair[p].hops \in Nat \ {0} /\ book.pair[p].rate \in Nat \ {0}
         /\ book.pair[p].asOf \in Int /\ book.pair[p].asOf <= book.built
         /\ book.pair[p].sources \subseteq sources
    /\ book.currencies # {} => DOMAIN book.pair # {}
    /\ \A p \in DOMAIN book.direct :
         /\ Len(book.direct[p]) \in Nat /\ DOMAIN book.direct[p] = 1..Len(book.direct[p])
         /\ \A i \in DOMAIN book.direct[p] :
              Usable(book.direct[p][i].rate) /\ book.direct[p][i].rate \in Nat

\* What is assumed of the search of FxGraph (there: SnapshotsAreServable, Admitted).
ASSUME MaterializeAssumption ==
    \A g \in Holdings, t \in Instants :
      LET book == Materialize(UNION {g[s] : s \in Source}, t) IN
      book.built = t /\ IsSnapshot(book, {s \in Source : g[s] # {}})

VARIABLES
    clock,
    graph,      \* Refresher.g: the edges of each source
    status,     \* Refresher.status
    pending,    \* the snapshot about to be loaded, after r.mu.Unlock
    engine,     \* Engine.snap
    results,    \* how many fetches have ended
    reading     \* the request: what it has read and what it has still to read

servingVars == <<clock, graph, status, pending, engine, results, reading>>

None == [built |-> Never]

(***************************************************************************)
(* fx.Describe, and the answers made of it.                                *)
(***************************************************************************)
Has(book, c) == c \in book.currencies

\* The identity answers for any code, known or not.
Identity(book) == [rate |-> 1, hops |-> 0, asOf |-> book.built, legs |-> <<>>, sources |-> {}]

Reachable(book, a, b) == a = b \/ <<a, b>> \in DOMAIN book.pair

Lookup(book, a, b) == IF a = b THEN Identity(book) ELSE book.pair[<<a, b>>]

Rebase(book, base) == {c \in book.currencies \ {base} : Reachable(book, base, c)}

DirectQuotes(book, a, b) ==
    IF <<a, b>> \in DOMAIN book.direct THEN book.direct[<<a, b>>] ELSE <<>>

Refused(error) == [error |-> error]

Aged(q, now) == [source |-> q.source, rate |-> q.rate, age |-> now - q.time]

AgedAll(quotes, now) == [i \in DOMAIN quotes |-> Aged(quotes[i], now)]

\* amount * rate has a value.
Representable(amount, rate) == amount <= Largest \div rate

Describe(book, from, to, amount, now) ==
    LET p == Lookup(book, from, to)
        quotes == DirectQuotes(book, from, to)
    IN IF amount = Infinite THEN Refused("invalid amount")
       ELSE IF ~Reachable(book, from, to) THEN Refused("unknown pair")
       ELSE IF ~Representable(amount, p.rate) THEN Refused("amount out of range")
       ELSE [error   |-> "none", from |-> from, to |-> to,
             amount  |-> amount, result |-> amount * p.rate,
             rate    |-> p.rate, hops |-> p.hops, asOf |-> p.asOf,
             age     |-> now - p.asOf, sources |-> p.sources,
             quality |-> Assess(from, to, p, quotes, now),
             legs    |-> p.legs, quotes |-> AgedAll(quotes, now)]

\* What both wire formats show of a rate: its legs with ages for times.
ViewOf(c, now) ==
    [rate |-> c.rate, hops |-> c.hops, asOf |-> c.asOf, age |-> c.age,
     sources |-> c.sources, quality |-> c.quality, quotes |-> c.quotes,
     legs |-> AgedAll(c.legs, now)]

Converted(c, now) ==
    IF c.error # "none" THEN c
    ELSE [error |-> "none", from |-> c.from, to |-> c.to, amount |-> c.amount,
          result |-> c.result, rate |-> ViewOf(c, now)]

OrDefault(code) == IF code = "" THEN DefaultBase ELSE code

(***************************************************************************)
(* Each surface's convert, on a snapshot and at an instant it has read.    *)
(***************************************************************************)
\* ?amount=, refused only when it is too large for a float64.
AmountRefused(raw) == raw = "1e999"

AmountOf(raw) == IF raw \in DOMAIN Number THEN Number[raw] ELSE 1

\* A mutant of HttpConvert: an amount that does not fit is 1, as one that does not parse.
HttpConvertAnyAmount(book, from, to, raw, now) ==
    LET f == OrDefault(from)   t == OrDefault(to) IN
    IF ~Has(book, f) \/ ~Has(book, t) THEN Refused("unknown pair")
    ELSE Converted(Describe(book, f, t, AmountOf(raw), now), now)

HttpConvert(book, from, to, raw, now) ==
    LET f == OrDefault(from)   t == OrDefault(to) IN
    IF AmountRefused(raw) THEN Refused("invalid amount")
    ELSE IF ~Has(book, f) \/ ~Has(book, t) THEN Refused("unknown pair")
    ELSE Converted(Describe(book, f, t, AmountOf(raw), now), now)

\* The status line of a refusal.
ErrorCode(error) == IF error \in {"unknown pair", "unknown base"} THEN 404 ELSE 400

\* "amount": null or absent is 1; a JSON number that float64 cannot hold, an
\* infinity or a string makes the whole document undecodable.
AbiConvert(book, from, to, raw, now) ==
    IF raw # "" /\ (raw \notin DOMAIN Number \/ AmountOf(raw) = Infinite)
    THEN Refused("reading")
    ELSE Converted(Describe(book, OrDefault(from), OrDefault(to), AmountOf(raw), now), now)

\* Engine.Convert: no default for either code.
EngineConvert(book, from, to, amount, now) == Describe(book, from, to, amount, now)

BaseRefused(book, base) == book.currencies # {} /\ ~Has(book, base)

\* Engine.Rates: the pairs themselves.
EngineRates(book, base) ==
    IF BaseRefused(book, OrDefault(base)) THEN Refused("unknown base")
    ELSE [error |-> "none",
          rates |-> [c \in Rebase(book, OrDefault(base)) |-> Lookup(book, OrDefault(base), c)]]

(***************************************************************************)
(* The Refresher, and time.                                                *)
(***************************************************************************)
EmptyBook == [built |-> 0, currencies |-> {}, pair |-> <<>>, direct |-> <<>>]

\* In which order a request reads the clock ("now"), the snapshot ("book") and the
\* statuses ("status").
Plan(q) ==
    IF q.method = "meta" THEN <<"book", "status">>
    ELSE IF q.method = "convert" /\ q.surface # "library" THEN <<"now", "book">>
    ELSE <<"book", "now">>

ServingInit ==
    /\ clock = 0
    /\ graph = [s \in Source |-> {}]
    /\ status = [s \in Source |-> [edges |-> 0, lastOK |-> Never, failed |-> FALSE]]
    /\ pending = None
    /\ engine = EmptyBook
    /\ results = 0
    /\ \E q \in Asked : reading = [ask |-> q, todo |-> Plan(q), base |-> "", now |-> Never,
                                   book |-> None, sources |-> <<>>, table |-> <<>>]

TimePasses ==
    /\ \E t \in Instants : t > clock /\ clock' = t
    /\ UNCHANGED <<graph, status, pending, engine, results, reading>>

\* A result is applied and the graph materialized, under r.mu.
Apply(s) ==
    /\ pending = None /\ results < MaxResults
    /\ results' = results + 1
    /\ \/ \E quotes \in Feed[s] :
            /\ graph' = [graph EXCEPT ![s] = Edges(s, quotes, clock)]
            /\ status' = [status EXCEPT ![s] =
                 [edges |-> Cardinality(quotes), lastOK |-> clock, failed |-> FALSE]]
       \/ /\ status' = [status EXCEPT ![s].failed = TRUE]
          /\ UNCHANGED graph
    /\ pending' = Materialize(UNION {graph'[r] : r \in Source}, clock)
    /\ UNCHANGED <<clock, engine, reading>>

\* r.engine.Load(snap).
Load ==
    /\ pending # None
    /\ engine' = pending
    /\ pending' = None
    /\ UNCHANGED <<clock, graph, status, results, reading>>

(***************************************************************************)
(* A request.                                                              *)
(***************************************************************************)
\* The next thing the handler reads.
Read ==
    /\ reading.todo # <<>>
    /\ \E base \in IF Head(reading.todo) = "book" /\ reading.ask.method = "rates"
                   THEN Bases ELSE {reading.base} :
         reading' = [reading EXCEPT !.todo = Tail(@), !.base = base,
           !.now     = IF Head(reading.todo) = "now" THEN clock ELSE @,
           !.book    = IF Head(reading.todo) = "book" THEN engine ELSE @,
           !.sources = IF Head(reading.todo) = "status" THEN status ELSE @]
    /\ UNCHANGED <<clock, graph, status, pending, engine, results>>

\* A mutant of Using: every rate of a table is looked up in the engine.
UsingCurrent == engine

\* The snapshot a rate of a table is described from.
Using == reading.book

\* What is left to describe.
Wanted ==
    IF reading.ask.method = "rates" /\ reading.todo = <<>>
       /\ ~BaseRefused(reading.book, OrDefault(reading.base))
    THEN Rebase(reading.book, OrDefault(reading.base)) \ DOMAIN reading.table
    ELSE {}

\* One turn of the loop over Rebase, in Go's map order.
DescribeOne ==
    /\ \E c \in Wanted :
         LET d == Describe(Using, OrDefault(reading.base), c, 1, reading.now) IN
         IF d.error # "none" THEN reading' = [reading EXCEPT !.book.currencies = @ \ {c}]
         ELSE reading' = [reading EXCEPT !.table =
                [x \in DOMAIN @ \cup {c} |-> IF x = c THEN ViewOf(d, reading.now) ELSE @[x]]]
    /\ UNCHANGED <<clock, graph, status, pending, engine, results>>

\* The answer is complete.
Answered(method) == reading.ask.method = method /\ reading.todo = <<>> /\ Wanted = {}

\* GET /api/v1/rates, and the ABI's "rates".
RatesAnswer ==
    IF BaseRefused(reading.book, OrDefault(reading.base)) THEN Refused("unknown base")
    ELSE [error |-> "none", base |-> OrDefault(reading.base),
          builtAt |-> reading.book.built, rates |-> reading.table]

\* GET /api/v1/meta and the ABI's "meta".
MetaAnswer ==
    [builtAt |-> reading.book.built, currencies |-> reading.book.currencies,
     sources |-> reading.sources]

\* GET /readyz: the same reads, and a verdict.
ReadyCode == IF reading.book.currencies = {} THEN 503 ELSE 200

ServingNext == TimePasses \/ (\E s \in Source : Apply(s)) \/ Load \/ Read \/ DescribeOne

ServingSpec == ServingInit /\ [][ServingNext]_servingVars

(***************************************************************************)
(* Properties.                                                             *)
(***************************************************************************)
\* The value a written amount has for the library: one that does not fit is infinite.
Denoted(raw) == IF AmountRefused(raw) THEN Infinite ELSE AmountOf(raw)

\* "The HTTP surface and the in-process surface cannot describe the same rate
\* differently" (fx/conversion.go:69): on one snapshot at one instant, a conversion
\* over HTTP, over the C ABI and by Engine.Convert is the same conversion or the same
\* refusal, save that HTTP alone knows an unknown code for what it is when it is
\* converted to itself, and that the ABI rejects a document with no number in it
\* before it looks at anything else.  An unknown currency is a 404 and nothing else is.
SurfacesAgree ==
    Answered("convert") =>
      LET book == reading.book   now == reading.now IN
      \A from, to \in Codes, raw \in DOMAIN Number \cup {"", "junk", "1e999"} :
        LET f == OrDefault(from)   t == OrDefault(to)
            http == HttpConvert(book, from, to, raw, now)
            abi  == AbiConvert(book, from, to, raw, now)
            lib  == Converted(EngineConvert(book, f, t, Denoted(raw), now), now)
        IN /\ ~(f = t /\ ~Has(book, f)) =>
                /\ \/ http = lib
                   \/ /\ http.error = "unknown pair" /\ lib.error = "invalid amount"
                      /\ ~(Has(book, f) /\ Has(book, t))
                /\ abi = lib \/ abi.error = "reading"
           /\ abi.error = "reading" => raw # "" /\ (Denoted(raw) = Infinite \/ raw = "junk")
           /\ http.error # "none" =>
                (ErrorCode(http.error) = 404 <=>
                   /\ ~AmountRefused(raw)
                   /\ \/ ~Has(book, f)
                      \/ ~Has(book, t)
                      \/ (~Reachable(book, f, t) /\ Denoted(raw) # Infinite))

\* Everything in one answer is of one moment.  A table of rates is that of the
\* snapshot whose built_at it carries, the rates the library's own and none older
\* than zero; the sources listed beside a list of currencies are those it came from:
\* a source with a rate in it has been heard from, and one that now has none was
\* heard from since; /readyz is 200 exactly if there is a rate to be had.
OneMomentPerAnswer ==
    /\ Answered("rates") =>
         LET lib == EngineRates(reading.book, reading.base) IN
         /\ RatesAnswer.error = lib.error
         /\ lib.error = "none" =>
              /\ DOMAIN RatesAnswer.rates = DOMAIN lib.rates
              /\ \A c \in DOMAIN lib.rates :
                   LET v == RatesAnswer.rates[c] IN
                   /\ v = ViewOf(Describe(reading.book, RatesAnswer.base, c, 1, reading.now), reading.now)
                   /\ v.rate = lib.rates[c].rate /\ v.asOf = lib.rates[c].asOf
                   /\ v.asOf <= RatesAnswer.builtAt
                   /\ v.age >= 0
    /\ Answered("meta") =>
         /\ \A p \in DOMAIN reading.book.pair : \A s \in reading.book.pair[p].sources :
              LET st == MetaAnswer.sources[s] IN
              /\ st.lastOK # Never
              /\ st.edges > 0 \/ st.lastOK >= MetaAnswer.builtAt
         /\ ReadyCode = 200 <=> \E a, b \in MetaAnswer.currencies :
                                   a # b /\ Reachable(reading.book, a, b)

\* The last quote of each source, and the rates of those.
LatestQuotes(quotes) == {i \in DOMAIN quotes : \A j \in DOMAIN quotes :
                           quotes[j].source = quotes[i].source => j <= i}

LatestRates(quotes) == {quotes[i].rate : i \in LatestQuotes(quotes)}

QuotedBy(quotes) == {quotes[i].source : i \in DOMAIN quotes}

Within(bps, rates) == \A x, y \in rates : (x - y) * 10000 <= bps * y

\* What an A says of a conversion.
Earned(c) ==
    /\ c.age < 26 * 60 /\ c.hops \in 1..2
    /\ \A s \in c.sources : RankOf(s) >= 2
    /\ {c.from, c.to} \cap (Defunct \cup Managed) = {}
    /\ Cardinality(QuotedBy(c.quotes)) # 1
    /\ Within(100, LatestRates(c.quotes))
    /\ Within(25, LatestRates(c.quotes)) \/ (c.age < 5 /\ c.hops = 1)

\* A conversion that is an answer and graded A.
GradedA(c) == c.error = "none" /\ c.quality.grade = "A"

\* An A is earned (docs: fx/quality.go's bands): whatever the snapshot and whenever it
\* is read, a conversion graded A is less than 26 hours old, at most one cross away,
\* from no unofficial or unknown source, without a caveat on either currency, and not
\* quoted by one source alone; quotes of it lie within 100 basis points, and within 25
\* unless the rate is direct and under five minutes old.  Of a source that quotes the
\* pair both ways, the quote that counts is the last.
GradeAIsEarned ==
    Answered("convert") =>
      \A from, to \in reading.book.currencies :
        LET c == Describe(reading.book, from, to, 1, reading.now) IN
        GradedA(c) => Earned(c)

\* "Reaching A needs at least two independent sources quoting that exact pair and
\* agreeing within 25 bps" (ACCURACY.md:104), said of the same conversions.
ANeedsTwoQuotes ==
    Answered("convert") =>
      \A from, to \in reading.book.currencies :
        LET c == Describe(reading.book, from, to, 1, reading.now) IN
        GradedA(c) => /\ Cardinality(QuotedBy(c.quotes)) >= 2
                      /\ Within(25, LatestRates(c.quotes))
=============================================================================
