------------------------------- MODULE Fetch -------------------------------
(***************************************************************************)
(* One fetch of one source: the time it is given, the requests it makes,   *)
(* through the guarded dialer, and what it returns.  A request may fail at *)
(* any moment and must fail when its client's timeout has passed or its    *)
(* ctx is done; net/http is used by that contract.  Time runs in units of  *)
(* five seconds.  A document that does not parse is one with nothing in it.*)
(***************************************************************************)
EXTENDS Adapters

CONSTANTS
    Setups,         \* the configurations: [spec, keys, call, config]
    DocsOf(_, _),   \* the documents of a source, and of its i-th URL
    Addresses,      \* what a name may resolve to
    Networks,       \* [host, env]: a host and the process's environment
    Today, Day,     \* the clock, and the day the dated documents are of
    Price, Level    \* the market: codes' prices (logarithms), series' levels

VARIABLES setup, fetch

fetchVars == <<setup, fetch>>

Ran == [done |-> TRUE]      \* setup, when the fetch has begun

(***************************************************************************)
(* The time a fetch is given (ffi/abi): durations are machine words.       *)
(***************************************************************************)
Half == 64          \* bound: 2^63 of an int64
PerUnit == 4        \* bound: the nanoseconds of a unit of the wire formats

Duration(n) == ((n * PerUnit + Half) % (2 * Half)) - Half

MaxDuration == (Half - 1) \div PerUnit

\* configDuration refuses what does not fit; NewRefresher's default is 50 seconds.
ConfigRefused(n) == n > MaxDuration \/ n < -MaxDuration

FetchTimeout(n) == IF Duration(n) <= 0 THEN 10 * PerUnit ELSE Duration(n)

\* A mutant of Clamped: a large deadline wraps.
ClampedNot(n) == n

Clamped(n) == IF n > MaxDuration THEN MaxDuration ELSE n

\* timeoutRequest.context: zero and less mean no deadline.
CallDeadline(n) == IF n <= 0 THEN Half - 1 ELSE Duration(Clamped(n))

Budget(call, config) == Min({CallDeadline(call), FetchTimeout(config)}) \div PerUnit

(***************************************************************************)
(* internal/safedial and internal/redact.                                  *)
(***************************************************************************)
Blocked(address) ==
    address \in {"nil", "unspecified", "loopback", "link-local", "multicast", "private", "carrier"}

AllowPrivate(env) == env = "opted out"

IsConfiguredProxy(env) == env = "proxied"

Guarded(net) ==
    net.host # "literal" /\ ~AllowPrivate(net.env) /\ ~IsConfiguredProxy(net.env)

\* The parameter that carries each source's key, in lower case.
KeyParam == [oxr |-> "app_id", polygon |-> "apikey", twelvedata |-> "apikey",
             tradermade |-> "api_key", fred |-> "api_key"]

Sensitive == {"apikey", "api_key", "key", "token", "access_token", "auth", "appid",
              "app_id", "secret", "password", "passwd", "pwd"}

\* Which of the telltale words is part of a parameter's name.
Telltale(param) == IF param \in {"apikey", "api_key"} THEN {"key"} ELSE {}

\* A mutant of IsSensitive: no list of names.
IsSensitiveByWord(param) == Telltale(param) # {}

IsSensitive(param) == param \in Sensitive \/ Telltale(param) # {}

\* What is left of an error in the status of its source: does it show a key?
Redacted(name, err) ==
    IF err = "url" /\ name \in DOMAIN KeyParam /\ ~IsSensitive(KeyParam[name])
    THEN "key" ELSE "plain"

(***************************************************************************)
(* The sources.                                                            *)
(***************************************************************************)
Retried == {"sarb", "sarbrates"}
Each    == {"yahoo", "fred"}        \* one request for each symbol or series

Attempts(name) ==
    CASE name \in Retried -> 3
      [] name = "fawazahmed0" -> 2
      [] name = "yahoo" -> Len(Symbols)
      [] name = "fred" -> Len(FredSeries)
      [] OTHER -> 1

\* The timeouts of the adapters' clients.
ClientTimeout(name) ==
    CASE name = "sarb" -> 4 [] name = "sarbrates" -> 5 [] name = "bis" -> 8 [] OTHER -> 3

Parse(name, docs) ==
    IF docs = <<>> THEN {}
    ELSE LET doc == docs[CHOOSE i \in DOMAIN docs : TRUE] IN
      CASE name = "coinbase" -> Coinbase(doc, Today)
        [] name = "erapi" -> Erapi(doc, Today)
        [] name = "frankfurter" -> Frankfurter(doc, Today)
        [] name = "oxr" -> Oxr(doc, Today)
        [] name = "ecb" -> Ecb(doc, Today)
        [] name = "tradermade" -> TraderMade(doc, Today)
        [] name = "polygon" -> Polygon(doc, Today)
        [] name = "twelvedata" -> TwelveData(doc, Today)
        [] name = "fawazahmed0" -> Fawaz(doc, Today)
        [] name = "luno" -> Luno(doc, Today)
        [] name = "boc" -> Boc(doc, Today)
        [] name = "sarb" -> Sarb(doc, Today)
        [] name = "yahoo" -> Yahoo(docs, Today)
        [] name = "sarbrates" -> SarbRates(doc)
        [] name = "bis" -> UNION {BisRow(doc[i]) : i \in DOMAIN doc}
        [] name = "fred" -> Fred(docs)

(***************************************************************************)
(* What is assumed of the documents: that a source tells the truth about   *)
(* what its adapter asks it for, or gives no usable number or date.        *)
(***************************************************************************)
Quoting(from, to) == {Price[from] - Price[to], NaN, Zero}

Dates == {Day, Undated}

\* Rows that quote codes against a base, and rows that quote pairs.
RowsTrue(base, rows) == \A r \in rows : Allowed(r.code) => r.rate \in Quoting(base, r.code)

PairsTrue(rows) ==
    \A r \in rows : r.rate \in Quoting(r.symbol[1], r.symbol[2]) /\ r.day \in Dates

\* The latest number given for a currency: Bank of Canada documents hold a series.
LatestTrue(observations) ==
    \A i \in DOMAIN observations : \A r \in observations[i].rows :
      (/\ r.symbol[2] = "CAD"
       /\ \A j \in DOMAIN observations : \A q \in observations[j].rows :
            j > i /\ q.symbol[1] = r.symbol[1] /\ q.symbol[2] = "CAD" => q.rate = Zero)
        => r.rate \in Quoting(r.symbol[1], "CAD") /\ observations[i].day \in Dates

\* The rows of the BIS file that are not malformed, and the malformed ones.
LevelRows == {r \in [area : DOMAIN Level \cup {""}, day : Dates, value : Int] :
                r.area = "" \/ r.value \in {Level[r.area], Zero, NaN}}

\* doc is what source name may publish at its i-th URL.
Truthful(name, i, doc) ==
    CASE name = "coinbase" -> RowsTrue("USD", doc.rows)
      [] name \in {"erapi", "oxr"} ->
           RowsTrue(OrBase(doc.base, "USD"), doc.rows) /\ doc.day \in Dates
      [] name = "frankfurter" ->
           RowsTrue(OrBase(doc.base, "EUR"), doc.rows) /\ doc.day \in Dates
      [] name = "ecb" -> \A cube \in doc.cubes : RowsTrue("EUR", cube.rows) /\ cube.day \in Dates
      [] name \in {"tradermade", "polygon", "luno"} -> PairsTrue(doc.rows)
      [] name = "twelvedata" ->
           \A r \in doc.rows :
             r.symbol[1] \in {"", "USD"} => r.rate \in Quoting("USD", r.symbol[2])
      [] name = "fawazahmed0" ->
           /\ \A r \in doc.rows : r.rate \in Quoting("USD", Upper[r.code])
           /\ doc.day \in Dates
      [] name = "boc" ->
           /\ Len(doc.observations) \in Nat
           /\ DOMAIN doc.observations = 1..Len(doc.observations)
           /\ LatestTrue(doc.observations)
      [] name = "sarb" ->
           \A r \in doc.rows : r.code \in DOMAIN SarbCodes =>
             r.rate \in Quoting(SarbCodes[r.code], "ZAR") /\ r.day \in Dates
      [] name = "yahoo" ->
           doc.rate \in Quoting(Symbols[i][1], Symbols[i][2]) /\ doc.day \in Dates
      [] name = "sarbrates" ->
           \A r \in doc.rows :
             /\ r.day \in Dates
             /\ r.day # Undated => \A f \in DOMAIN r.fields \cap DOMAIN ZaroniaSeries :
                  \/ r.fields[f] = Level[ZaroniaSeries[f]]
                  \/ f # "ZARONIA_INDEX" /\ r.fields[f] \notin 0..100
      [] name = "bis" -> doc \in Seq(LevelRows)
      [] name = "fred" ->
           \A r \in doc.rows :
             r.day # Undated /\ r.value # Zero =>
               r.day = Day /\ r.value \in {Level[FredSeries[i]], NaN}

\* Strings and integers in the configuration, lists of sources' symbols and series.
ASSUME FetchAssumption ==
    /\ \A s \in Setups : /\ s.spec \in Seq(STRING) /\ s.interest \in Seq(STRING)
                         /\ s.call \in Int /\ s.config \in Int
    /\ Len(Symbols) \in Nat /\ Len(FredSeries) \in Nat
    /\ Price["XBT"] = Price["BTC"]      \* two names of one coin

\* Whatever may be published is truthful.
ASSUME DocumentsAssumption ==
    \A name \in FxKnown \cup InterestKnown : \A i \in 1..Attempts(name) :
      \A doc \in DocsOf(name, i) : Truthful(name, i, doc)

-----------------------------------------------------------------------------
Sources(s) == ToSet(FromEnvSpec(s.spec, s.keys)) \cup ToSet(InterestBuild(s.interest, s.keys))

FetchInit ==
    /\ setup \in Setups
    /\ fetch = [at |-> "begin", name |-> "", turn |-> 1, spent |-> 0, left |-> 0,
                reached |-> <<>>, body |-> <<>>, docs |-> <<>>, err |-> "none", out |-> {}]

Return(out, err) ==
    fetch' = [fetch EXCEPT !.at = "returned", !.out = out, !.reached = <<>>, !.body = <<>>,
                           !.docs = <<>>, !.spent = 0, !.left = 0, !.err = err]

\* A fetch of one of the sources begins, unless a duration was refused; one
\* that lacks its key ends at once.
Begin ==
    /\ fetch.at = "begin" /\ ~ConfigRefused(setup.config)
    /\ \E n \in Sources(setup) :
         fetch' = [fetch EXCEPT
           !.name = n, !.left = Budget(setup.call, setup.config),
           !.at  = IF n \in DOMAIN KeyParam \ setup.keys THEN "returned" ELSE "next",
           !.err = IF n \in DOMAIN KeyParam \ setup.keys THEN "plain" ELSE "none"]
    /\ setup' = Ran

Refuse ==
    /\ fetch.at = "begin" /\ ConfigRefused(setup.config)
    /\ Return({}, "plain")
    /\ setup' = Ran

\* A request has failed: yahoo forgets why, fred remembers its first failure.
Fail(err) ==
    fetch' = [fetch EXCEPT !.at = "next", !.turn = @ + 1, !.spent = 0, !.reached = <<>>,
                           !.body = <<>>,
                           !.err = CASE fetch.name = "yahoo" -> "none"
                                     [] fetch.name = "fred" /\ @ # "none" -> @
                                     [] OTHER -> err]

\* The documents read so far, with that of the i-th request.
Holding(docs, i, doc) == [j \in DOMAIN docs \cup {i} |-> IF j = i THEN doc ELSE docs[j]]

Succeed(doc) ==
    fetch' = [fetch EXCEPT !.at = "next", !.spent = 0, !.reached = <<>>, !.body = <<>>,
                           !.turn = IF fetch.name \in Each THEN @ + 1
                                    ELSE Attempts(fetch.name) + 1,
                           !.docs = Holding(@, fetch.turn, doc),
                           !.err = IF fetch.name \in Each THEN @ ELSE "none"]

\* Another request is made: only those that retry look at their ctx first.
More == fetch.turn <= Attempts(fetch.name) /\ (fetch.name \in Retried => fetch.left > 0)

InTime == fetch.left > 0 /\ fetch.spent < ClientTimeout(fetch.name)

\* A name may resolve to several addresses; one that is refused is passed over.
Dial ==
    /\ fetch.at = "next" /\ More /\ InTime
    /\ \E net \in Networks, address \in Addresses :
         IF Guarded(net) /\ Blocked(address) THEN Fail("url")
         ELSE fetch' = [fetch EXCEPT !.at = "dialled", !.reached = <<net, address>>]
    /\ UNCHANGED setup

\* The status decides; a redirect is a status like another.
Reply ==
    /\ fetch.at = "dialled" /\ InTime
    /\ \/ Fail("plain")
       \/ \E doc \in DocsOf(fetch.name, fetch.turn) :
            fetch' = [fetch EXCEPT !.at = IF fetch.name = "bis" THEN "header" ELSE "body",
                                   !.body = doc, !.reached = <<>>]
    /\ UNCHANGED setup

\* The whole body has been read.
ReadBody ==
    /\ fetch.at = "body" /\ InTime
    /\ Succeed(fetch.body)
    /\ UNCHANGED setup

\* bis reads a header, then rows, and ends with the file.
ReadHeader ==
    /\ fetch.at = "header" /\ InTime
    /\ fetch' = [fetch EXCEPT !.at = "rows"]
    /\ UNCHANGED setup

ReadRow ==
    /\ fetch.at = "rows" /\ InTime
    /\ IF fetch.body = <<>> THEN Succeed(IF fetch.docs = <<>> THEN <<>> ELSE fetch.docs[1])
       ELSE fetch' = [fetch EXCEPT
              !.body = Tail(@),
              !.docs = <<Append(IF @ = <<>> THEN <<>> ELSE @[1], Head(fetch.body))>>]
    /\ UNCHANGED setup

Elapse ==
    /\ fetch.at \in {"dialled", "body", "header", "rows"} /\ InTime
    /\ fetch' = [fetch EXCEPT !.spent = @ + 1, !.left = @ - 1]
    /\ UNCHANGED setup

\* The request is cut off: by the network, its client's timeout or its ctx.  The
\* error of a request carries its URL, that of a body does not.  A reader of rows
\* takes it for a malformed row, and goes on to read the next: the same error.
AfterBrokenRow == "broken"

Break ==
    /\ \/ fetch.at = "next" /\ More /\ ~InTime /\ Fail("url")
       \/ fetch.at = "dialled" /\ Fail("url")
       \/ fetch.at \in {"body", "header"} /\ Fail("plain")
       \/ fetch.at = "rows" /\ fetch' = [fetch EXCEPT !.at = AfterBrokenRow]
    /\ UNCHANGED setup

\* Nothing usable is an error.
Finish ==
    /\ fetch.at = "next" /\ ~More
    /\ LET out == IF fetch.err # "none" /\ fetch.name \notin Each THEN {}
                  ELSE Parse(fetch.name, fetch.docs)
       IN Return(out, IF out # {} THEN "none" ELSE Redacted(fetch.name, fetch.err))
    /\ UNCHANGED setup

FetchNext ==
    \/ Begin \/ Refuse \/ Dial \/ Reply \/ ReadBody \/ ReadHeader \/ ReadRow
    \/ Elapse \/ Break \/ Finish

\* The fetch's goroutine goes on, and its timers fire.
FetchFairness == WF_fetchVars(FetchNext)

FetchSpec == FetchInit /\ [][FetchNext]_fetchVars /\ FetchFairness

-----------------------------------------------------------------------------
(* Properties.                                                              *)

\* An edge has its pair's price the right way round (unless the document said NaN,
\* which the graph drops) and the document's day, or the present; an observation has
\* its series' level (or fred said NaN, which the Book drops) and day.
IsTheMarkets(e) ==
    IF "series" \in DOMAIN e
    THEN /\ e.day = Day
         /\ \/ e.value = Level[e.series]
            \/ e.source = "fred" /\ e.value = NaN
    ELSE e.rate \in {Price[e.from] - Price[e.to], NaN} /\ e.time \in {Day, Today}

\* The sources that are named and known, or are defaults where none is named, and
\* those of which there is a key; and the time asked for, up to the default or to 292
\* years.
NamedOr(spec, defaults) == IF spec = <<>> THEN defaults ELSE ToSet(spec)

SourcesAsked(s) ==
    (NamedOr(s.spec, ToSet(DefaultSources)) \cap FxKnown) \cup (s.keys \cap ToSet(Paid))
    \cup (NamedOr(s.interest, {"bis", "sarbrates"}) \cap InterestKnown) \cup (s.keys \cap {"fred"})

EachOnce(s) ==
    IsInjective(FromEnvSpec(s.spec, s.keys)) /\ IsInjective(InterestBuild(s.interest, s.keys))

TimeAsked(call, config) ==
    Min({IF config <= 0 THEN 10 ELSE config, MaxDuration}
        \cup IF call <= 0 THEN {} ELSE {call})

\* What a fetch returns is what the market says, or an error; never both, never
\* neither.  The sources are those that were asked for, each once, and each has as
\* long as was asked; on the way it has reached no address of this host or its network
\* by a name it was not told to trust; and the error recorded for it shows no key.
FetchTellsTheTruth ==
    /\ fetch.at = "returned" =>
         /\ (fetch.out = {}) # (fetch.err = "none")
         /\ fetch.err # "key"
         /\ \A e \in fetch.out : IsTheMarkets(e)
    /\ fetch.at = "begin" =>
         /\ Sources(setup) = SourcesAsked(setup) /\ EachOnce(setup)
         /\ ~ConfigRefused(setup.config) =>
              Budget(setup.call, setup.config) = TimeAsked(setup.call, setup.config)
    /\ fetch.reached # <<>> /\ Blocked(fetch.reached[2]) =>
         fetch.reached[1] # [host |-> "name", env |-> "plain"]

\* Every fetch returns: the refresher waits for each of them (refresh.go:156), and so
\* does the store (store.go:95), relying on each client's "hard overall timeout"
\* (ratesources/httpclient.go:33).
EveryFetchReturns == fetch.at = "next" ~> fetch.at = "returned"

\* So it is for every source but bis.
FetchReturns == fetch.at = "next" /\ fetch.name # "bis" ~> fetch.at = "returned"
=============================================================================
