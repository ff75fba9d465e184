------------------------------ MODULE Adapters ------------------------------
(***************************************************************************)
(* The source adapters (fxsource, internal/ratesources): what each makes   *)
(* of the documents it has fetched, and the registries that choose them.   *)
(*                                                                         *)
(* A document is a record of the fields the adapter looks at, its rows a   *)
(* set (a sequence where their order counts).  A symbol made of two codes  *)
(* is a pair of them.  A rate is its logarithm, an integer; Zero stands    *)
(* for a number that is not positive or a text that is no number, NaN for  *)
(* one that ParseFloat takes and that is not finite.  A date is a day;     *)
(* Undated is one that is missing or does not parse.                       *)
(***************************************************************************)
EXTENDS Integers, FiniteSetsExt, SequencesExt, TLC

CONSTANTS Fiat, Crypto,     \* the codes admitted from broad feeds
          SarbCodes,        \* SARB's series and their currencies
          Symbols,          \* Yahoo's configured symbols, in order
          ZaroniaSeries,    \* the series of each field of a ZARONIA record
          FredSeries        \* the FRED ids and their series

Zero == -1000
NaN == 1000
Undated == 0

Allowed(code) == code \in Fiat \cup Crypto

\* rate <= 0 is false of NaN.
Positive(rate) == rate # Zero

Dated(day, now) == IF day = Undated THEN now ELSE day

Edge(from, to, rate, source, time) ==
    [from |-> from, to |-> to, rate |-> rate, source |-> source, time |-> time]

\* Rows that quote a code against one base.
FromBase(base, rows, source, time) ==
    {Edge(base, r.code, r.rate, source, time) : r \in {r \in rows : Allowed(r.code) /\ Positive(r.rate)}}

FiatOnly(rows) == {r \in rows : r.code \in Fiat}

OrBase(base, default) == IF base = "" THEN default ELSE base

Coinbase(doc, now) == FromBase("USD", doc.rows, "coinbase", now)

Erapi(doc, now) ==
    IF doc.result # "success" THEN {}
    ELSE FromBase(OrBase(doc.base, "USD"), FiatOnly(doc.rows), "erapi", Dated(doc.day, now))

Frankfurter(doc, now) ==
    FromBase(OrBase(doc.base, "EUR"), doc.rows, "frankfurter", Dated(doc.day, now))

Oxr(doc, now) ==
    FromBase(OrBase(doc.base, "USD"), FiatOnly(doc.rows), "oxr", Dated(doc.day, now))

Ecb(doc, now) ==
    UNION {FromBase("EUR", cube.rows, "ecb", Dated(cube.day, now)) : cube \in doc.cubes}

\* Rows that quote pairs: base, quote.
FromPairs(rows, source, now) ==
    {Edge(r.symbol[1], r.symbol[2], r.rate, source, Dated(r.day, now)) :
       r \in {r \in rows : Allowed(r.symbol[1]) /\ Allowed(r.symbol[2]) /\ Positive(r.rate)}}

\* Its rows are not dated.
TraderMade(doc, now) ==
    FromPairs({[symbol |-> r.symbol, rate |-> r.rate, day |-> Undated] : r \in doc.rows},
              "tradermade", now)

\* The rate is the middle of bid and ask.
Polygon(doc, now) == FromPairs(doc.rows, "polygon", now)

\* Several symbols make an object of quotes, one symbol a quote.  "USD/" is trimmed from
\* a symbol, and a bare code, whose first part is "", is taken as it is.
TwelveData(doc, now) ==
    {Edge("USD", r.symbol[2], r.rate, "twelvedata", now) :
       r \in {r \in doc.rows :
                 r.symbol[1] \in {"", "USD"} /\ r.symbol[2] \in Fiat /\ Positive(r.rate)}}

\* Codes come in lower case.
Upper == [usd |-> "USD", zar |-> "ZAR", eur |-> "EUR", doge |-> "DOGE"]

Fawaz(doc, now) ==
    FromBase("USD", {[code |-> Upper[r.code], rate |-> r.rate] : r \in doc.rows},
             "fawazahmed0", Dated(doc.day, now))

NormSym(code) == IF code = "XBT" THEN "BTC" ELSE code

Luno(doc, now) ==
    {Edge(NormSym(r.symbol[1]), "ZAR", r.rate, "luno", Dated(r.day, now)) :
       r \in {r \in doc.rows : /\ r.symbol[2] = "ZAR" /\ Allowed(NormSym(r.symbol[1]))
                               /\ Positive(r.rate)}}

\* A later observation replaces an earlier one of its currency.
Boc(doc, now) ==
    LET usable(o) == {r \in o.rows : /\ r.symbol[2] = "CAD" /\ Allowed(r.symbol[1])
                                     /\ Positive(r.rate)}
        last(c) == Max({i \in DOMAIN doc.observations :
                          \E r \in usable(doc.observations[i]) : r.symbol[1] = c})
    IN UNION {LET o == doc.observations[i] IN
              {Edge(r.symbol[1], "CAD", r.rate, "boc", Dated(o.day, now)) :
                 r \in {r \in usable(o) : last(r.symbol[1]) = i}} :
                i \in DOMAIN doc.observations}

\* A mutant of Sarb: rand per dollar read as dollars per rand.
SarbInverted(doc, now) ==
    {Edge("ZAR", SarbCodes[r.code], r.rate, "sarb", Dated(r.day, now)) :
       r \in {r \in doc.rows : r.code \in DOMAIN SarbCodes /\ Positive(r.rate)}}

\* Rand per unit of the currency.
Sarb(doc, now) ==
    {Edge(SarbCodes[r.code], "ZAR", r.rate, "sarb", Dated(r.day, now)) :
       r \in {r \in doc.rows : r.code \in DOMAIN SarbCodes /\ Positive(r.rate)}}

\* One document for each symbol, none where the request failed.
Yahoo(docs, now) ==
    {Edge(Symbols[i][1], Symbols[i][2], docs[i].rate, "yahoo", Dated(docs[i].day, now)) :
       i \in {i \in DOMAIN docs : Positive(docs[i].rate)}}

Observation(series, value, day, source) ==
    [series |-> series, value |-> value, day |-> day, source |-> source]

\* Records without a date are left out, and so are rates that are no percentage.
SarbRates(doc) ==
    UNION {{Observation(ZaroniaSeries[f], r.fields[f], r.day, "sarbrates") :
              f \in {f \in DOMAIN r.fields \cap DOMAIN ZaroniaSeries :
                       f = "ZARONIA_INDEX" \/ r.fields[f] \in 0..100}} :
             r \in {r \in doc.rows : r.day # Undated}}

\* One row of the file, in the order of the file; a malformed row has no area.
BisRow(r) ==
    IF r.area = "" \/ r.day = Undated \/ r.value \in {Zero, NaN} THEN {}
    ELSE {Observation(r.area, r.value, r.day, "bis")}

\* Missing values are left out, and texts that are no number (Zero here: a level may be
\* zero or less), but not NaN, which the Book drops.  The documents are those of the series that answered.
Fred(docs) ==
    UNION {{Observation(FredSeries[i], r.value, r.day, "fred") :
              r \in {r \in docs[i].rows : r.day # Undated /\ r.value # Zero}} : i \in DOMAIN docs}

(***************************************************************************)
(* The registries.                                                         *)
(***************************************************************************)
FxKnown == {"ecb", "coinbase", "luno", "sarb", "frankfurter", "yahoo", "erapi",
            "fawazahmed0", "boc", "oxr", "twelvedata", "polygon", "tradermade"}

InterestKnown == {"bis", "sarbrates", "fred"}

DefaultSources == <<"ecb", "coinbase", "luno", "sarb">>

\* The paid sources, in the order in which they are appended.
Paid == <<"oxr", "polygon", "tradermade", "twelvedata">>

\* The names that are known, each once, where it first appears.
Resolve(names, known) ==
    LET chosen[n \in 0..Len(names)] ==
          IF n = 0 THEN <<>>
          ELSE IF names[n] \in known /\ \A i \in 1..(n - 1) : names[i] # names[n]
               THEN Append(chosen[n - 1], names[n])
               ELSE chosen[n - 1]
    IN chosen[Len(names)]

Build(spec) == Resolve(IF spec = <<>> THEN DefaultSources ELSE spec, FxKnown)

\* keys: the sources whose variable is set.  Those not yet chosen are appended.
FromEnvSpec(spec, keys) == Resolve(Build(spec) \o Paid, ToSet(Build(spec)) \cup keys)

InterestBuild(spec, keys) ==
    LET named == Resolve(IF spec = <<>> THEN <<"bis", "sarbrates">> ELSE spec, InterestKnown)
    IN Resolve(named \o <<"fred">>, ToSet(named) \cup keys)
=============================================================================
