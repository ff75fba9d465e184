---------------------------- MODULE ServingProofs ----------------------------
(***************************************************************************)
(* What is proved of Serving: the invariant of its steps, and that it has  *)
(* SurfacesAgree, OneMomentPerAnswer and GradeAIsEarned.  BoundaryProofs   *)
(* makes theorems of them.                                                 *)
(***************************************************************************)
EXTENDS Serving, FiniteSetTheorems, WellFoundedInduction, TLAPS

(***************************************************************************)
(* One conversion on every surface.                                        *)
(***************************************************************************)
\* A view of nothing but a refusal is that refusal.
LEMMA RefusedIs ==
  ASSUME NEW e
  PROVE  /\ Refused(e).error = e
         /\ e # "none" => \A now : Converted(Refused(e), now) = Refused(e)
  BY DEF Refused, Converted

\* What Describe says of a pair, case by case.
LEMMA DescribeIs ==
  ASSUME NEW book, NEW f, NEW t, NEW amount, NEW now
  PROVE  LET d == Describe(book, f, t, amount, now) IN
         /\ amount = Infinite => d = Refused("invalid amount")
         /\ amount # Infinite /\ ~Reachable(book, f, t) => d = Refused("unknown pair")
         /\ amount # Infinite /\ Reachable(book, f, t) =>
              d = Refused("amount out of range") \/ d.error = "none"
<1> DEFINE d == Describe(book, f, t, amount, now)
<1>1. CASE amount = Infinite
  BY <1>1 DEF Describe
<1>2. CASE amount # Infinite /\ ~Reachable(book, f, t)
  BY <1>2 DEF Describe
<1>3. CASE amount # Infinite /\ Reachable(book, f, t)
  <2>1. CASE ~Representable(amount, Lookup(book, f, t).rate)
    <3>1. d = Refused("amount out of range")
      BY <1>3, <2>1, Zenon DEF Describe
    <3> QED BY <1>3, <3>1
  <2>2. CASE Representable(amount, Lookup(book, f, t).rate)
    <3>1. d.error = "none"
      BY <1>3, <2>2 DEF Describe
    <3> QED BY <1>3, <3>1
  <2> QED BY <2>1, <2>2
<1> QED BY <1>1, <1>2, <1>3

\* The error of what is shown of a description is the description's.
LEMMA ConvertedIs ==
  ASSUME NEW book, NEW f, NEW t, NEW amount, NEW now
  PROVE  LET c == Converted(Describe(book, f, t, amount, now), now) IN
         /\ c.error \in {"none", "invalid amount", "unknown pair", "amount out of range"}
         /\ amount = Infinite => c = Refused("invalid amount")
         /\ amount # Infinite =>
              /\ c.error = "unknown pair" <=> ~Reachable(book, f, t)
              /\ c.error # "invalid amount"
<1> DEFINE d == Describe(book, f, t, amount, now)
           c == Converted(d, now)
<1>1. /\ amount = Infinite => d = Refused("invalid amount")
      /\ amount # Infinite /\ ~Reachable(book, f, t) => d = Refused("unknown pair")
      /\ amount # Infinite /\ Reachable(book, f, t) =>
              d = Refused("amount out of range") \/ d.error = "none"
  BY DescribeIs
<1>2. c = IF d.error # "none" THEN d
          ELSE [error |-> "none", from |-> d.from, to |-> d.to, amount |-> d.amount,
                result |-> d.result, rate |-> ViewOf(d, now)]
  BY DEF Converted
<1>3. c.error = d.error /\ (d.error # "none" => c = d)
  BY <1>2
<1> HIDE DEF d, c
<1>4. /\ Refused("invalid amount").error = "invalid amount"
      /\ Refused("unknown pair").error = "unknown pair"
      /\ Refused("amount out of range").error = "amount out of range"
  BY DEF Refused
<1>5. CASE amount = Infinite
  BY <1>1, <1>3, <1>4, <1>5 DEF c, d
<1>6. CASE amount # Infinite /\ ~Reachable(book, f, t)
  BY <1>1, <1>3, <1>4, <1>6 DEF c, d
<1>7. CASE amount # Infinite /\ Reachable(book, f, t)
  BY <1>1, <1>3, <1>4, <1>7 DEF c, d
<1> QED BY <1>5, <1>6, <1>7

\* A refusal for an unknown currency is a 404.
NotFound(e) == ErrorCode(e) = 404

\* No other refusal of a conversion is.
LEMMA NotFoundIs ==
    /\ NotFound("unknown pair")
    /\ ~NotFound("none") /\ ~NotFound("invalid amount") /\ ~NotFound("amount out of range")
<1>1. /\ ErrorCode("none") = 400 /\ ErrorCode("invalid amount") = 400
      /\ ErrorCode("unknown pair") = 404 /\ ErrorCode("amount out of range") = 400
  BY DEF ErrorCode
<1>2. \A e : ErrorCode(e) = 400 => ~NotFound(e)
  BY DEF NotFound
<1>3. NotFound("unknown pair")
  BY <1>1 DEF NotFound
<1> QED BY <1>1, <1>2, <1>3, Zenon

\* The pairs of a snapshot are among its currencies.
Known(book) == \A p \in DOMAIN book.pair : \E a, b \in book.currencies : a # b /\ p = <<a, b>>

\* The conclusion of SurfacesAgree, for two codes and an amount.
Agree(book, now, from, to, raw) ==
  LET f == OrDefault(from)   t == OrDefault(to)
      http == HttpConvert(book, from, to, raw, now)
      abi  == AbiConvert(book, from, to, raw, now)
      lib  == Converted(EngineConvert(book, f, t, Denoted(raw), now), now)
  IN /\ ~(f = t /\ ~Has(book, f)) =>
          /\ \/ http = lib
             \/ /\ http.error = "unknown pair" /\ lib.error = "invalid amount"
                /\ ~(Has(book, f) /\ Has(book, t))
          /\ abi = lib \/ abi.error = "reading"
     /\ abi.error = "reading" => raw # "" /\ (Denoted(raw) = Infinite \/ raw = "junk")
     /\ http.error # "none" =>
          (ErrorCode(http.error) = 404 <=>
             /\ ~AmountRefused(raw)
             /\ \/ ~Has(book, f)
                \/ ~Has(book, t)
                \/ (~Reachable(book, f, t) /\ Denoted(raw) # Infinite))

\* It holds of every snapshot whose pairs are among its currencies.
LEMMA TheyAgree ==
  ASSUME NEW book, Known(book), NEW now, NEW from, NEW to,
         NEW raw \in DOMAIN Number \cup {"", "junk", "1e999"}
  PROVE  Agree(book, now, from, to, raw)
<1> DEFINE f == OrDefault(from)   t == OrDefault(to)
           http == HttpConvert(book, from, to, raw, now)
           abi  == AbiConvert(book, from, to, raw, now)
           lib  == Converted(EngineConvert(book, f, t, Denoted(raw), now), now)
           plain == Converted(Describe(book, f, t, AmountOf(raw), now), now)
<1>1. /\ http = IF AmountRefused(raw) THEN Refused("invalid amount")
                ELSE IF ~Has(book, f) \/ ~Has(book, t) THEN Refused("unknown pair")
                ELSE plain
      /\ abi = IF raw # "" /\ (raw \notin DOMAIN Number \/ AmountOf(raw) = Infinite)
               THEN Refused("reading") ELSE plain
      /\ Denoted(raw) = IF AmountRefused(raw) THEN Infinite ELSE AmountOf(raw)
  BY Zenon DEF HttpConvert, AbiConvert, Denoted
<1>2. /\ lib.error \in {"none", "invalid amount", "unknown pair", "amount out of range"}
      /\ Denoted(raw) = Infinite => lib = Refused("invalid amount")
      /\ Denoted(raw) # Infinite =>
           /\ lib.error = "unknown pair" <=> ~Reachable(book, f, t)
           /\ lib.error # "invalid amount"
  BY ConvertedIs DEF EngineConvert
<1>3. ~AmountRefused(raw) => plain = lib
  BY <1>1, Zenon DEF EngineConvert
<1>4. ~(f = t /\ ~Has(book, f)) /\ (~Has(book, f) \/ ~Has(book, t)) =>
        ~Reachable(book, f, t)
  BY DEF Known, Reachable, Has
<1>5. /\ AmountRefused(raw) <=> raw = "1e999"
      /\ raw \in DOMAIN Number => raw # "" /\ raw # "junk" /\ raw # "1e999"
  BY ServingAssumption DEF AmountRefused
<1>6. /\ Refused("invalid amount").error = "invalid amount"
      /\ Refused("unknown pair").error = "unknown pair"
      /\ Refused("reading").error = "reading"
  BY DEF Refused
<1>7. NotFound("unknown pair") /\ ~NotFound("invalid amount") /\ ~NotFound("none")
      /\ ~NotFound("amount out of range")
  BY NotFoundIs
<1>8. Reachable(book, f, t) \/ ~Reachable(book, f, t)
  OBVIOUS
<1> HIDE DEF f, t, http, abi, lib, plain
<1>9. Refused("unknown pair") = lib \/ lib.error = "invalid amount"
        \/ ~(~Has(book, f) \/ ~Has(book, t)) \/ (f = t /\ ~Has(book, f))
  <2> SUFFICES ASSUME ~Has(book, f) \/ ~Has(book, t), ~(f = t /\ ~Has(book, f))
               PROVE  Refused("unknown pair") = lib \/ lib.error = "invalid amount"
    OBVIOUS
  <2>1. ~Reachable(book, f, t)
    BY <1>4
  <2>2. CASE Denoted(raw) = Infinite
    BY <1>2, <1>6, <2>2
  <2>3. CASE Denoted(raw) # Infinite
    <3>1. Describe(book, f, t, Denoted(raw), now) = Refused("unknown pair")
      BY <2>1, <2>3, DescribeIs
    <3> QED BY <3>1, RefusedIs DEF lib, EngineConvert
  <2> QED BY <2>2, <2>3
<1>10. ASSUME ~(f = t /\ ~Has(book, f))
       PROVE  /\ \/ http = lib
                 \/ /\ http.error = "unknown pair" /\ lib.error = "invalid amount"
                    /\ ~(Has(book, f) /\ Has(book, t))
              /\ abi = lib \/ abi.error = "reading"
  <2>1. CASE AmountRefused(raw)
    BY <1>1, <1>2, <1>5, <1>6, <2>1
  <2>2. CASE ~AmountRefused(raw)
    BY <1>1, <1>3, <1>6, <1>9, <1>10, <2>2
  <2> QED BY <2>1, <2>2
<1>11. abi.error = "reading" => raw # "" /\ (Denoted(raw) = Infinite \/ raw = "junk")
  <2>1. CASE AmountRefused(raw)
    BY <1>1, <1>5, <2>1
  <2>2. CASE ~AmountRefused(raw)
    BY <1>1, <1>2, <1>3, <1>5, <1>6, <2>2
  <2> QED BY <2>1, <2>2
<1>12. NotFound(http.error) <=>
         /\ ~AmountRefused(raw)
         /\ \/ ~Has(book, f)
            \/ ~Has(book, t)
            \/ (~Reachable(book, f, t) /\ Denoted(raw) # Infinite)
  <2>1. CASE AmountRefused(raw)
    <3>1. http.error = "invalid amount"
      BY <1>1, <1>6, <2>1
    <3> QED BY <1>7, <2>1, <3>1
  <2>2. CASE ~AmountRefused(raw) /\ (~Has(book, f) \/ ~Has(book, t))
    <3>1. http.error = "unknown pair"
      BY <1>1, <1>6, <2>2
    <3> QED BY <1>7, <2>2, <3>1
  <2>3. CASE ~AmountRefused(raw) /\ Has(book, f) /\ Has(book, t)
    <3>1. http = lib
      BY <1>1, <1>3, <2>3
    <3>2. NotFound(http.error) <=> lib.error = "unknown pair"
      BY <1>2, <1>7, <3>1
    <3>3. Denoted(raw) = Infinite => lib.error # "unknown pair"
      BY <1>2, <1>6
    <3> QED BY <1>2, <1>8, <2>3, <3>2, <3>3
  <2> QED BY <2>1, <2>2, <2>3
<1> QED BY <1>10, <1>11, <1>12, Zenon DEF Agree, NotFound, f, t, http, abi, lib

(***************************************************************************)
(* What a request has read.                                                *)
(***************************************************************************)
\* The clock's readings and the number of results are natural numbers.
LEMMA Numbers == Instants \subseteq Nat /\ 0 \in Instants /\ MaxResults \in Nat
  BY ServingAssumption, Zenon

\* Each source of the snapshot has been heard from, and lists a rate or was heard from
\* since the snapshot was built.
Attests(book, st) ==
    \A p \in DOMAIN book.pair : \A s \in book.pair[p].sources :
      /\ st[s].lastOK # Never
      /\ st[s].edges > 0 \/ st[s].lastOK >= book.built

\* A snapshot the Refresher has made.
Recorded(book) == IsSnapshot(book, Source) /\ book.built <= clock /\ Attests(book, status)

\* The snapshot of the request has been read.
BookRead == reading.todo \in {<<"status">>, <<"now">>, <<>>}

\* What is left to read.
Progress ==
    CASE reading.ask.method = "meta"    -> reading.todo \in {<<"book", "status">>, <<"status">>, <<>>}
      [] reading.ask.method = "rates"   -> reading.todo \in {<<"book", "now">>, <<"now">>, <<>>}
      [] reading.ask.method = "convert" ->
           reading.todo \in {<<"now", "book">>, <<"book">>, <<"book", "now">>, <<"now">>, <<>>}

\* A table so far has the library's rates.
TableIs(table, book, base, now) ==
    \A c \in DOMAIN table :
      /\ c \in Rebase(book, base)
      /\ Describe(book, base, c, 1, now).error = "none"
      /\ table[c] = ViewOf(Describe(book, base, c, 1, now), now)

\* The pairs of a snapshot are none younger than it.
Priced(book) ==
    /\ book = [built |-> book.built, currencies |-> book.currencies,
               pair |-> book.pair, direct |-> book.direct]
    /\ book.built \in Int
    /\ \A p \in DOMAIN book.pair : book.pair[p].asOf \in Int /\ book.pair[p].asOf <= book.built

ReadingInv ==
    /\ reading = [ask |-> reading.ask, todo |-> reading.todo, base |-> reading.base,
                  now |-> reading.now, book |-> reading.book, sources |-> reading.sources,
                  table |-> reading.table]
    /\ reading.ask \in Asked /\ reading.now \in Int
    /\ Progress
    /\ BookRead =>
         /\ reading.ask.method # "rates" => IsSnapshot(reading.book, Source)
         /\ reading.ask.method = "meta" =>
              Attests(reading.book, IF reading.todo = <<>> THEN reading.sources ELSE status)
         /\ Priced(reading.book) /\ reading.book.built <= clock
    /\ reading.ask.method = "rates" /\ reading.todo = <<>> =>
         /\ reading.book.built <= reading.now
         /\ TableIs(reading.table, reading.book, OrDefault(reading.base), reading.now)
    /\ reading.todo # <<>> => DOMAIN reading.table = {}

ServingInv ==
    /\ clock \in Instants
    /\ graph \in Holdings
    /\ status \in [Source -> [edges : Nat, lastOK : Int, failed : BOOLEAN]]
    /\ \A s \in Source : graph[s] # {} => status[s].edges > 0 /\ status[s].lastOK # Never
    /\ Recorded(engine)
    /\ pending = None \/ Recorded(pending)
    /\ ReadingInv

\* Nothing happens, but for the time passing, after use.
Resting == pending = None /\ results = MaxResults /\ reading = [ask |-> [method |-> "none"], todo |-> <<>>]

\* The lists of what there is to read.
LEMMA Lists ==
    /\ Head(<<"book", "status">>) = "book" /\ Tail(<<"book", "status">>) = <<"status">>
    /\ Head(<<"book", "now">>) = "book" /\ Tail(<<"book", "now">>) = <<"now">>
    /\ Head(<<"now", "book">>) = "now" /\ Tail(<<"now", "book">>) = <<"book">>
    /\ Head(<<"status">>) = "status" /\ Tail(<<"status">>) = <<>>
    /\ Head(<<"now">>) = "now" /\ Tail(<<"now">>) = <<>>
    /\ Head(<<"book">>) = "book" /\ Tail(<<"book">>) = <<>>
  OBVIOUS

\* No two of them are the same.
LEMMA ListsDiffer ==
    /\ <<"book", "status">> \notin {<<"status">>, <<"now">>, <<>>}
    /\ <<"book", "now">> \notin {<<"status">>, <<"now">>, <<>>}
    /\ <<"now", "book">> \notin {<<"status">>, <<"now">>, <<>>}
    /\ <<"book">> \notin {<<"status">>, <<"now">>, <<>>}
    /\ <<"status">> # <<>> /\ <<"now">> # <<>> /\ <<"now">> # <<"status">>
    /\ <<"book", "status">> # <<>> /\ <<"book", "now">> # <<>> /\ <<"now", "book">> # <<>> /\ <<"book">> # <<>>
<1>1. /\ <<"book", "status">>[1] = "book" /\ <<"book", "now">>[1] = "book"
      /\ <<"now", "book">>[2] = "book" /\ <<"book">>[1] = "book"
      /\ <<"status">>[1] = "status" /\ <<"now">>[1] = "now"
      /\ Len(<<"now", "book">>) = 2 /\ Len(<<"now">>) = 1 /\ Len(<<>>) = 0 /\ Len(<<"status">>) = 1
  OBVIOUS
<1> QED BY <1>1

\* A request that reads something keeps what it has read before.
LEMMA ReadingBecomes ==
  ASSUME NEW r, NEW t, NEW b, NEW n, NEW k, NEW s,
         r = [ask |-> r.ask, todo |-> r.todo, base |-> r.base, now |-> r.now,
              book |-> r.book, sources |-> r.sources, table |-> r.table]
  PROVE  [r EXCEPT !.todo = t, !.base = b, !.now = n, !.book = k, !.sources = s] =
           [ask |-> r.ask, todo |-> t, base |-> b, now |-> n, book |-> k,
            sources |-> s, table |-> r.table]
<1> DEFINE r1 == [r EXCEPT !.todo = t]
           r2 == [r1 EXCEPT !.base = b]
           r3 == [r2 EXCEPT !.now = n]
           r4 == [r3 EXCEPT !.book = k]
           r5 == [r4 EXCEPT !.sources = s]
<1>1. r1 = [ask |-> r.ask, todo |-> t, base |-> r.base, now |-> r.now,
            book |-> r.book, sources |-> r.sources, table |-> r.table]
  OBVIOUS
<1> HIDE DEF r1
<1>2. r2 = [ask |-> r.ask, todo |-> t, base |-> b, now |-> r.now,
            book |-> r.book, sources |-> r.sources, table |-> r.table]
  BY <1>1
<1> HIDE DEF r2
<1>3. r3 = [ask |-> r.ask, todo |-> t, base |-> b, now |-> n,
            book |-> r.book, sources |-> r.sources, table |-> r.table]
  BY <1>2
<1> HIDE DEF r3
<1>4. r4 = [ask |-> r.ask, todo |-> t, base |-> b, now |-> n,
            book |-> k, sources |-> r.sources, table |-> r.table]
  BY <1>3
<1> HIDE DEF r4
<1>5. r5 = [ask |-> r.ask, todo |-> t, base |-> b, now |-> n, book |-> k,
            sources |-> s, table |-> r.table]
  BY <1>4
<1>6. [r EXCEPT !.todo = t, !.base = b, !.now = n, !.book = k, !.sources = s] = r5
  BY Zenon DEF r1, r2, r3, r4
<1> QED BY <1>5, <1>6, Zenon

\* A rate that has no value leaves the request's snapshot without its currency.
LEMMA BookBecomes ==
  ASSUME NEW r, NEW s,
         r = [ask |-> r.ask, todo |-> r.todo, base |-> r.base, now |-> r.now,
              book |-> r.book, sources |-> r.sources, table |-> r.table],
         r.book = [built |-> r.book.built, currencies |-> r.book.currencies,
                   pair |-> r.book.pair, direct |-> r.book.direct]
  PROVE  [r EXCEPT !.book.currencies = s] =
           [ask |-> r.ask, todo |-> r.todo, base |-> r.base, now |-> r.now,
            book |-> [built |-> r.book.built, currencies |-> s,
                      pair |-> r.book.pair, direct |-> r.book.direct],
            sources |-> r.sources, table |-> r.table]
  OBVIOUS

\* The table grows.
LEMMA TableBecomes ==
  ASSUME NEW r, NEW t,
         r = [ask |-> r.ask, todo |-> r.todo, base |-> r.base, now |-> r.now,
              book |-> r.book, sources |-> r.sources, table |-> r.table]
  PROVE  [r EXCEPT !.table = t] =
           [ask |-> r.ask, todo |-> r.todo, base |-> r.base, now |-> r.now,
            book |-> r.book, sources |-> r.sources, table |-> t]
  OBVIOUS

\* Read, step by step.
LEMMA ReadDoes ==
  ASSUME Read,
         reading = [ask |-> reading.ask, todo |-> reading.todo, base |-> reading.base,
                    now |-> reading.now, book |-> reading.book, sources |-> reading.sources,
                    table |-> reading.table]
  PROVE  /\ reading.todo # <<>>
         /\ reading' = [ask |-> reading'.ask, todo |-> reading'.todo, base |-> reading'.base,
                        now |-> reading'.now, book |-> reading'.book, sources |-> reading'.sources,
                        table |-> reading'.table]
         /\ reading'.ask = reading.ask /\ reading'.table = reading.table
         /\ reading'.todo = Tail(reading.todo)
         /\ reading'.now = IF Head(reading.todo) = "now" THEN clock ELSE reading.now
         /\ reading'.book = IF Head(reading.todo) = "book" THEN engine ELSE reading.book
         /\ reading'.sources = IF Head(reading.todo) = "status" THEN status ELSE reading.sources
         /\ UNCHANGED <<clock, graph, status, pending, engine, results>>
<1> DEFINE h == Head(reading.todo)
           t == Tail(reading.todo)
           n == IF h = "now" THEN clock ELSE reading.now
           k == IF h = "book" THEN engine ELSE reading.book
           s == IF h = "status" THEN status ELSE reading.sources
<1>1. PICK b : reading' = [reading EXCEPT !.todo = t, !.base = b, !.now = n, !.book = k, !.sources = s]
  BY Zenon DEF Read
<1>2. reading.todo # <<>> /\ UNCHANGED <<clock, graph, status, pending, engine, results>>
  BY DEF Read
<1> HIDE DEF t, n, k, s
<1>3. reading' = [ask |-> reading.ask, todo |-> t, base |-> b, now |-> n, book |-> k,
                  sources |-> s, table |-> reading.table]
  BY <1>1, ReadingBecomes, Zenon
<1>4. /\ reading' = [ask |-> reading'.ask, todo |-> reading'.todo, base |-> reading'.base,
                     now |-> reading'.now, book |-> reading'.book, sources |-> reading'.sources,
                     table |-> reading'.table]
      /\ reading'.ask = reading.ask /\ reading'.table = reading.table
      /\ reading'.todo = t /\ reading'.now = n /\ reading'.book = k /\ reading'.sources = s
  BY <1>3
<1> QED BY <1>2, <1>4 DEF t, n, k, s

\* A snapshot the Refresher made stays one, whatever is fetched later.
LEMMA RecordsAreKept ==
  ASSUME NEW book, Attests(book, status), book.built <= clock, NEW s \in Source, Apply(s),
         clock \in Instants,
         \A p \in DOMAIN book.pair : book.pair[p].sources \subseteq Source,
         status \in [Source -> [edges : Nat, lastOK : Int, failed : BOOLEAN]]
  PROVE  Attests(book, status')
<1>1. clock \in Int /\ clock # Never
  <2>1. clock \in Nat
    BY ServingAssumption, Zenon
  <2> QED BY <2>1 DEF Never
<1> SUFFICES ASSUME NEW p \in DOMAIN book.pair, NEW r \in book.pair[p].sources
             PROVE  /\ status'[r].lastOK # Never
                    /\ status'[r].edges > 0 \/ status'[r].lastOK >= book.built
  BY DEF Attests
<1>2. r \in Source /\ status[r].lastOK # Never
      /\ (status[r].edges > 0 \/ status[r].lastOK >= book.built)
  BY DEF Attests
<1>3. CASE \E quotes \in Feed[s] :
             status' = [status EXCEPT ![s] =
                 [edges |-> Cardinality(quotes), lastOK |-> clock, failed |-> FALSE]]
  <2>1. r = s => status'[r].lastOK = clock
    BY <1>2, <1>3
  <2>2. r # s => status'[r] = status[r]
    BY <1>2, <1>3
  <2> QED BY <1>1, <1>2, <2>1, <2>2
<1>4. CASE status' = [status EXCEPT ![s].failed = TRUE]
  BY <1>2, <1>4
<1> QED BY <1>3, <1>4 DEF Apply

\* Edges are there when quotes are, as many as their list has.
LEMMA EdgesAre ==
  ASSUME NEW s \in Source, NEW quotes \in Feed[s]
  PROVE  /\ Edges(s, quotes, clock) # {} => Cardinality(quotes) > 0
         /\ Cardinality(quotes) \in Nat
<1>1. IsFiniteSet(quotes)
  BY ServingAssumption, Zenon
<1>2. Cardinality(quotes) \in Nat /\ (Cardinality(quotes) = 0 <=> quotes = {})
  BY <1>1, FS_CardinalityType, FS_EmptySet
<1>3. quotes = {} => Edges(s, quotes, clock) = {}
  BY DEF Edges
<1> QED BY <1>2, <1>3

\* What a snapshot owes to one set of sources, it owes to a greater one.
LEMMA MoreSources ==
  ASSUME NEW book, NEW S, NEW T, S \subseteq T, IsSnapshot(book, S)
  PROVE  IsSnapshot(book, T)
  BY DEF IsSnapshot

\* The graph after a result is one the search may be given.
LEMMA GraphStaysHeld ==
  ASSUME graph \in Holdings, clock \in Instants, NEW s \in Source,
         NEW quotes \in Feed[s], graph' = [graph EXCEPT ![s] = Edges(s, quotes, clock)]
  PROVE  graph' \in Holdings
<1>1. graph \in [Source -> UNION {Held(r) : r \in Source}] /\ \A r \in Source : graph[r] \in Held(r)
  BY Zenon DEF Holdings
<1>2. Edges(s, quotes, clock) \in Held(s)
  BY DEF Held
<1>3. Edges(s, quotes, clock) \in UNION {Held(r) : r \in Source}
  BY <1>2
<1>4. graph' \in [Source -> UNION {Held(r) : r \in Source}]
  BY <1>1, <1>3
<1>5. \A r \in Source : graph'[r] \in Held(r)
  BY <1>1, <1>2
<1> QED BY <1>4, <1>5, Zenon DEF Holdings

\* A result that is applied leaves its source recorded, and a snapshot to load.
LEMMA ApplyDoes ==
  ASSUME ServingInv, NEW s \in Source, Apply(s)
  PROVE  /\ graph' \in Holdings
         /\ status' \in [Source -> [edges : Nat, lastOK : Int, failed : BOOLEAN]]
         /\ \A r \in Source : graph'[r] # {} => status'[r].edges > 0 /\ status'[r].lastOK # Never
         /\ IsSnapshot(pending', Source) /\ pending'.built = clock
         /\ Attests(pending', status')
         /\ UNCHANGED <<clock, engine, reading>>
<1> DEFINE Types == [Source -> [edges : Nat, lastOK : Int, failed : BOOLEAN]]
<1>1. /\ graph \in Holdings /\ clock \in Instants /\ status \in Types
      /\ \A r \in Source : graph[r] # {} => status[r].edges > 0 /\ status[r].lastOK # Never
  BY DEF ServingInv
<1>2. clock \in Int /\ clock # Never
  <2>1. clock \in Nat
    BY <1>1, ServingAssumption, Zenon
  <2> QED BY <2>1 DEF Never
<1>3. UNCHANGED <<clock, engine, reading>>
  BY DEF Apply
<1>4. /\ graph' \in Holdings /\ status' \in Types
      /\ \A r \in Source : graph'[r] # {} => status'[r].edges > 0 /\ status'[r].lastOK # Never
  <2>1. CASE \E quotes \in Feed[s] :
            /\ graph' = [graph EXCEPT ![s] = Edges(s, quotes, clock)]
            /\ status' = [status EXCEPT ![s] =
                 [edges |-> Cardinality(quotes), lastOK |-> clock, failed |-> FALSE]]
    <3>1. PICK quotes \in Feed[s] :
            /\ graph' = [graph EXCEPT ![s] = Edges(s, quotes, clock)]
            /\ status' = [status EXCEPT ![s] =
                 [edges |-> Cardinality(quotes), lastOK |-> clock, failed |-> FALSE]]
      BY <2>1
    <3>2. graph' \in Holdings
      BY <1>1, <3>1, GraphStaysHeld
    <3>3. /\ Edges(s, quotes, clock) # {} => Cardinality(quotes) > 0
          /\ Cardinality(quotes) \in Nat
      BY EdgesAre
    <3>4. [edges |-> Cardinality(quotes), lastOK |-> clock, failed |-> FALSE]
            \in [edges : Nat, lastOK : Int, failed : BOOLEAN]
      BY <1>2, <3>3
    <3>5. status' \in Types
      BY <1>1, <3>1, <3>4
    <3>6. status'[s].edges = Cardinality(quotes) /\ status'[s].lastOK = clock
      BY <1>1, <3>1
    <3>7. graph'[s] = Edges(s, quotes, clock)
      BY <1>1, <3>1 DEF Holdings
    <3>8. \A r \in Source : r # s => graph'[r] = graph[r] /\ status'[r] = status[r]
      BY <1>1, <3>1 DEF Holdings
    <3> HIDE DEF Types
    <3>9. \A r \in Source : graph'[r] # {} => status'[r].edges > 0 /\ status'[r].lastOK # Never
      BY <1>1, <1>2, <3>3, <3>6, <3>7, <3>8
    <3> QED BY <3>2, <3>5, <3>9
  <2>2. CASE status' = [status EXCEPT ![s].failed = TRUE] /\ UNCHANGED graph
    <3>1. status' \in Types
      BY <1>1, <2>2
    <3>2. \A r \in Source : status'[r].edges = status[r].edges /\ status'[r].lastOK = status[r].lastOK
      BY <1>1, <2>2
    <3> QED BY <1>1, <2>2, <3>1, <3>2
  <2> QED BY <2>1, <2>2 DEF Apply
<1> DEFINE heard == {r \in Source : graph'[r] # {}}
<1>5. pending'.built = clock /\ IsSnapshot(pending', heard)
  <2>1. pending' = Materialize(UNION {graph'[r] : r \in Source}, clock)
    BY DEF Apply
  <2> QED BY <1>1, <1>4, <2>1, MaterializeAssumption, Zenon
<1>6. IsSnapshot(pending', Source)
  <2>1. heard \subseteq Source
    OBVIOUS
  <2> HIDE DEF heard
  <2> QED BY <1>5, <2>1, MoreSources
<1>7. Attests(pending', status')
  <2> SUFFICES ASSUME NEW p \in DOMAIN pending'.pair, NEW r \in pending'.pair[p].sources
               PROVE  /\ status'[r].lastOK # Never
                      /\ status'[r].edges > 0 \/ status'[r].lastOK >= pending'.built
    BY DEF Attests
  <2>1. pending'.pair[p].sources \subseteq heard
    BY <1>5 DEF IsSnapshot
  <2>2. r \in Source /\ graph'[r] # {}
    BY <2>1
  <2> QED BY <1>4, <2>2
<1> QED BY <1>3, <1>4, <1>5, <1>6, <1>7

\* The table and the description of a rate do not depend on the list of currencies.
LEMMA SameDescription ==
  ASSUME NEW book, NEW k, k.built = book.built, k.pair = book.pair, k.direct = book.direct
  PROVE  /\ \A f, t, amount, now : Describe(k, f, t, amount, now) = Describe(book, f, t, amount, now)
         /\ \A a, b : Reachable(k, a, b) <=> Reachable(book, a, b)
<1>1. \A a, b : Reachable(k, a, b) <=> Reachable(book, a, b)
  BY Zenon DEF Reachable
<1>2. \A a, b : Lookup(k, a, b) = Lookup(book, a, b) /\ DirectQuotes(k, a, b) = DirectQuotes(book, a, b)
  BY Zenon DEF Lookup, Identity, DirectQuotes
<1>3. ASSUME NEW f, NEW t, NEW amount, NEW now
      PROVE  Describe(k, f, t, amount, now) = Describe(book, f, t, amount, now)
  <2>1. /\ Reachable(k, f, t) <=> Reachable(book, f, t)
        /\ Lookup(k, f, t) = Lookup(book, f, t)
        /\ DirectQuotes(k, f, t) = DirectQuotes(book, f, t)
    BY <1>1, <1>2
  <2>2. CASE Reachable(book, f, t)
    BY <2>1, <2>2, Zenon DEF Describe
  <2>3. CASE ~Reachable(book, f, t)
    BY <2>1, <2>3, Zenon DEF Describe
  <2> QED BY <2>2, <2>3
<1> QED BY <1>1, <1>3

\* What ServingInv says of the request.
LEMMA RefresherKeepsReading ==
  ASSUME ServingInv, ServingNext, UNCHANGED reading, clock' \in Int, clock <= clock',
         status' = status \/ \E s \in Source : Apply(s)
  PROVE  ReadingInv'
<1>1. ReadingInv /\ clock \in Instants /\ clock \in Int
      /\ status \in [Source -> [edges : Nat, lastOK : Int, failed : BOOLEAN]]
  <2>1. clock \in Instants
    BY DEF ServingInv
  <2>2. clock \in Nat
    BY <2>1, ServingAssumption, Zenon
  <2> QED BY <2>1, <2>2 DEF ServingInv
<1>2. Progress' /\ (BookRead' <=> BookRead)
  BY <1>1 DEF ReadingInv, Progress, BookRead
<1>3. ASSUME BookRead
      PROVE  /\ reading.ask.method # "rates" => IsSnapshot(reading.book, Source)
             /\ reading.ask.method = "meta" =>
                  Attests(reading.book, IF reading.todo = <<>> THEN reading.sources ELSE status')
             /\ Priced(reading.book) /\ reading.book.built <= clock'
  <2>1. /\ reading.ask.method # "rates" => IsSnapshot(reading.book, Source)
        /\ reading.ask.method = "meta" =>
             Attests(reading.book, IF reading.todo = <<>> THEN reading.sources ELSE status)
        /\ Priced(reading.book) /\ reading.book.built <= clock
    BY <1>1, <1>3 DEF ReadingInv
  <2>2. reading.book.built <= clock'
    BY <1>1, <2>1 DEF Priced
  <2>3. ASSUME reading.ask.method = "meta"
        PROVE  Attests(reading.book, IF reading.todo = <<>> THEN reading.sources ELSE status')
    <3>1. CASE reading.todo = <<>>
      BY <2>1, <2>3, <3>1
    <3>2. CASE reading.todo # <<>>
      <4>1. Attests(reading.book, status) /\ IsSnapshot(reading.book, Source)
        BY <2>1, <2>3, <3>2
      <4>2. \A p \in DOMAIN reading.book.pair : reading.book.pair[p].sources \subseteq Source
        BY <4>1 DEF IsSnapshot
      <4>3. Attests(reading.book, status')
        BY <1>1, <2>1, <4>1, <4>2, RecordsAreKept, Zenon
      <4> QED BY <3>2, <4>3
    <3> QED BY <3>1, <3>2
  <2> QED BY <2>1, <2>2, <2>3
<1>4. /\ reading' = reading
      /\ ReadingInv
  BY <1>1
<1> QED BY <1>2, <1>3, <1>4, Zenon DEF ReadingInv

\* Time, results and loading.
LEMMA RefresherStep ==
  ASSUME ServingInv, TimePasses \/ (\E s \in Source : Apply(s)) \/ Load
  PROVE  ServingInv'
<1>1. /\ clock \in Instants /\ clock \in Int
      /\ graph \in Holdings
      /\ status \in [Source -> [edges : Nat, lastOK : Int, failed : BOOLEAN]]
      /\ \A s \in Source : graph[s] # {} => status[s].edges > 0 /\ status[s].lastOK # Never
      /\ Recorded(engine) /\ (pending = None \/ Recorded(pending))
  <2>1. clock \in Instants
    BY DEF ServingInv
  <2>2. clock \in Nat
    BY <2>1, ServingAssumption, Zenon
  <2> QED BY <2>1, <2>2 DEF ServingInv
<1>2. ServingNext
  BY DEF ServingNext
<1>3. CASE TimePasses
  <2>1. clock' \in Instants /\ clock < clock'
        /\ UNCHANGED <<graph, status, pending, engine, results, reading>>
    BY <1>3 DEF TimePasses
  <2>2. clock' \in Int
    <3>1. clock' \in Nat
      BY <2>1, ServingAssumption, Zenon
    <3> QED BY <3>1
  <2>3. clock <= clock'
    BY <1>1, <2>1, <2>2
  <2>4. ReadingInv'
    BY <1>2, <2>1, <2>2, <2>3, RefresherKeepsReading
  <2>5. \A book : Recorded(book) => Recorded(book)'
    <3> SUFFICES ASSUME NEW CONSTANT book, Recorded(book) PROVE Recorded(book)'
      OBVIOUS
    <3>1. IsSnapshot(book, Source) /\ book.built <= clock /\ Attests(book, status)
      BY DEF Recorded
    <3>2. book.built \in Int
      <4>1. book.built \in Instants
        BY <3>1 DEF IsSnapshot
      <4>2. book.built \in Nat
        BY <4>1, ServingAssumption, Zenon
      <4> QED BY <4>2
    <3>3. book.built <= clock'
      BY <1>1, <2>2, <2>3, <3>1, <3>2
    <3> QED BY <2>1, <3>1, <3>3 DEF Recorded
  <2> QED BY <1>1, <2>1, <2>4, <2>5 DEF ServingInv
<1>4. ASSUME NEW s \in Source, Apply(s) PROVE ServingInv'
  <2>1. /\ graph' \in Holdings
        /\ status' \in [Source -> [edges : Nat, lastOK : Int, failed : BOOLEAN]]
        /\ \A r \in Source : graph'[r] # {} => status'[r].edges > 0 /\ status'[r].lastOK # Never
        /\ IsSnapshot(pending', Source) /\ pending'.built = clock
        /\ Attests(pending', status')
        /\ UNCHANGED <<clock, engine, reading>>
    BY <1>4, ApplyDoes
  <2>2. Recorded(engine)'
    <3>1. IsSnapshot(engine, Source) /\ engine.built <= clock /\ Attests(engine, status)
      BY <1>1 DEF Recorded
    <3>2. \A p \in DOMAIN engine.pair : engine.pair[p].sources \subseteq Source
      BY <3>1 DEF IsSnapshot
    <3>3. Attests(engine, status')
      BY <1>1, <1>4, <3>1, <3>2, RecordsAreKept
    <3> QED BY <2>1, <3>1, <3>3 DEF Recorded
  <2>3. Recorded(pending)'
    BY <1>1, <2>1 DEF Recorded
  <2>4. ReadingInv'
    BY <1>1, <1>2, <1>4, <2>1, RefresherKeepsReading
  <2> QED BY <1>1, <2>1, <2>2, <2>3, <2>4 DEF ServingInv
<1>5. CASE Load
  <2>1. engine' = pending /\ pending' = None /\ Recorded(pending)
        /\ UNCHANGED <<clock, graph, status, results, reading>>
    BY <1>1, <1>5 DEF Load
  <2>2. ReadingInv'
    BY <1>1, <1>2, <2>1, RefresherKeepsReading
  <2>3. Recorded(engine)'
    BY <2>1 DEF Recorded
  <2> QED BY <1>1, <2>1, <2>2, <2>3 DEF ServingInv
<1> QED BY <1>3, <1>4, <1>5

\* A snapshot has no pair younger than itself.
LEMMA SnapshotsArePriced ==
  ASSUME NEW book, NEW S, IsSnapshot(book, S)
  PROVE  Priced(book)
<1>1. book.built \in Nat
  <2>1. book.built \in Instants
    BY DEF IsSnapshot
  <2> QED BY <2>1, ServingAssumption, Zenon
<1> QED BY <1>1 DEF IsSnapshot, Priced

\* The request reads on.
LEMMA ReadStep ==
  ASSUME ServingInv, Read
  PROVE  ServingInv'
<1>1. /\ clock \in Instants /\ clock \in Int
      /\ Recorded(engine)
      /\ ReadingInv
  <2>1. clock \in Instants
    BY DEF ServingInv
  <2>2. clock \in Nat
    BY <2>1, ServingAssumption, Zenon
  <2> QED BY <2>1, <2>2 DEF ServingInv
<1>2. IsSnapshot(engine, Source) /\ Attests(engine, status) /\ Priced(engine)
      /\ engine.built <= clock
  BY <1>1, SnapshotsArePriced DEF Recorded
<1>3. /\ reading.todo # <<>>
      /\ reading' = [ask |-> reading'.ask, todo |-> reading'.todo, base |-> reading'.base,
                     now |-> reading'.now, book |-> reading'.book, sources |-> reading'.sources,
                     table |-> reading'.table]
      /\ reading'.ask = reading.ask /\ reading'.table = reading.table
      /\ reading'.todo = Tail(reading.todo)
      /\ reading'.now = IF Head(reading.todo) = "now" THEN clock ELSE reading.now
      /\ reading'.book = IF Head(reading.todo) = "book" THEN engine ELSE reading.book
      /\ reading'.sources = IF Head(reading.todo) = "status" THEN status ELSE reading.sources
      /\ UNCHANGED <<clock, graph, status, pending, engine, results>>
  BY <1>1, ReadDoes DEF ReadingInv
<1>4. /\ reading.ask \in Asked /\ reading.now \in Int
      /\ DOMAIN reading.table = {}
  BY <1>1, <1>3 DEF ReadingInv
<1>5. reading.ask.method \in {"convert", "rates", "meta"}
  BY <1>4, ServingAssumption
<1>6. \A table, book, base, now : DOMAIN table = {} => TableIs(table, book, base, now)
  BY DEF TableIs
<1>7. reading'.now \in Int /\ DOMAIN reading'.table = {}
  BY <1>1, <1>3, <1>4
<1> DEFINE m == reading.ask.method
<1>8. CASE m = "meta"
  <2>1. reading.todo = <<"book", "status">> \/ reading.todo = <<"status">>
    BY <1>1, <1>3, <1>8 DEF ReadingInv, Progress
  <2>2. CASE reading.todo = <<"book", "status">>
    <3>1. reading'.todo = <<"status">> /\ reading'.book = engine
      BY <1>3, <2>2, Lists
    <3>2. Progress' /\ BookRead' /\ reading'.todo # <<>>
      BY <1>3, <1>8, <3>1, ListsDiffer DEF Progress, BookRead
    <3> QED BY <1>1, <1>2, <1>3, <1>4, <1>7, <1>8, <3>1, <3>2 DEF ReadingInv, ServingInv, Recorded
  <2>3. CASE reading.todo = <<"status">>
    <3>1. reading'.todo = <<>> /\ reading'.book = reading.book /\ reading'.sources = status
      BY <1>3, <2>3, Lists
    <3>2. Progress' /\ BookRead
      BY <1>3, <1>8, <2>3, <3>1, ListsDiffer DEF Progress, BookRead
    <3>3. /\ IsSnapshot(reading.book, Source) /\ Attests(reading.book, status)
          /\ Priced(reading.book) /\ reading.book.built <= clock
      BY <1>1, <1>3, <1>8, <3>2 DEF ReadingInv
    <3> QED BY <1>1, <1>3, <1>4, <1>7, <1>8, <3>1, <3>2, <3>3 DEF ReadingInv, ServingInv, Recorded
  <2> QED BY <2>1, <2>2, <2>3
<1>9. CASE m = "rates"
  <2>1. reading.todo = <<"book", "now">> \/ reading.todo = <<"now">>
    BY <1>1, <1>3, <1>9 DEF ReadingInv, Progress
  <2>2. CASE reading.todo = <<"book", "now">>
    <3>1. reading'.todo = <<"now">> /\ reading'.book = engine
      BY <1>3, <2>2, Lists
    <3>2. Progress' /\ BookRead' /\ reading'.todo # <<>>
      BY <1>3, <1>9, <3>1, ListsDiffer DEF Progress, BookRead
    <3> QED BY <1>1, <1>2, <1>3, <1>4, <1>7, <1>9, <3>1, <3>2 DEF ReadingInv, ServingInv, Recorded
  <2>3. CASE reading.todo = <<"now">>
    <3>1. reading'.todo = <<>> /\ reading'.book = reading.book /\ reading'.now = clock
      BY <1>3, <2>3, Lists
    <3>2. Progress' /\ BookRead
      BY <1>3, <1>9, <2>3, <3>1, ListsDiffer DEF Progress, BookRead
    <3>3. Priced(reading.book) /\ reading.book.built <= clock
      BY <1>1, <1>3, <1>9, <3>2 DEF ReadingInv
    <3>4. TableIs(reading'.table, reading'.book, OrDefault(reading'.base), reading'.now)
      BY <1>6, <1>7
    <3> QED BY <1>1, <1>3, <1>4, <1>7, <1>9, <3>1, <3>2, <3>3, <3>4
            DEF ReadingInv, ServingInv, Recorded
  <2> QED BY <2>1, <2>2, <2>3
<1>10. CASE m = "convert"
  <2>1. \/ reading.todo = <<"now", "book">> \/ reading.todo = <<"book">>
        \/ reading.todo = <<"book", "now">> \/ reading.todo = <<"now">>
    BY <1>1, <1>3, <1>10 DEF ReadingInv, Progress
  <2>2. CASE reading.todo = <<"now", "book">>
    <3>1. reading'.todo = <<"book">>
      BY <1>3, <2>2, Lists
    <3>2. Progress' /\ ~BookRead' /\ reading'.todo # <<>>
      BY <1>3, <1>10, <3>1, ListsDiffer DEF Progress, BookRead
    <3> QED BY <1>1, <1>2, <1>3, <1>4, <1>7, <1>10, <3>1, <3>2 DEF ReadingInv, ServingInv, Recorded
  <2>3. CASE reading.todo = <<"book">> \/ reading.todo = <<"book", "now">>
    <3>1. (reading'.todo = <<>> \/ reading'.todo = <<"now">>) /\ reading'.book = engine
      BY <1>3, <2>3, Lists
    <3>2. Progress'
      BY <1>3, <1>10, <3>1 DEF Progress
    <3> QED BY <1>1, <1>2, <1>3, <1>4, <1>7, <1>10, <3>1, <3>2 DEF ReadingInv, ServingInv, Recorded
  <2>4. CASE reading.todo = <<"now">>
    <3>1. reading'.todo = <<>> /\ reading'.book = reading.book
      BY <1>3, <2>4, Lists
    <3>2. Progress' /\ BookRead
      BY <1>3, <1>10, <2>4, <3>1 DEF Progress, BookRead
    <3>3. /\ IsSnapshot(reading.book, Source)
          /\ Priced(reading.book) /\ reading.book.built <= clock
      BY <1>1, <1>3, <1>10, <3>2 DEF ReadingInv
    <3> QED BY <1>1, <1>3, <1>4, <1>7, <1>10, <3>1, <3>2, <3>3 DEF ReadingInv, ServingInv, Recorded
  <2> QED BY <2>1, <2>2, <2>3, <2>4
<1> QED BY <1>5, <1>8, <1>9, <1>10

\* A rate of the table is described.
LEMMA DescribeStep ==
  ASSUME ServingInv, DescribeOne
  PROVE  ServingInv'
<1> DEFINE base == OrDefault(reading.base)   book == reading.book   now == reading.now
<1>1. PICK c \in Wanted :
        LET d == Describe(book, base, c, 1, now) IN
        IF d.error # "none" THEN reading' = [reading EXCEPT !.book.currencies = @ \ {c}]
        ELSE reading' = [reading EXCEPT !.table =
               [x \in DOMAIN @ \cup {c} |-> IF x = c THEN ViewOf(d, now) ELSE @[x]]]
  BY Zenon DEF DescribeOne, Using
<1>2. UNCHANGED <<clock, graph, status, pending, engine, results>>
  BY DEF DescribeOne
<1>3. /\ reading.ask.method = "rates" /\ reading.todo = <<>>
      /\ c \in Rebase(book, base) /\ c \notin DOMAIN reading.table
  BY <1>1 DEF Wanted
<1>4. /\ ReadingInv /\ BookRead
      /\ reading = [ask |-> reading.ask, todo |-> reading.todo, base |-> reading.base,
                    now |-> reading.now, book |-> reading.book, sources |-> reading.sources,
                    table |-> reading.table]
      /\ reading.ask \in Asked /\ now \in Int
      /\ Progress
      /\ Priced(book) /\ book.built <= clock /\ book.built <= now
      /\ TableIs(reading.table, book, base, now)
  BY <1>3 DEF ServingInv, ReadingInv, BookRead
<1> DEFINE d == Describe(book, base, c, 1, now)
<1>5. CASE d.error # "none"
  <2> DEFINE s == book.currencies \ {c}
             k == [built |-> book.built, currencies |-> s, pair |-> book.pair, direct |-> book.direct]
  <2>1. reading' = [reading EXCEPT !.book.currencies = s]
    BY <1>1, <1>5
  <2>2. book = [built |-> book.built, currencies |-> book.currencies,
                pair |-> book.pair, direct |-> book.direct]
    BY <1>4 DEF Priced
  <2>3. reading' = [ask |-> reading.ask, todo |-> reading.todo, base |-> reading.base,
                    now |-> reading.now, book |-> k, sources |-> reading.sources,
                    table |-> reading.table]
    <3> HIDE DEF s
    <3> QED BY <1>4, <2>1, <2>2, BookBecomes
  <2>4. k.built = book.built /\ k.pair = book.pair /\ k.direct = book.direct /\ k.currencies = s
    OBVIOUS
  <2> HIDE DEF k
  <2>5. k = [built |-> k.built, currencies |-> k.currencies, pair |-> k.pair, direct |-> k.direct]
    BY <2>4 DEF k
  <2>6. Priced(k)
    BY <1>4, <2>4, <2>5 DEF Priced
  <2>7. /\ \A f, t, amount, at : Describe(k, f, t, amount, at) = Describe(book, f, t, amount, at)
        /\ \A a, b : Reachable(k, a, b) <=> Reachable(book, a, b)
    BY <2>4, SameDescription
  <2>8. \A x \in DOMAIN reading.table : x \in Rebase(k, base)
    BY <1>3, <1>4, <2>4, <2>7 DEF TableIs, Rebase
  <2>9. TableIs(reading.table, k, base, now)
    BY <1>4, <2>7, <2>8 DEF TableIs
  <2>10. /\ reading'.ask = reading.ask /\ reading'.todo = reading.todo /\ reading'.base = reading.base
         /\ reading'.now = reading.now /\ reading'.book = k /\ reading'.sources = reading.sources
         /\ reading'.table = reading.table
    BY <2>3
  <2>11. reading' = [ask |-> reading'.ask, todo |-> reading'.todo, base |-> reading'.base,
                     now |-> reading'.now, book |-> reading'.book, sources |-> reading'.sources,
                     table |-> reading'.table]
    BY <2>3, <2>10
  <2>12. Progress'
    BY <1>4, <2>10 DEF Progress
  <2>13. ReadingInv'
    BY <1>2, <1>3, <1>4, <2>4, <2>6, <2>9, <2>10, <2>11, <2>12 DEF ReadingInv
  <2> QED BY <1>2, <2>13 DEF ServingInv, Recorded
<1>6. CASE d.error = "none"
  <2> DEFINE old == reading.table
             more == [x \in DOMAIN old \cup {c} |-> IF x = c THEN ViewOf(d, now) ELSE old[x]]
  <2>1. reading' = [reading EXCEPT !.table = more]
    BY <1>1, <1>6
  <2>2. TableIs(more, book, base, now)
    <3> SUFFICES ASSUME NEW x \in DOMAIN old \cup {c}
                 PROVE  /\ x \in Rebase(book, base)
                        /\ Describe(book, base, x, 1, now).error = "none"
                        /\ more[x] = ViewOf(Describe(book, base, x, 1, now), now)
      BY DEF TableIs
    <3>1. CASE x = c
      BY <1>3, <1>6, <3>1
    <3>2. CASE x # c
      BY <1>4, <3>2 DEF TableIs
    <3> QED BY <3>1, <3>2
  <2> HIDE DEF more
  <2>3. reading' = [ask |-> reading.ask, todo |-> reading.todo, base |-> reading.base,
                    now |-> reading.now, book |-> reading.book, sources |-> reading.sources,
                    table |-> more]
    BY <1>4, <2>1, TableBecomes
  <2>4. /\ reading'.ask = reading.ask /\ reading'.todo = reading.todo /\ reading'.base = reading.base
        /\ reading'.now = reading.now /\ reading'.book = reading.book
        /\ reading'.sources = reading.sources /\ reading'.table = more
    BY <2>3
  <2>5. reading' = [ask |-> reading'.ask, todo |-> reading'.todo, base |-> reading'.base,
                    now |-> reading'.now, book |-> reading'.book, sources |-> reading'.sources,
                    table |-> reading'.table]
    BY <2>3, <2>4
  <2>6. Progress'
    BY <1>4, <2>4 DEF Progress
  <2>7. ReadingInv'
    BY <1>2, <1>3, <1>4, <2>2, <2>4, <2>5, <2>6 DEF ReadingInv
  <2> QED BY <1>2, <2>7 DEF ServingInv, Recorded
<1> QED BY <1>5, <1>6

\* Every step keeps ServingInv.
LEMMA ServingPreserved == ServingInv /\ [ServingNext]_servingVars => ServingInv'
<1> SUFFICES ASSUME ServingInv, [ServingNext]_servingVars PROVE ServingInv'
  OBVIOUS
<1>1. CASE UNCHANGED servingVars
  <2>1. /\ clock' = clock /\ graph' = graph /\ status' = status /\ pending' = pending
        /\ engine' = engine /\ results' = results /\ reading' = reading
    BY <1>1 DEF servingVars
  <2>2. ReadingInv'
    BY <2>1 DEF ServingInv, ReadingInv, Progress, BookRead
  <2>3. Recorded(engine)' /\ (pending = None \/ Recorded(pending))'
    BY <2>1 DEF ServingInv, Recorded
  <2> QED BY <2>1, <2>2, <2>3 DEF ServingInv
<1>2. CASE TimePasses \/ (\E s \in Source : Apply(s)) \/ Load
  BY <1>2, RefresherStep
<1>3. CASE Read
  BY <1>3, ReadStep
<1>4. CASE DescribeOne
  BY <1>4, DescribeStep
<1> QED BY <1>1, <1>2, <1>3, <1>4 DEF ServingNext

\* It holds when a request comes in, before anything has been fetched.
LEMMA InitServingInv == ServingInit => ServingInv
<1> SUFFICES ASSUME ServingInit PROVE ServingInv
  OBVIOUS
<1>1. 0 \in Instants /\ 0 \in Int
  BY Numbers
<1>2. PICK q \in Asked : reading = [ask |-> q, todo |-> Plan(q), base |-> "", now |-> Never,
                                    book |-> None, sources |-> <<>>, table |-> <<>>]
  BY DEF ServingInit
<1>3. /\ clock = 0 /\ pending = None /\ engine = EmptyBook
      /\ graph = [s \in Source |-> {}]
      /\ status = [s \in Source |-> [edges |-> 0, lastOK |-> Never, failed |-> FALSE]]
  BY DEF ServingInit
<1>4. graph \in Holdings
  <2>1. \A s \in Source : {} \in Held(s)
    BY DEF Held
  <2> QED BY <1>3, <2>1 DEF Holdings
<1>5. Never \in Int
  BY DEF Never
<1>6. status \in [Source -> [edges : Nat, lastOK : Int, failed : BOOLEAN]]
  BY <1>3, <1>5
<1>7. Recorded(engine)
  <2>1. /\ EmptyBook.built = 0 /\ EmptyBook.currencies = {}
        /\ DOMAIN EmptyBook.pair = {} /\ DOMAIN EmptyBook.direct = {}
        /\ EmptyBook = [built |-> EmptyBook.built, currencies |-> EmptyBook.currencies,
                        pair |-> EmptyBook.pair, direct |-> EmptyBook.direct]
    BY DEF EmptyBook
  <2>2. IsSnapshot(EmptyBook, Source)
    BY <1>1, <2>1 DEF IsSnapshot
  <2>3. Attests(EmptyBook, status)
    BY <2>1 DEF Attests
  <2> QED BY <1>3, <2>1, <2>2, <2>3 DEF Recorded
<1>8. /\ reading.ask = q /\ reading.todo = Plan(q) /\ reading.base = "" /\ reading.now = Never
      /\ reading.book = None /\ reading.sources = <<>> /\ reading.table = <<>>
  BY <1>2
<1>9. reading = [ask |-> reading.ask, todo |-> reading.todo, base |-> reading.base,
                 now |-> reading.now, book |-> reading.book, sources |-> reading.sources,
                 table |-> reading.table]
  BY <1>2, <1>8
<1>10. q.method \in {"convert", "rates", "meta"}
  BY ServingAssumption
<1>11. Plan(q) \in {<<"book", "status">>, <<"now", "book">>, <<"book", "now">>}
       /\ (q.method = "meta" => Plan(q) = <<"book", "status">>)
       /\ (q.method = "rates" => Plan(q) = <<"book", "now">>)
       /\ (q.method = "convert" => Plan(q) \in {<<"now", "book">>, <<"book", "now">>})
  BY DEF Plan
<1>12. Progress
  BY <1>8, <1>10, <1>11 DEF Progress
<1>13. ~BookRead /\ reading.todo # <<>>
  BY <1>8, <1>11, ListsDiffer DEF BookRead
<1>14. DOMAIN reading.table = {}
  <2>1. DOMAIN <<>> = {}
    OBVIOUS
  <2> QED BY <1>8, <2>1, Zenon
<1>15. ReadingInv
  BY <1>2, <1>5, <1>8, <1>9, <1>12, <1>13, <1>14 DEF ReadingInv
<1> QED BY <1>1, <1>3, <1>4, <1>6, <1>7, <1>15 DEF ServingInv

\* Nothing but the clock moves after use.
LEMMA RestingStays == Resting /\ [ServingNext]_servingVars => Resting'
<1> SUFFICES ASSUME Resting, [ServingNext]_servingVars PROVE Resting'
  OBVIOUS
<1>1. /\ reading.ask = [method |-> "none"] /\ reading.todo = <<>>
      /\ reading.ask.method = "none" /\ pending = None /\ results = MaxResults
  BY DEF Resting
<1>2. CASE TimePasses
  BY <1>2 DEF TimePasses, Resting
<1>3. CASE \E s \in Source : Apply(s)
  BY <1>1, <1>3, Numbers DEF Apply
<1>4. CASE Load
  BY <1>1, <1>4 DEF Load
<1>5. CASE Read
  BY <1>1, <1>5 DEF Read
<1>6. CASE DescribeOne
  BY <1>1, <1>6 DEF DescribeOne, Wanted
<1>7. CASE UNCHANGED servingVars
  BY <1>7 DEF servingVars, Resting
<1> QED BY <1>2, <1>3, <1>4, <1>5, <1>6, <1>7 DEF ServingNext

\* What a description without an error says of its pair.
LEMMA DescribedIs ==
  ASSUME NEW book, NEW f, NEW t, NEW amount, NEW now,
         Describe(book, f, t, amount, now).error = "none"
  PROVE  LET d == Describe(book, f, t, amount, now)   p == Lookup(book, f, t) IN
         /\ d = [error   |-> "none", from |-> f, to |-> t,
                 amount  |-> amount, result |-> amount * p.rate,
                 rate    |-> p.rate, hops |-> p.hops, asOf |-> p.asOf,
                 age     |-> now - p.asOf, sources |-> p.sources,
                 quality |-> Assess(f, t, p, DirectQuotes(book, f, t), now),
                 legs    |-> p.legs, quotes |-> AgedAll(DirectQuotes(book, f, t), now)]
         /\ Reachable(book, f, t)
<1> DEFINE d == Describe(book, f, t, amount, now)   p == Lookup(book, f, t)
<1>1. /\ Refused("invalid amount").error = "invalid amount"
      /\ Refused("unknown pair").error = "unknown pair"
      /\ Refused("amount out of range").error = "amount out of range"
  BY DEF Refused
<1>2. /\ d # Refused("invalid amount") /\ d # Refused("unknown pair")
      /\ d # Refused("amount out of range")
  BY <1>1
<1>3. amount # Infinite /\ Reachable(book, f, t) /\ Representable(amount, p.rate)
  BY <1>2, Zenon DEF Describe
<1> QED BY <1>3, Zenon DEF Describe

\* A table that is complete is the library's.
LEMMA TablesAgree ==
  ASSUME ServingInv, Answered("rates")
  PROVE  LET lib == EngineRates(reading.book, reading.base) IN
         /\ RatesAnswer.error = lib.error
         /\ lib.error = "none" =>
              /\ DOMAIN RatesAnswer.rates = DOMAIN lib.rates
              /\ \A c \in DOMAIN lib.rates :
                   LET v == RatesAnswer.rates[c] IN
                   /\ v = ViewOf(Describe(reading.book, RatesAnswer.base, c, 1, reading.now), reading.now)
                   /\ v.rate = lib.rates[c].rate /\ v.asOf = lib.rates[c].asOf
                   /\ v.asOf <= RatesAnswer.builtAt
                   /\ v.age >= 0
<1> DEFINE base == OrDefault(reading.base)   book == reading.book   now == reading.now
           lib == EngineRates(reading.book, reading.base)
<1>1. reading.ask.method = "rates" /\ reading.todo = <<>> /\ Wanted = {}
  BY DEF Answered
<1>2. /\ now \in Int /\ Priced(book) /\ book.built <= now
      /\ TableIs(reading.table, book, base, now)
  BY <1>1 DEF ServingInv, ReadingInv, BookRead
<1>3. CASE BaseRefused(book, base)
  <2>1. lib = Refused("unknown base") /\ RatesAnswer = Refused("unknown base")
    BY <1>3, Zenon DEF EngineRates, RatesAnswer
  <2>2. Refused("unknown base").error = "unknown base"
    BY DEF Refused
  <2> QED BY <2>1, <2>2
<1>4. CASE ~BaseRefused(book, base)
  <2>1. /\ lib = [error |-> "none", rates |-> [c \in Rebase(book, base) |-> Lookup(book, base, c)]]
        /\ RatesAnswer = [error |-> "none", base |-> base, builtAt |-> book.built,
                          rates |-> reading.table]
    BY <1>4, Zenon DEF EngineRates, RatesAnswer
  <2>2. /\ lib.error = "none" /\ RatesAnswer.error = "none"
        /\ DOMAIN lib.rates = Rebase(book, base)
        /\ \A c \in Rebase(book, base) : lib.rates[c] = Lookup(book, base, c)
        /\ RatesAnswer.rates = reading.table /\ RatesAnswer.base = base
        /\ RatesAnswer.builtAt = book.built
    BY <2>1
  <2>3. Rebase(book, base) \ DOMAIN reading.table = {}
    BY <1>1, <1>4, Zenon DEF Wanted
  <2>4. DOMAIN reading.table = Rebase(book, base)
    BY <1>2, <2>3 DEF TableIs
  <2>5. ASSUME NEW c \in Rebase(book, base)
        PROVE  LET v == reading.table[c] IN
               /\ v = ViewOf(Describe(book, base, c, 1, now), now)
               /\ v.rate = Lookup(book, base, c).rate /\ v.asOf = Lookup(book, base, c).asOf
               /\ v.asOf <= book.built
               /\ v.age >= 0
    <3> DEFINE p == Lookup(book, base, c)
               d == Describe(book, base, c, 1, now)
    <3>1. d.error = "none" /\ reading.table[c] = ViewOf(d, now)
      BY <1>2, <2>4 DEF TableIs
    <3>2. d = [error   |-> "none", from |-> base, to |-> c,
               amount  |-> 1, result |-> 1 * p.rate,
               rate    |-> p.rate, hops |-> p.hops, asOf |-> p.asOf,
               age     |-> now - p.asOf, sources |-> p.sources,
               quality |-> Assess(base, c, p, DirectQuotes(book, base, c), now),
               legs    |-> p.legs, quotes |-> AgedAll(DirectQuotes(book, base, c), now)]
      BY <3>1, DescribedIs
    <3>3. d.rate = p.rate /\ d.asOf = p.asOf /\ d.age = now - p.asOf
      BY <3>2
    <3>4. base # c /\ <<base, c>> \in DOMAIN book.pair
      BY DEF Rebase, Reachable
    <3>5. p = book.pair[<<base, c>>]
      BY <3>4, Zenon DEF Lookup
    <3>6. p.asOf \in Int /\ p.asOf <= book.built /\ book.built \in Int
      BY <1>2, <3>4, <3>5 DEF Priced
    <3> HIDE DEF d, p
    <3>7. ViewOf(d, now).rate = d.rate /\ ViewOf(d, now).asOf = d.asOf /\ ViewOf(d, now).age = d.age
      BY DEF ViewOf
    <3>8. now - p.asOf >= 0
      BY <1>2, <3>6
    <3> QED BY <3>1, <3>3, <3>6, <3>7, <3>8 DEF d, p
  <2> QED BY <2>2, <2>4, <2>5, Zenon
<1> QED BY <1>3, <1>4

\* The sources listed beside the currencies are those they came from.
LEMMA MetaAgrees ==
  ASSUME ServingInv, Answered("meta")
  PROVE  /\ \A p \in DOMAIN reading.book.pair : \A s \in reading.book.pair[p].sources :
              LET st == MetaAnswer.sources[s] IN
              /\ st.lastOK # Never
              /\ st.edges > 0 \/ st.lastOK >= MetaAnswer.builtAt
         /\ ReadyCode = 200 <=> \E a, b \in MetaAnswer.currencies :
                                   a # b /\ Reachable(reading.book, a, b)
<1>1. reading.ask.method = "meta" /\ reading.todo = <<>>
  BY DEF Answered
<1>2. IsSnapshot(reading.book, Source) /\ Attests(reading.book, reading.sources)
  BY <1>1 DEF ServingInv, ReadingInv, BookRead
<1>3. /\ MetaAnswer.sources = reading.sources /\ MetaAnswer.builtAt = reading.book.built
      /\ MetaAnswer.currencies = reading.book.currencies
  BY DEF MetaAnswer
<1>4. ReadyCode = 200 <=> reading.book.currencies # {}
  <2>1. CASE reading.book.currencies = {}
    <3>1. ReadyCode = 503
      BY <2>1, Zenon DEF ReadyCode
    <3> QED BY <2>1, <3>1
  <2>2. CASE reading.book.currencies # {}
    BY <2>2, Zenon DEF ReadyCode
  <2> QED BY <2>1, <2>2
<1>5. reading.book.currencies # {} =>
        \E a, b \in reading.book.currencies : a # b /\ Reachable(reading.book, a, b)
  <2> SUFFICES ASSUME reading.book.currencies # {}
               PROVE  \E a, b \in reading.book.currencies : a # b /\ Reachable(reading.book, a, b)
    OBVIOUS
  <2>1. PICK p \in DOMAIN reading.book.pair : TRUE
    BY <1>2, Zenon DEF IsSnapshot
  <2>2. PICK a \in reading.book.currencies, b \in reading.book.currencies : a # b /\ p = <<a, b>>
    BY <1>2, <2>1, Zenon DEF IsSnapshot
  <2> QED BY <2>1, <2>2, Zenon DEF Reachable
<1> QED BY <1>2, <1>3, <1>4, <1>5 DEF Attests

\* Answers are of one moment.
LEMMA AnswersMatch == ServingInv \/ Resting => OneMomentPerAnswer
<1>1. ServingInv => OneMomentPerAnswer
  BY TablesAgree, MetaAgrees, Zenon DEF OneMomentPerAnswer
<1>2. Resting => OneMomentPerAnswer
  <2>1. Resting => reading.ask.method = "none"
    BY DEF Resting
  <2> QED BY <2>1 DEF OneMomentPerAnswer, Answered
<1> QED BY <1>1, <1>2

(***************************************************************************)
(* Grades.                                                                 *)
(***************************************************************************)
\* The natural numbers are well ordered.
LEMMA Least ==
  ASSUME NEW S, S \subseteq Nat, S # {}
  PROVE  \E n \in S : \A m \in S : n <= m
<1>1. PICK n \in S : \A m \in S : <<m, n>> \notin OpToRel(<, Nat)
  BY NatLessThanWellFounded, WFMin, Zenon
<1>2. \A m \in S : ~(m < n)
  BY <1>1 DEF OpToRel
<1> QED BY <1>2

\* A bounded set of natural numbers has ends.
LEMMA Ends ==
  ASSUME NEW M \in Nat, NEW S, S \subseteq 0..M, S # {}
  PROVE  /\ Max(S) \in S /\ \A v \in S : v <= Max(S)
         /\ Min(S) \in S /\ \A v \in S : Min(S) <= v
<1> DEFINE B == {n \in Nat : \E v \in S : n = M - v}
<1>1. \A v \in S : v \in Nat /\ v <= M
  OBVIOUS
<1>2. PICK lo \in S : \A n \in S : lo <= n
  <2>1. S \subseteq Nat
    OBVIOUS
  <2> QED BY <2>1, Least
<1>3. \A v \in S : M - v \in B
  BY <1>1
<1>4. PICK b \in B : \A n \in B : b <= n
  <2>1. B \subseteq Nat /\ B # {}
    BY <1>3
  <2> HIDE DEF B
  <2> QED BY <2>1, Least
<1>5. PICK hi \in S : b = M - hi
  BY <1>4
<1>6. ASSUME NEW v \in S PROVE v <= hi /\ hi >= v
  <2>1. b <= M - v
    BY <1>3, <1>4
  <2> QED BY <1>1, <1>5, <2>1
<1>7. Max(S) \in S /\ \A v \in S : Max(S) >= v
  BY <1>5, <1>6 DEF Max
<1>8. Min(S) \in S /\ \A v \in S : Min(S) <= v
  BY <1>2 DEF Min
<1> QED BY <1>1, <1>7, <1>8

\* Of n ends in order, x has passed the first k.
InBand(x, ends, n, k) ==
  /\ n \in Nat /\ k \in 0..n
  /\ DOMAIN ends = 1..n
  /\ \A i \in 1..n : ends[i] <= x <=> i <= k

\* Then Band is the factor after the k-th.
LEMMA BandIs ==
  ASSUME NEW x, NEW ends, NEW factors, NEW n, NEW k, InBand(x, ends, n, k)
  PROVE  Band(x, ends, factors) = factors[k + 1]
<1>1. {i \in DOMAIN ends : ends[i] <= x} = 1..k
  BY DEF InBand
<1>2. Cardinality(1..k) = k
  BY FS_Interval DEF InBand
<1> QED BY <1>1, <1>2 DEF Band

\* The factors a grade is the product of: a rate of five minutes is not as good as
\* new, and one of 26 hours has 72 at most.
LEMMA FreshnessIs ==
  ASSUME NEW age \in Int
  PROVE  /\ Freshness(age) \in 0..100
         /\ ~(age < 5) => Freshness(age) <= 90
         /\ ~(age < 26 * 60) => Freshness(age) <= 72
<1> DEFINE ends == <<5, 26 * 60, 4 * 24 * 60>>   factors == <<100, 90, 72, 45>>
<1>1. DOMAIN ends = 1..3 /\ ends[1] = 5 /\ ends[2] = 1560 /\ ends[3] = 5760
  OBVIOUS
<1>2. factors[1] = 100 /\ factors[2] = 90 /\ factors[3] = 72 /\ factors[4] = 45
  OBVIOUS
<1>3. Freshness(age) = Band(age, ends, factors)
  BY DEF Freshness
<1> HIDE DEF ends, factors
<1>4. CASE age < 5
  <2>1. InBand(age, ends, 3, 0)
    BY <1>1, <1>4 DEF InBand
  <2>2. Band(age, ends, factors) = factors[0 + 1]
    BY <2>1, BandIs
  <2> QED BY <1>2, <1>3, <1>4, <2>2
<1>5. CASE age \in 5..1559
  <2>1. InBand(age, ends, 3, 1)
    BY <1>1, <1>5 DEF InBand
  <2>2. Band(age, ends, factors) = factors[1 + 1]
    BY <2>1, BandIs
  <2> QED BY <1>2, <1>3, <1>5, <2>2
<1>6. CASE age \in 1560..5759
  <2> DEFINE e1 == ends[1]   e2 == ends[2]   e3 == ends[3]
  <2>1. e1 <= age /\ e2 <= age /\ ~(e3 <= age)
    BY <1>1, <1>6
  <2>11. \A i \in 1..3 : ends[i] <= age <=> i <= 2
    <3> SUFFICES ASSUME NEW i \in 1..3 PROVE ends[i] <= age <=> i <= 2
      OBVIOUS
    <3>1. CASE i = 1
      BY <2>1, <3>1
    <3>2. CASE i = 2
      BY <2>1, <3>2
    <3>3. CASE i = 3
      BY <2>1, <3>3
    <3> QED BY <3>1, <3>2, <3>3
  <2>2. InBand(age, ends, 3, 2)
    BY <1>1, <2>11 DEF InBand
  <2>3. Band(age, ends, factors) = factors[2 + 1]
    BY <2>2, BandIs
  <2> QED BY <1>2, <1>3, <1>6, <2>3
<1>7. CASE age > 5759
  <2>1. InBand(age, ends, 3, 3)
    BY <1>1, <1>7 DEF InBand
  <2>2. Band(age, ends, factors) = factors[3 + 1]
    BY <2>1, BandIs
  <2> QED BY <1>2, <1>3, <1>7, <2>2
<1> QED BY <1>4, <1>5, <1>6, <1>7

\* A cross has 18 twentieths at most, and one of more hops 15.
LEMMA DirectnessIs ==
  ASSUME NEW hops \in Int
  PROVE  /\ Directness(hops) \in 0..20
         /\ ~(hops <= 1) => Directness(hops) <= 18
         /\ ~(hops <= 2) => Directness(hops) <= 15
<1> DEFINE ends == <<2, 3>>   factors == <<20, 18, 15>>
<1>1. DOMAIN ends = 1..2 /\ ends[1] = 2 /\ ends[2] = 3
  OBVIOUS
<1>2. factors[1] = 20 /\ factors[2] = 18 /\ factors[3] = 15
  OBVIOUS
<1>3. Directness(hops) = Band(hops, ends, factors)
  BY DEF Directness
<1> HIDE DEF ends, factors
<1>4. CASE hops <= 1
  <2>1. InBand(hops, ends, 2, 0)
    BY <1>1, <1>4 DEF InBand
  <2>2. Band(hops, ends, factors) = factors[0 + 1]
    BY <2>1, BandIs
  <2> QED BY <1>2, <1>3, <1>4, <2>2
<1>5. CASE hops = 2
  <2>1. InBand(hops, ends, 2, 1)
    BY <1>1, <1>5 DEF InBand
  <2>2. Band(hops, ends, factors) = factors[1 + 1]
    BY <2>1, BandIs
  <2> QED BY <1>2, <1>3, <1>5, <2>2
<1>6. CASE hops > 2
  <2>1. InBand(hops, ends, 2, 2)
    BY <1>1, <1>6 DEF InBand
  <2>2. Band(hops, ends, factors) = factors[2 + 1]
    BY <2>1, BandIs
  <2> QED BY <1>2, <1>3, <1>6, <2>2
<1> QED BY <1>4, <1>5, <1>6

\* A source that is unofficial or unknown, or no source at all, is 85 at most.
LEMMA SourceClassIs ==
  ASSUME NEW sources
  PROVE  /\ SourceClass(sources) \in 0..100
         /\ sources = {} => SourceClass(sources) <= 85
         /\ \A s \in sources : ~(RankOf(s) >= 2) => SourceClass(sources) <= 85
<1> DEFINE ranks == {RankOf(s) : s \in sources}
           m == Min(ranks)
           factors == <<80, 70, 92, 96, 100>>
<1>1. CASE sources = {}
  <2>1. SourceClass(sources) = 85
    BY <1>1 DEF SourceClass
  <2> QED BY <1>1, <2>1
<1>2. CASE sources # {}
  <2>1. \A s : RankOf(s) \in 0..4
    <3>1. \A s \in DOMAIN SourceRank : SourceRank[s] \in 0..4
      BY QualityAssumption
    <3> QED BY <3>1 DEF RankOf
  <2>2. ranks \subseteq 0..4 /\ ranks # {} /\ \A s \in sources : RankOf(s) \in ranks
    BY <1>2, <2>1
  <2>3. SourceClass(sources) = factors[m + 1]
    BY <1>2 DEF SourceClass
  <2> HIDE DEF ranks
  <2>4. m \in ranks /\ \A v \in ranks : m <= v
    BY <2>2, Ends
  <2> HIDE DEF m
  <2>5. m \in {0, 1, 2, 3, 4}
    BY <2>2, <2>4
  <2>6. factors[1] = 80 /\ factors[2] = 70 /\ factors[3] = 92 /\ factors[4] = 96 /\ factors[5] = 100
    OBVIOUS
  <2> HIDE DEF factors
  <2>7. /\ SourceClass(sources) \in 0..100
        /\ ~(m >= 2) => SourceClass(sources) <= 85
    BY <2>3, <2>5, <2>6
  <2>8. ASSUME NEW s \in sources, ~(RankOf(s) >= 2) PROVE ~(m >= 2)
    BY <2>1, <2>2, <2>4, <2>5, <2>8
  <2> QED BY <1>2, <2>7, <2>8
<1> QED BY <1>1, <1>2

\* A caveat takes three tenths at least.
LEMMA CaveatIs ==
  ASSUME NEW c
  PROVE  /\ Caveat(c) \in 0..10
         /\ c \in Defunct \cup Managed => Caveat(c) <= 7
<1>1. CASE c \in Defunct
  <2>1. Caveat(c) = 2
    BY <1>1, Zenon DEF Caveat
  <2> QED BY <2>1
<1>2. CASE c \notin Defunct /\ c \in Managed
  <2>1. Caveat(c) = 7
    BY <1>2, Zenon DEF Caveat
  <2> QED BY <2>1
<1>3. CASE c \notin Defunct /\ c \notin Managed
  <2>1. Caveat(c) = 10
    BY <1>3, Zenon DEF Caveat
  <2> QED BY <1>3, <2>1
<1> QED BY <1>1, <1>2, <1>3

\* Rates that are wider apart than 100 basis points have a factor of 85 at most, and
\* 93 when wider than 25.
LEMMA SpreadBandIs ==
  ASSUME NEW low \in Nat, NEW high \in Nat, low <= high
  PROVE  /\ SpreadBand(low, high).factor \in 0..100
         /\ WiderThan(25, low, high) => SpreadBand(low, high).factor <= 93
         /\ WiderThan(100, low, high) => SpreadBand(low, high).factor <= 85
<1> DEFINE passed == {b \in {25, 100, 300} : WiderThan(b, low, high)}
           factors == <<100, 93, 85, 72>>
<1>1. SpreadBand(low, high).factor = factors[Cardinality(passed) + 1]
  BY DEF SpreadBand
<1>2. /\ WiderThan(300, low, high) => WiderThan(100, low, high)
      /\ WiderThan(100, low, high) => WiderThan(25, low, high)
  BY DEF WiderThan
<1>3. factors[1] = 100 /\ factors[2] = 93 /\ factors[3] = 85 /\ factors[4] = 72
  OBVIOUS
<1> HIDE DEF factors
<1>4. /\ Cardinality({}) = 0 /\ IsFiniteSet({})
      /\ Cardinality({25}) = 1 /\ IsFiniteSet({25})
  BY FS_EmptySet, FS_Singleton, Zenon
<1>5. /\ Cardinality({25} \cup {100}) = 1 + 1 /\ IsFiniteSet({25} \cup {100})
  <2>1. 100 \notin {25}
    OBVIOUS
  <2> DEFINE S == {25}
  <2>2. IsFiniteSet(S) /\ Cardinality(S) = 1 /\ 100 \notin S
    BY <1>4, <2>1
  <2> HIDE DEF S
  <2>3. Cardinality(S \cup {100}) = 1 + 1 /\ IsFiniteSet(S \cup {100})
    BY <2>2, FS_AddElement
  <2> QED BY <2>3 DEF S
<1>6. Cardinality(({25} \cup {100}) \cup {300}) = 2 + 1
  <2>1. 300 \notin {25} \cup {100}
    OBVIOUS
  <2> QED BY <1>5, <2>1, FS_AddElement
<1>7. CASE ~WiderThan(25, low, high)
  <2>1. passed = {}
    BY <1>2, <1>7
  <2> QED BY <1>1, <1>2, <1>3, <1>4, <1>7, <2>1
<1>8. CASE WiderThan(25, low, high) /\ ~WiderThan(100, low, high)
  <2>1. passed = {25}
    BY <1>2, <1>8
  <2> QED BY <1>1, <1>3, <1>4, <1>8, <2>1
<1>9. CASE WiderThan(100, low, high) /\ ~WiderThan(300, low, high)
  <2>1. passed = {25} \cup {100}
    BY <1>2, <1>9
  <2> QED BY <1>1, <1>3, <1>5, <1>9, <2>1
<1>10. CASE WiderThan(300, low, high)
  <2>1. passed = ({25} \cup {100}) \cup {300}
    BY <1>2, <1>10
  <2> QED BY <1>1, <1>3, <1>6, <1>10, <2>1
<1> QED BY <1>7, <1>8, <1>9, <1>10

\* Direct quotes as a snapshot has them.
Quotes(quotes, n) ==
    /\ n \in Nat /\ DOMAIN quotes = 1..n
    /\ \A i \in 1..n : Usable(quotes[i].rate) /\ quotes[i].rate \in Nat

\* The rates corroboration compares are those of the last quotes.
LEMMA SeenIs ==
  ASSUME NEW quotes, NEW n, Quotes(quotes, n)
  PROVE  /\ DOMAIN Seen(quotes) = QuotedBy(quotes)
         /\ {Seen(quotes)[s] : s \in DOMAIN Seen(quotes)} = LatestRates(quotes)
<1> DEFINE usable == {i \in DOMAIN quotes : Usable(quotes[i].rate)}
           of(s) == {i \in usable : quotes[i].source = s}
           last(s) == Max(of(s))
           seen == Seen(quotes)
<1>1. usable = 1..n /\ DOMAIN quotes = 1..n /\ n \in Nat
  BY DEF Quotes
<1>2. seen = [s \in {quotes[i].source : i \in usable} |-> quotes[last(s)].rate]
  BY DEF Seen
<1>3. DOMAIN seen = QuotedBy(quotes)
  BY <1>1, <1>2 DEF QuotedBy
<1>4. \A s \in QuotedBy(quotes) : seen[s] = quotes[last(s)].rate
  BY <1>1, <1>2 DEF QuotedBy
<1>5. ASSUME NEW s \in QuotedBy(quotes)
      PROVE  last(s) \in of(s) /\ \A i \in of(s) : last(s) >= i
  <2>1. of(s) \subseteq 0..n
    BY <1>1
  <2>2. of(s) # {}
    BY <1>1 DEF QuotedBy
  <2> DEFINE S == of(s)
  <2>3. Max(S) \in S /\ \A v \in S : v <= Max(S)
    <3> HIDE DEF S
    <3>1. S \subseteq 0..n /\ S # {} /\ n \in Nat
      BY <1>1, <2>1, <2>2 DEF S
    <3> QED BY <3>1, Ends
  <2> QED BY <1>1, <2>3
<1>6. ASSUME NEW s \in QuotedBy(quotes)
      PROVE  last(s) \in LatestQuotes(quotes) /\ quotes[last(s)].source = s
  BY <1>1, <1>5 DEF LatestQuotes
<1>7. ASSUME NEW i \in LatestQuotes(quotes)
      PROVE  quotes[i].source \in QuotedBy(quotes) /\ last(quotes[i].source) = i
  <2> DEFINE s == quotes[i].source   k == last(s)
  <2>1. s \in QuotedBy(quotes) /\ i \in of(s) /\ i \in 1..n
    BY <1>1 DEF LatestQuotes, QuotedBy
  <2>2. k \in 1..n /\ k >= i /\ quotes[k].source = s
    BY <1>1, <1>5, <2>1
  <2> HIDE DEF k
  <2>3. k <= i
    BY <1>1, <2>2 DEF LatestQuotes
  <2> QED BY <2>1, <2>2, <2>3 DEF k
<1> HIDE DEF seen, last
<1>8. \A s \in QuotedBy(quotes) : seen[s] \in LatestRates(quotes)
  BY <1>4, <1>6 DEF LatestRates
<1>9. \A r \in LatestRates(quotes) : \E s \in QuotedBy(quotes) : r = seen[s]
  BY <1>4, <1>7 DEF LatestRates
<1> QED BY <1>3, <1>8, <1>9 DEF seen

\* They are usable rates, of finitely many sources.
LEMMA LastRatesAre ==
  ASSUME NEW quotes, NEW n, Quotes(quotes, n)
  PROVE  /\ LatestRates(quotes) \subseteq 0..MaxRate
         /\ Cardinality(QuotedBy(quotes)) \in Nat
         /\ Cardinality(QuotedBy(quotes)) = 0 <=> LatestRates(quotes) = {}
<1>1. n \in Nat /\ DOMAIN quotes = 1..n
  BY DEF Quotes
<1>2. LatestRates(quotes) \subseteq 0..MaxRate
  <2> SUFFICES ASSUME NEW i \in LatestQuotes(quotes) PROVE quotes[i].rate \in 0..MaxRate
    BY DEF LatestRates
  <2>1. i \in 1..n
    BY <1>1 DEF LatestQuotes
  <2> QED BY <2>1, QualityAssumption DEF Quotes, Usable
<1>3. IsFiniteSet(QuotedBy(quotes))
  <2> DEFINE S == 1..n   T == QuotedBy(quotes)   f == [i \in S |-> quotes[i].source]
  <2>1. IsFiniteSet(S)
    BY <1>1, FS_Interval
  <2>2. f \in Surjection(S, T)
    BY <1>1 DEF Surjection, QuotedBy
  <2> HIDE DEF f, S, T
  <2>3. IsFiniteSet(T)
    BY <2>1, <2>2, FS_Surjection
  <2> QED BY <2>3 DEF T
<1>4. Cardinality(QuotedBy(quotes)) \in Nat
      /\ (Cardinality(QuotedBy(quotes)) = 0 <=> QuotedBy(quotes) = {})
  BY <1>3, FS_CardinalityType, FS_EmptySet
<1>5. QuotedBy(quotes) = {} <=> LatestRates(quotes) = {}
  <2>1. ASSUME QuotedBy(quotes) = {} PROVE LatestRates(quotes) = {}
    BY <2>1 DEF QuotedBy, LatestRates, LatestQuotes
  <2>2. ASSUME NEW s \in QuotedBy(quotes) PROVE LatestRates(quotes) # {}
    <3>1. s \in DOMAIN Seen(quotes)
      BY SeenIs
    <3> QED BY <3>1, SeenIs
  <2> QED BY <2>1, <2>2
<1> QED BY <1>2, <1>4, <1>5

\* Corroboration is worth 88 at most when a source is alone, and more than 85 or 93
\* only if the quotes that count are within 100 or 25 basis points.
LEMMA CorroborateIs ==
  ASSUME NEW quotes, NEW n, Quotes(quotes, n)
  PROVE  LET c == Corroborate(quotes).factor IN
         /\ c \in 0..100
         /\ Cardinality(QuotedBy(quotes)) = 1 => c <= 88
         /\ c > 88 => Within(100, LatestRates(quotes))
         /\ c > 93 => Within(25, LatestRates(quotes))
<1> DEFINE c == Corroborate(quotes).factor
           rates == LatestRates(quotes)
           m == Cardinality(QuotedBy(quotes))
           low == Min(rates)   high == Max(rates)
<1>1. Corroborate(quotes) =
        CASE m = 0 -> [sources |-> 0, agree |-> TRUE, factor |-> 100]
          [] m = 1 -> Alone
          [] m > 1 -> [sources |-> m, agree |-> SpreadBand(low, high).agree,
                       factor |-> SpreadBand(low, high).factor]
  BY SeenIs, Zenon DEF Corroborate
<1>2. rates \subseteq 0..MaxRate /\ m \in Nat /\ (m = 0 <=> rates = {})
  BY LastRatesAre
<1> HIDE DEF rates, m
<1>3. CASE m = 0
  <2>1. Corroborate(quotes) = [sources |-> 0, agree |-> TRUE, factor |-> 100]
    BY <1>1, <1>3
  <2>2. c = 100
    BY <2>1
  <2> QED BY <1>2, <1>3, <2>2 DEF Within, m, rates
<1>4. CASE m = 1
  <2>1. Corroborate(quotes) = Alone
    BY <1>1, <1>4
  <2>2. c = 88
    BY <2>1 DEF Alone
  <2> QED BY <2>2
<1>5. CASE m > 1
  <2>1. /\ low \in Nat /\ high \in Nat /\ low <= high
        /\ \A x \in rates : x \in Nat /\ low <= x /\ x <= high
    <3>1. rates # {} /\ MaxRate \in Nat
      BY <1>2, <1>5, QualityAssumption
    <3>2. high \in rates /\ low \in rates /\ \A v \in rates : low <= v /\ v <= high
      BY <1>2, <3>1, Ends
    <3> HIDE DEF low, high
    <3> QED BY <1>2, <3>1, <3>2
  <2>2. c = SpreadBand(low, high).factor
    <3>1. ~(m = 0) /\ ~(m = 1)
      BY <1>2, <1>5
    <3> DEFINE r == [sources |-> m, agree |-> SpreadBand(low, high).agree,
                     factor |-> SpreadBand(low, high).factor]
    <3>2. Corroborate(quotes) = r
      BY <1>1, <1>5, <3>1
    <3> QED BY <3>2
  <2> HIDE DEF low, high, c
  <2>3. /\ c \in 0..100
        /\ WiderThan(25, low, high) => c <= 93
        /\ WiderThan(100, low, high) => c <= 85
    BY <2>1, <2>2, SpreadBandIs
  <2>4. ~WiderThan(100, low, high) => Within(100, rates)
    BY <2>1 DEF WiderThan, Within
  <2>5. ~WiderThan(25, low, high) => Within(25, rates)
    BY <2>1 DEF WiderThan, Within
  <2> QED BY <1>5, <2>3, <2>4, <2>5 DEF m, rates, c
<1> QED BY <1>2, <1>3, <1>4, <1>5

\* Products of natural numbers grow with their factors.
LEMMA ProductGrows ==
  ASSUME NEW a \in Nat, NEW b \in Nat, NEW p \in Nat, NEW q \in Nat, a <= p, b <= q
  PROVE  a * b \in Nat /\ p * q \in Nat /\ a * b <= p * q
<1>1. a * b <= p * b
  OBVIOUS
<1>2. p * b <= p * q
  OBVIOUS
<1>3. a * b \in Nat /\ p * b \in Nat /\ p * q \in Nat
  OBVIOUS
<1> QED BY <1>1, <1>2, <1>3

Under(a, p) == a \in Nat /\ p \in Nat /\ a <= p

\* The same, in a product of products.
LEMMA UnderGrows ==
  ASSUME NEW a, NEW b, NEW p, NEW q, Under(a, p), Under(b, q)
  PROVE  Under(a * b, p * q)
BY ProductGrows DEF Under

\* A confidence of 0.895, before it is rounded, in units of 1 / 2*10^9.
EarnsA(x) == x >= 1790000000

\* Nothing less is graded A.
LEMMA GradeAIs ==
  ASSUME NEW x \in Nat, Grade(Round2(x)) = "A"
  PROVE  EarnsA(x)
<1> DEFINE c == Round2(x)
<1>1. c \in Int /\ (c >= 90 => EarnsA(x))
  BY SMT DEF Round2, EarnsA
<1> HIDE DEF c
<1>2. Grade(c) = "A" => c >= 90
  BY SMT DEF Grade
<1> QED BY <1>1, <1>2, SMT DEF c

\* What earns an A, earns it with greater factors.
LEMMA TooLow ==
  ASSUME NEW f, NEW d, NEW s, NEW c, NEW k, NEW l,
         NEW p, NEW q, NEW r, NEW t, NEW u, NEW v,
         Under(f, p), Under(d, q), Under(s, r), Under(c, t), Under(k, u), Under(l, v),
         EarnsA(f * d * s * c * k * l)
  PROVE  EarnsA(p * q * r * t * u * v)
<1> DEFINE x == f * d * s * c * k * l   y == p * q * r * t * u * v
<1>1. Under(f * d, p * q)
  BY UnderGrows
<1>2. Under(f * d * s, p * q * r)
  BY <1>1, UnderGrows
<1>3. Under(f * d * s * c, p * q * r * t)
  BY <1>2, UnderGrows
<1>4. Under(f * d * s * c * k, p * q * r * t * u)
  BY <1>3, UnderGrows
<1>5. Under(x, y)
  BY <1>4, UnderGrows
<1> HIDE DEF x, y
<1>6. EarnsA(x) => EarnsA(y)
  BY <1>5, SMT DEF EarnsA, Under
<1> QED BY <1>6 DEF x, y

\* The factors of a confidence.
Factors(f, d, s, c, k, l) ==
    /\ f \in 0..100 /\ d \in 0..20 /\ s \in 0..100 /\ c \in 0..100
    /\ k \in 0..10 /\ l \in 0..10

\* What an A takes of each of them.
LEMMA FactorsOfAnA ==
  ASSUME NEW f, NEW d, NEW s, NEW c, NEW k, NEW l,
         Factors(f, d, s, c, k, l), EarnsA(f * d * s * c * k * l)
  PROVE  /\ f > 72 /\ d > 15 /\ s > 85 /\ c > 88 /\ k > 7 /\ l > 7
         /\ c <= 93 => f > 90 /\ d > 18
<1>1. /\ f \in Nat /\ d \in Nat /\ s \in Nat /\ c \in Nat /\ k \in Nat /\ l \in Nat
  BY DEF Factors
<1> DEFINE full == 100   twenty == 20   ten == 10   wide == 93
<1>2. /\ Under(f, full) /\ Under(d, twenty) /\ Under(s, full) /\ Under(c, full)
      /\ Under(k, ten) /\ Under(l, ten) /\ (c <= 93 => Under(c, wide))
  BY DEF Factors, Under
<1> HIDE DEF full, twenty, ten, wide
<1>3. ASSUME f <= 72 PROVE FALSE
  <2> DEFINE low == 72
  <2>1. Under(f, low)
    BY <1>1, <1>3 DEF Under
  <2> HIDE DEF low
  <2>2. EarnsA(low * twenty * full * full * ten * ten)
    BY <1>2, <2>1, TooLow
  <2> QED BY <2>2, SMT DEF EarnsA, full, twenty, ten, low
<1>4. ASSUME d <= 15 PROVE FALSE
  <2> DEFINE low == 15
  <2>1. Under(d, low)
    BY <1>1, <1>4 DEF Under
  <2> HIDE DEF low
  <2>2. EarnsA(full * low * full * full * ten * ten)
    BY <1>2, <2>1, TooLow
  <2> QED BY <2>2, SMT DEF EarnsA, full, ten, low
<1>5. ASSUME s <= 85 PROVE FALSE
  <2> DEFINE low == 85
  <2>1. Under(s, low)
    BY <1>1, <1>5 DEF Under
  <2> HIDE DEF low
  <2>2. EarnsA(full * twenty * low * full * ten * ten)
    BY <1>2, <2>1, TooLow
  <2> QED BY <2>2, SMT DEF EarnsA, full, twenty, ten, low
<1>6. ASSUME c <= 88 PROVE FALSE
  <2> DEFINE low == 88
  <2>1. Under(c, low)
    BY <1>1, <1>6 DEF Under
  <2> HIDE DEF low
  <2>2. EarnsA(full * twenty * full * low * ten * ten)
    BY <1>2, <2>1, TooLow
  <2> QED BY <2>2, SMT DEF EarnsA, full, twenty, ten, low
<1>7. ASSUME k <= 7 PROVE FALSE
  <2> DEFINE low == 7
  <2>1. Under(k, low)
    BY <1>1, <1>7 DEF Under
  <2> HIDE DEF low
  <2>2. EarnsA(full * twenty * full * full * low * ten)
    BY <1>2, <2>1, TooLow
  <2> QED BY <2>2, SMT DEF EarnsA, full, twenty, ten, low
<1>8. ASSUME l <= 7 PROVE FALSE
  <2> DEFINE low == 7
  <2>1. Under(l, low)
    BY <1>1, <1>8 DEF Under
  <2> HIDE DEF low
  <2>2. EarnsA(full * twenty * full * full * ten * low)
    BY <1>2, <2>1, TooLow
  <2> QED BY <2>2, SMT DEF EarnsA, full, twenty, ten, low
<1>9. ASSUME c <= 93, f <= 90 PROVE FALSE
  <2> DEFINE low == 90
  <2>1. Under(f, low)
    BY <1>1, <1>9 DEF Under
  <2> HIDE DEF low
  <2>2. EarnsA(low * twenty * full * wide * ten * ten)
    BY <1>2, <1>9, <2>1, TooLow
  <2> QED BY <2>2, SMT DEF EarnsA, full, twenty, ten, wide, low
<1>10. ASSUME c <= 93, d <= 18 PROVE FALSE
  <2> DEFINE low == 18
  <2>1. Under(d, low)
    BY <1>1, <1>10 DEF Under
  <2> HIDE DEF low
  <2>2. EarnsA(full * low * full * wide * ten * ten)
    BY <1>2, <1>10, <2>1, TooLow
  <2> QED BY <2>2, SMT DEF EarnsA, full, ten, wide, low
<1> QED BY <1>1, <1>3, <1>4, <1>5, <1>6, <1>7, <1>8, <1>9, <1>10

\* The ages of quotes change nothing else of them.
LEMMA AgedIs ==
  ASSUME NEW quotes, NEW now
  PROVE  /\ QuotedBy(AgedAll(quotes, now)) = QuotedBy(quotes)
         /\ LatestRates(AgedAll(quotes, now)) = LatestRates(quotes)
<1> DEFINE aged == AgedAll(quotes, now)
<1>1. /\ DOMAIN aged = DOMAIN quotes
      /\ \A i \in DOMAIN quotes : aged[i].source = quotes[i].source /\ aged[i].rate = quotes[i].rate
  BY DEF AgedAll, Aged
<1> HIDE DEF aged
<1>2. QuotedBy(aged) = QuotedBy(quotes)
  BY <1>1 DEF QuotedBy
<1>3. LatestQuotes(aged) = LatestQuotes(quotes)
  BY <1>1 DEF LatestQuotes
<1>4. \A i \in LatestQuotes(quotes) : i \in DOMAIN quotes
  BY DEF LatestQuotes
<1>5. LatestRates(aged) = LatestRates(quotes)
  BY <1>1, <1>3, <1>4 DEF LatestRates
<1> QED BY <1>2, <1>5 DEF aged

\* What is looked up in a snapshot: without a hop, there is no source.
LEMMA LookupIs ==
  ASSUME NEW book, IsSnapshot(book, Source), NEW f, NEW t, Reachable(book, f, t)
  PROVE  LET p == Lookup(book, f, t) IN
         /\ p.asOf \in Int /\ p.hops \in Nat
         /\ p.hops = 0 => p.sources = {}
<1> DEFINE p == Lookup(book, f, t)
<1>1. CASE f = t
  <2>1. p = Identity(book)
    BY <1>1, Zenon DEF Lookup
  <2>2. book.built \in Nat
    BY ServingAssumption, Zenon DEF IsSnapshot
  <2> QED BY <2>1, <2>2 DEF Identity
<1>2. CASE f # t
  <2>1. p = book.pair[<<f, t>>] /\ <<f, t>> \in DOMAIN book.pair
    BY <1>2, Zenon DEF Lookup, Reachable
  <2>2. p.asOf \in Int /\ p.hops \in Nat \ {0}
    BY <2>1, Zenon DEF IsSnapshot
  <2>3. p.hops \in Nat /\ p.hops # 0
    <3> HIDE DEF p
    <3> QED BY <2>2
  <2> QED BY <2>2, <2>3, Zenon
<1> QED BY <1>1, <1>2

\* Its direct quotes are admitted ones.
LEMMA DirectQuotesAre ==
  ASSUME NEW book, IsSnapshot(book, Source), NEW f, NEW t
  PROVE  \E n : Quotes(DirectQuotes(book, f, t), n)
<1> DEFINE quotes == DirectQuotes(book, f, t)
<1>1. CASE <<f, t>> \in DOMAIN book.direct
  <2>1. quotes = book.direct[<<f, t>>]
    BY <1>1, Zenon DEF DirectQuotes
  <2>2. /\ Len(quotes) \in Nat /\ DOMAIN quotes = 1..Len(quotes)
        /\ \A i \in DOMAIN quotes : Usable(quotes[i].rate) /\ quotes[i].rate \in Nat
    BY <1>1, <2>1, Zenon DEF IsSnapshot
  <2> HIDE DEF quotes
  <2>3. Quotes(quotes, Len(quotes))
    BY <2>2 DEF Quotes
  <2> QED BY <2>3 DEF quotes
<1>2. CASE <<f, t>> \notin DOMAIN book.direct
  <2>1. quotes = <<>>
    BY <1>2, Zenon DEF DirectQuotes
  <2>2. DOMAIN <<>> = 1..0
    OBVIOUS
  <2>3. \A i \in 1..0 : FALSE
    OBVIOUS
  <2>4. Quotes(quotes, 0)
    BY <2>1, <2>2, <2>3 DEF Quotes
  <2> QED BY <2>4
<1> QED BY <1>1, <1>2

\* No conversion is graded A that has not earned it.
LEMMA GradedFairly ==
  ASSUME NEW book, IsSnapshot(book, Source), NEW now \in Int, NEW from, NEW to,
         Describe(book, from, to, 1, now).error = "none",
         Describe(book, from, to, 1, now).quality.grade = "A"
  PROVE  Earned(Describe(book, from, to, 1, now))
<1> DEFINE c == Describe(book, from, to, 1, now)
           p == Lookup(book, from, to)
           quotes == DirectQuotes(book, from, to)
           age == now - p.asOf
           F == Freshness(age)   D == Directness(p.hops)   S == SourceClass(p.sources)
           C == Corroborate(quotes).factor   K == Caveat(from)   L == Caveat(to)
           x == F * D * S * C * K * L
<1>1. /\ c = [error   |-> "none", from |-> from, to |-> to,
              amount  |-> 1, result |-> 1 * p.rate,
              rate    |-> p.rate, hops |-> p.hops, asOf |-> p.asOf,
              age     |-> age, sources |-> p.sources,
              quality |-> Assess(from, to, p, quotes, now),
              legs    |-> p.legs, quotes |-> AgedAll(quotes, now)]
      /\ Reachable(book, from, to)
  BY DescribedIs
<1>2. /\ c.age = age /\ c.hops = p.hops /\ c.sources = p.sources
      /\ c.from = from /\ c.to = to
      /\ c.quotes = AgedAll(quotes, now) /\ c.quality = Assess(from, to, p, quotes, now)
  BY <1>1
<1>3. c.quality.grade = Grade(Round2(x))
  <2>1. Assess(from, to, p, quotes, now).grade = Grade(Round2(x))
    BY DEF Assess
  <2> QED BY <1>2, <2>1
<1>4. p.asOf \in Int /\ p.hops \in Nat /\ (p.hops = 0 => p.sources = {})
  BY <1>1, LookupIs
<1>5. age \in Int
  BY <1>4
<1>6. PICK n : Quotes(quotes, n)
  BY DirectQuotesAre
<1> HIDE DEF age, quotes, p, c
<1>7. F \in 0..100 /\ (~(age < 5) => F <= 90) /\ (~(age < 26 * 60) => F <= 72)
  BY <1>5, FreshnessIs
<1>8. D \in 0..20 /\ (~(p.hops <= 1) => D <= 18) /\ (~(p.hops <= 2) => D <= 15)
  BY <1>4, DirectnessIs
<1>9. /\ S \in 0..100 /\ (p.sources = {} => S <= 85)
      /\ \A s \in p.sources : ~(RankOf(s) >= 2) => S <= 85
  BY SourceClassIs
<1>10. /\ C \in 0..100
       /\ Cardinality(QuotedBy(quotes)) = 1 => C <= 88
       /\ C > 88 => Within(100, LatestRates(quotes))
       /\ C > 93 => Within(25, LatestRates(quotes))
  BY <1>6, CorroborateIs
<1>11. /\ K \in 0..10 /\ (from \in Defunct \cup Managed => K <= 7)
       /\ L \in 0..10 /\ (to \in Defunct \cup Managed => L <= 7)
  BY CaveatIs
<1> HIDE DEF F, D, S, C, K, L
<1>12. Factors(F, D, S, C, K, L)
  BY <1>7, <1>8, <1>9, <1>10, <1>11 DEF Factors
<1>13. EarnsA(x)
  <2>1. Under(F, F) /\ Under(D, D) /\ Under(S, S) /\ Under(C, C) /\ Under(K, K) /\ Under(L, L)
    BY <1>12 DEF Factors, Under
  <2>2. Under(F * D, F * D)
    BY <2>1, UnderGrows
  <2>3. Under(F * D * S, F * D * S)
    BY <2>1, <2>2, UnderGrows
  <2>4. Under(F * D * S * C, F * D * S * C)
    BY <2>1, <2>3, UnderGrows
  <2>5. Under(F * D * S * C * K, F * D * S * C * K)
    BY <2>1, <2>4, UnderGrows
  <2>6. Under(x, x)
    BY <2>1, <2>5, UnderGrows
  <2>7. Grade(Round2(x)) = "A"
    BY <1>3 DEF c
  <2> HIDE DEF x
  <2>8. x \in Nat
    BY <2>6 DEF Under
  <2> QED BY <2>7, <2>8, GradeAIs
<1>14. /\ F > 72 /\ D > 15 /\ S > 85 /\ C > 88 /\ K > 7 /\ L > 7
       /\ C <= 93 => F > 90 /\ D > 18
  BY <1>12, <1>13, FactorsOfAnA
<1> HIDE DEF x
<1>15. /\ F \in Int /\ D \in Int /\ S \in Int /\ C \in Int /\ K \in Int /\ L \in Int
  BY <1>12 DEF Factors
<1>16. age < 26 * 60
  BY <1>7, <1>14, <1>15
<1>17. \A s \in p.sources : RankOf(s) >= 2
  BY <1>9, <1>14, <1>15
<1>18. p.hops \in 1..2
  <2>1. p.hops # 0
    BY <1>4, <1>9, <1>14, <1>15
  <2>2. p.hops <= 2
    BY <1>8, <1>14, <1>15
  <2> QED BY <1>4, <2>1, <2>2
<1>19. {from, to} \cap (Defunct \cup Managed) = {}
  <2>1. from \notin Defunct \cup Managed /\ to \notin Defunct \cup Managed
    BY <1>11, <1>14, <1>15
  <2> QED BY <2>1
<1>20. Cardinality(QuotedBy(quotes)) # 1 /\ Within(100, LatestRates(quotes))
  BY <1>10, <1>14, <1>15
<1>21. Within(25, LatestRates(quotes)) \/ (age < 5 /\ p.hops = 1)
  <2>1. CASE C > 93
    BY <1>10, <2>1
  <2>2. CASE ~(C > 93)
    <3>1. F > 90 /\ D > 18
      BY <1>14, <1>15, <2>2
    <3>2. age < 5 /\ p.hops <= 1
      BY <1>7, <1>8, <1>15, <3>1
    <3> QED BY <1>18, <3>2
  <2> QED BY <2>1, <2>2
<1>22. /\ QuotedBy(c.quotes) = QuotedBy(quotes)
       /\ LatestRates(c.quotes) = LatestRates(quotes)
  BY <1>2, AgedIs
<1>23. Earned(c)
  <2>1. /\ c.age < 26 * 60 /\ c.hops \in 1..2
        /\ \A s \in c.sources : RankOf(s) >= 2
    BY <1>2, <1>16, <1>17, <1>18, Zenon
  <2>2. {c.from, c.to} \cap (Defunct \cup Managed) = {}
    BY <1>2, <1>19
  <2>3. Cardinality(QuotedBy(c.quotes)) # 1 /\ Within(100, LatestRates(c.quotes))
    BY <1>20, <1>22
  <2>4. Within(25, LatestRates(c.quotes)) \/ (c.age < 5 /\ c.hops = 1)
    BY <1>2, <1>21, <1>22
  <2> QED BY <2>1, <2>2, <2>3, <2>4, Zenon DEF Earned
<1> QED BY <1>23 DEF c

\* A conversion that is complete is of a snapshot the Refresher has made.
LEMMA SnapshotConverted ==
  ASSUME ServingInv \/ Resting, Answered("convert")
  PROVE  IsSnapshot(reading.book, Source) /\ reading.now \in Int
<1>1. reading.ask.method = "convert" /\ reading.todo = <<>>
  BY DEF Answered
<1>2. ~Resting
  <2>1. Resting => reading.ask.method = "none"
    BY DEF Resting
  <2> QED BY <1>1, <2>1
<1> QED BY <1>1, <1>2 DEF ServingInv, ReadingInv, BookRead

\* All surfaces convert alike.
LEMMA ConversionsAgree == ServingInv \/ Resting => SurfacesAgree
<1> SUFFICES ASSUME ServingInv \/ Resting, Answered("convert")
             PROVE  \A from, to \in Codes, raw \in DOMAIN Number \cup {"", "junk", "1e999"} :
                      Agree(reading.book, reading.now, from, to, raw)
  BY Zenon DEF SurfacesAgree, Agree
<1>1. Known(reading.book)
  BY SnapshotConverted, Zenon DEF Known, IsSnapshot
<1> QED BY <1>1, TheyAgree

\* No conversion of a request's snapshot is graded A that has not earned it.
LEMMA ConversionsAreGradedFairly == ServingInv \/ Resting => GradeAIsEarned
BY SnapshotConverted, GradedFairly, Zenon DEF GradeAIsEarned, GradedA
=============================================================================
