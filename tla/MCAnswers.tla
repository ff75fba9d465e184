----------------------------- MODULE MCAnswers -----------------------------
(***************************************************************************)
(* A small instance of Serving for TLC.                                    *)
(***************************************************************************)
EXTENDS Serving

MCRank == [ecb |-> 4, coinbase |-> 3]

Q(a, b, r, lag) == [from |-> a, to |-> b, rate |-> r, lag |-> lag]

\* Lists of a central bank, a venue and a source without a rank.
MCFeeds == [ecb      |-> {{Q("USD", "ZAR", 1000, 0), Q("USD", "NGN", 50, -1)},
                        {Q("USD", "ZAR", 1000, 60), Q("EUR", "USD", 3, 3)}},
          coinbase |-> {{Q("USD", "ZAR", 1002, 0), Q("ZAR", "EUR", 9, 1)}, {Q("ZAR", "USD", 1005, 0)}},
          stooq    |-> {{}, {Q("USD", "ZAR", 1020, 10), Q("EUR", "HRK", 7, 0)}}]

MCNumbers == ("2" :> 2) @@ ("Inf" :> 100000) @@ ("1e300" :> 99999)

MCAsked == [surface : {"http"}, method : {"convert", "rates", "meta"}]
            \cup {[surface |-> "library", method |-> "convert"]}

\* A library caller converts: the clock is read after the snapshot, so no age is negative.
ByLibrary == {[surface |-> "library", method |-> "convert"]}

\* The pairs the search of FxGraph gives when no path has more than two legs: the
\* freshest direct quote, or else a cross whose first leg is freshest.
Both(edges) == edges \cup {[e EXCEPT !.from = e.to, !.to = e.from] : e \in edges}

Newest(edges) == CHOOSE e \in edges : \A f \in edges : f.time <= e.time

Leg(e) == [from |-> e.from, to |-> e.to, rate |-> e.rate, source |-> e.source, time |-> e.time]

PairOf(built, legs) ==
    [rate    |-> FoldSeq(LAMBDA l, x : l.rate * x, 1, legs),
     hops    |-> Len(legs),
     asOf    |-> Min({built} \cup {legs[i].time : i \in DOMAIN legs}),
     sources |-> {legs[i].source : i \in DOMAIN legs},
     legs    |-> legs]

BookOf(edges, built) ==
    LET adj == Both(edges)
        all == {e.from : e \in adj}
        quoted(a, b) == {e \in adj : e.from = a /\ e.to = b}
        vias(a, b) == {e \in adj : e.from = a /\ quoted(e.to, b) # {}}
        pair(a, b) ==
            IF quoted(a, b) # {} THEN PairOf(built, <<Newest(quoted(a, b))>>)
            ELSE LET e == Newest(vias(a, b)) IN PairOf(built, <<e, Newest(quoted(e.to, b))>>)
        pairs == {p \in all \X all : p[1] # p[2] /\ (quoted(p[1], p[2]) # {} \/ vias(p[1], p[2]) # {})}
    IN [built      |-> built,
        currencies |-> all,
        pair       |-> [p \in pairs |-> pair(p[1], p[2])],
        direct     |-> [p \in {p \in pairs : quoted(p[1], p[2]) # {}} |->
                          SetToSeq(quoted(p[1], p[2]))]]
=============================================================================
