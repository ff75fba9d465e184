------------------------------ MODULE MCFetch ------------------------------
(***************************************************************************)
(* A small instance of Fetch for TLC: a market of a few codes and series,  *)
(* and what each source might publish of it.  A good row has the market's  *)
(* price; the bad ones are of a code nobody asked for, not positive, or no *)
(* number.                                                                 *)
(***************************************************************************)
EXTENDS Fetch

MCToday == 9
MCDay == 5

MCPrice == [USD |-> 0, EUR |-> 1, CAD |-> -2, ZAR |-> -12, BTC |-> 50, XBT |-> 50, DOGE |-> -9]

MCLevel == [ZA |-> 7, US |-> 4, on |-> 8, index |-> 120, sofr |-> 5]

MCSarbCodes == [EXCX135D |-> "USD", EXCZ002D |-> "EUR"]
MCSymbols == <<<<"USD", "ZAR">>, <<"EUR", "USD">>>>
MCZaronia == [rate |-> "on", ZARONIA_INDEX |-> "index"]
MCFred == <<"sofr", "US">>

\* Rows of what one unit of a code buys in the others.
Rows(base, codes) == {[code |-> c, rate |-> MCPrice[base] - MCPrice[c]] : c \in codes}
Bad(codes) == {[code |-> c, rate |-> r] : c \in codes, r \in {Zero}}

\* Rows of pairs, each with its price and day.
PairRows(pairs, day) ==
    {[symbol |-> p, rate |-> MCPrice[p[1]] - MCPrice[p[2]], day |-> day] : p \in pairs}
NoNumber(pairs) == {[symbol |-> p, rate |-> NaN, day |-> Undated] : p \in pairs}

Broad == Rows("USD", {"ZAR", "EUR", "BTC", "DOGE"}) \cup Bad({"CAD"})

Lower == [USD |-> "usd", ZAR |-> "zar", EUR |-> "eur", DOGE |-> "doge"]

Published(name, i) ==
    CASE name = "coinbase" -> {[rows |-> Broad]}
      [] name = "erapi" -> {[result |-> r, base |-> b, day |-> d, rows |-> Broad] :
                              r \in {"success", "error"}, b \in {"", "USD"}, d \in {Undated, MCDay}}
      [] name = "frankfurter" -> {[base |-> "", day |-> MCDay, rows |-> Rows("EUR", {"USD", "ZAR"})]}
      [] name = "oxr" -> {[base |-> "USD", day |-> MCDay, rows |-> Broad]}
      [] name = "ecb" -> {[cubes |-> {[day |-> MCDay, rows |-> Rows("EUR", {"USD", "CAD"})],
                                      [day |-> Undated, rows |-> {[code |-> "ZAR", rate |-> NaN]}]}]}
      [] name = "twelvedata" ->
           {[rows |-> PairRows({<<"USD", "EUR">>, <<"EUR", "DOGE">>}, MCDay)
                        \cup {[symbol |-> <<"", "ZAR">>, rate |-> 12, day |-> Undated]}],
            [rows |-> PairRows({<<"USD", "DOGE">>}, Undated)]}
      [] name \in {"tradermade", "polygon"} ->
           {[rows |-> PairRows({<<"USD", "ZAR">>, <<"EUR", "DOGE">>}, MCDay)],
            [rows |-> PairRows({<<"USD", "DOGE">>}, Undated)]}
      [] name = "fawazahmed0" ->
           {[day |-> d, rows |-> {[code |-> Lower[c], rate |-> MCPrice["USD"] - MCPrice[c]] :
                                    c \in {"ZAR", "EUR", "DOGE"}}] : d \in {Undated, MCDay}}
      [] name = "luno" -> {[rows |-> PairRows({<<"XBT", "ZAR">>, <<"XBT", "EUR">>}, MCDay)
                                     \cup NoNumber({<<"USD", "ZAR">>})]}
      [] name = "boc" ->
           {[observations |->
               <<[day |-> 2, rows |-> {[symbol |-> <<"USD", "CAD">>, rate |-> 1]}],
                 [day |-> MCDay, rows |-> PairRows({<<"USD", "CAD">>, <<"EUR", "CAD">>}, MCDay)]>>]}
      [] name = "sarb" ->
           {[rows |-> {[code |-> "EXCX135D", rate |-> 12, day |-> MCDay],
                       [code |-> "EXCZ999D", rate |-> 3, day |-> MCDay]}],
            [rows |-> {}]}
      [] name = "yahoo" ->
           {[rate |-> r, day |-> MCDay] :
              r \in {Zero, MCPrice[MCSymbols[i][1]] - MCPrice[MCSymbols[i][2]]}}
      [] name = "sarbrates" ->
           {[rows |-> {[day |-> MCDay, fields |-> [rate |-> 8, ZARONIA_INDEX |-> 120, other |-> 1]],
                       [day |-> MCDay, fields |-> [rate |-> 101]],
                       [day |-> Undated, fields |-> [rate |-> 8]]}]}
      [] name = "bis" -> {<<[area |-> "ZA", day |-> MCDay, value |-> 7],
                            [area |-> "US", day |-> MCDay, value |-> NaN],
                            [area |-> "", day |-> MCDay, value |-> 4]>>}
      [] name = "fred" -> {[rows |-> {[day |-> MCDay, value |-> IF i = 1 THEN 5 ELSE 4],
                                      [day |-> Undated, value |-> 1], [day |-> MCDay, value |-> Zero],
                                      [day |-> MCDay, value |-> NaN]}]}

\* The defaults, every opt-in source by name, and keys; durations on both sides of
\* zero and of the largest.
AllFree == <<"frankfurter", "yahoo", "erapi", "fawazahmed0", "boc", "boc", "nobody", "oxr">>

MCSetups ==
    [spec : {<<>>, AllFree}, interest : {<<>>}, call : {0, 2},
     config : {0, 3, 16}, keys : {{}, {"oxr", "polygon", "tradermade", "twelvedata", "fred"}}]
    \cup [spec : {<<"ecb">>}, interest : {<<"sarbrates">>}, call : {-1, 1, 15, 16, 33},
          config : {-17, -1, 1, 15, 33}, keys : {{}}]

MCNetworks ==
    {[host |-> "name", env |-> e] : e \in {"plain", "opted out", "proxied"}}
    \cup {[host |-> "literal", env |-> "plain"]}

\* The fetches of bis alone.
BisSetups == {[spec |-> <<"nobody">>, interest |-> <<"bis">>, call |-> 0, config |-> 0, keys |-> {}]}
=============================================================================
