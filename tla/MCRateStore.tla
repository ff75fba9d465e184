---------------------------- MODULE MCRateStore ----------------------------
(***************************************************************************)
(* A small instance of InterestApi for TLC: two aggregators of equal rank    *)
(* and an issuer above them, one series they share and one of its own.     *)
(***************************************************************************)
EXTENDS InterestApi, TLC

Authority == "bis" :> 3 @@ "fred" :> 3 @@ "sarbrates" :> 4

Ob(id, date, value) == [date |-> date, value |-> value, series |-> id]

\* Two instants to a day.  The lists have two points for a day, two for an
\* instant, a level beyond either end of the band, and an older headline; their
\* levels fall into each band of the spread.
Published ==
  "bis" :> {<<Ob("policy", 2, -9), Ob("policy", 3, -9), Ob("policy", 3, 20)>>,
            <<Ob("policy", 4, 18), Ob("policy", 6, -90), Ob("", 6, 10)>>}
  @@ "fred" :> {<<Ob("policy", 4, 27), Ob("bond", 1, 44)>>}
  @@ "sarbrates" :> {<<>>, <<Ob("policy", 1, 29)>>}

AreaOf == "policy" :> "ZA" @@ "bond" :> "US"
TypeOf == "policy" :> "policy" @@ "bond" :> "index"
=============================================================================
