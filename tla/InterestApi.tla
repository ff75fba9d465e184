----------------------------- MODULE InterestApi -----------------------------
(***************************************************************************)
(* The read-only handlers of serve/interest over the store: what a client  *)
(* that asks at some moment is told, for every snapshot the store can be   *)
(* in.  A handler takes the snapshot once and the clock once.              *)
(***************************************************************************)
EXTENDS RateStore, RateQuality

CONSTANT Readings       \* the clock readings a handler may take

ASSUME InterestApiAssumption == Readings \subseteq Nat

HeadlineView(id, v, now) ==
  [series |-> id, value |-> v.value, source |-> v.source, age |-> now - v.date,
   quotes |-> v.latest, quality |-> Assess(id, v, now)]

\* GET /interest/rates, filtered by area and type unless they are "".
HandleRates(snapshot, area, type, now) ==
  {HeadlineView(id, snapshot[id], now) :
     id \in {id \in DOMAIN snapshot : /\ area \in {"", Area[id]}
                                      /\ type \in {"", Type[id]}}}

\* GET /interest/series.
HandleSeries(snapshot, id, now) ==
  CASE id = "" -> [code |-> 400]
    [] id \notin DOMAIN snapshot /\ id # "" -> [code |-> 404]
    [] id \in DOMAIN snapshot /\ id # "" ->
         [code |-> 200, series |-> HeadlineView(id, snapshot[id], now),
          history |-> snapshot[id].history]

\* GET /interest/meta: the catalogue of the snapshot, and the sources' status, which is
\* read next and may be of a later moment.
HandleMeta(snapshot, sources) ==
  [areas |-> {Area[id] : id \in DOMAIN snapshot}, series |-> DOMAIN snapshot,
   sources |-> sources]

-----------------------------------------------------------------------------
(* Properties.                                                              *)

\* The three endpoints describe one book: what the catalogue lists, by the areas
\* it lists, /rates and /series answer for, with the same headline.
EndpointsAgree(now) ==
  LET meta == HandleMeta(snap, status) IN
  /\ \A id \in meta.series :
       /\ \E area \in meta.areas : \E v \in HandleRates(snap, area, Type[id], now) :
            v = HandleSeries(snap, id, now).series
       /\ [date |-> snap[id].date, value |-> snap[id].value]
            \in HandleSeries(snap, id, now).history
  /\ \A id \in Series \ meta.series : HandleSeries(snap, id, now).code = 404

\* An A is earned: the headline is at most sixteen days old, and either two
\* sources agree within ten basis points, or it comes from the issuer itself
\* within three days, without a caveat on the area; and a series with one
\* source behind it says so (docs/interest-rates.md:43).
GradeAIsEarned(v) ==
  LET levels == {v.quotes[s].value : s \in DOMAIN v.quotes} IN
  /\ v.quality.grade = "A" =>
       /\ v.age < 16 * DayLength
       /\ \/ /\ Cardinality(DOMAIN v.quotes) >= 2
             /\ \A x, y \in levels : x - y <= 10
          \/ Rank[v.source] = 4 /\ v.age < 3 * DayLength /\ Area[v.series] \notin Caveated
  /\ Cardinality(DOMAIN v.quotes) = 1 => "single" \in v.quality.caveats

\* Whatever snapshot the store holds and whenever a client asks, the endpoints
\* agree and no grade is better than its provenance.
InterestAnswersAreEarned ==
  \A now \in Readings :
    /\ EndpointsAgree(now)
    /\ \A v \in HandleRates(snap, "", "", now) : GradeAIsEarned(v)
=============================================================================
