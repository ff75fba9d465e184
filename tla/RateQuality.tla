----------------------------- MODULE RateQuality -----------------------------
(***************************************************************************)
(* The grade of an interest-rate series (internal/ratequality), from one   *)
(* entry of RateBook's snapshot.  A level is in basis points.  A factor is *)
(* in hundredths, so a confidence before rounding is in units of 1e-8.     *)
(***************************************************************************)
EXTENDS RateBook

CONSTANTS
  Area,       \* Area[id]: the area of a series
  Type,       \* Type[id]: its type, "index" among them
  Caveated    \* the areas with a standing caveat

ASSUME RateQualityAssumption ==
  /\ DOMAIN Area = Series /\ DOMAIN Type = Series
  /\ Caveated \subseteq {Area[id] : id \in Series}

\* The factor of the first band whose upper end is above x (or, in the spread's
\* bands, is not below it), given the ends and factors in order.
Below(x, ends, factors) ==
  factors[Cardinality({i \in DOMAIN ends : ends[i] <= x}) + 1]

Class == <<75, 90, 97, 100>>
SourceClass(s) == IF Rank[s] = 0 THEN 85 ELSE Class[Rank[s]]

\* How long ago the headline was published.
Freshness(age) ==
  Below(age, <<3 * DayLength, 16 * DayLength, 50 * DayLength, 150 * DayLength>>,
        <<100, 97, 82, 60, 40>>)

SpreadBand(spread) ==
  [factor |-> Below(spread, <<3, 11, 26>>, <<100, 95, 88, 78>>), agree |-> spread <= 5]

\* A mutant of Alone: one source is as good as two that agree.
AloneIsFine == [sources |-> 1, agree |-> FALSE, factor |-> 100]

Alone == [sources |-> 1, agree |-> FALSE, factor |-> 90]

\* The agreement of the sources' latest usable levels.
Corroborate(latest) ==
  LET levels == {latest[s].value : s \in {s \in DOMAIN latest : UsableLevel(latest[s].value)}}
      n == Cardinality({s \in DOMAIN latest : UsableLevel(latest[s].value)})
      band == SpreadBand(Max(levels) - Min(levels))
  IN CASE n = 0 -> [sources |-> 0, agree |-> TRUE, factor |-> 100]
       [] n = 1 -> Alone
       [] n > 1 -> [sources |-> n, agree |-> band.agree, factor |-> band.factor]

Grade(confidence) ==
  IF confidence >= 90 THEN "A"
  ELSE IF confidence >= 78 THEN "B"
  ELSE IF confidence >= 60 THEN "C" ELSE "D"

\* Hundredths, rounded half up, of a confidence in units of 1e-8.
Round2(x) == (x + 500000) \div 1000000

Assess(id, v, now) ==
  LET corroboration == Corroborate(v.latest)
      caveat == IF Area[id] \in Caveated THEN 92 ELSE 100
      published == Round2(SourceClass(v.source) * Freshness(now - v.date)
                          * corroboration.factor * caveat)
  IN [grade         |-> Grade(published),
      confidence    |-> published,
      corroboration |-> corroboration,
      caveats       |-> (IF caveat < 100 THEN {"area"} ELSE {})
                        \cup (IF Type[id] = "index" THEN {"index"} ELSE {})
                        \cup (IF corroboration.sources <= 1 THEN {"single"} ELSE {})]
=============================================================================
