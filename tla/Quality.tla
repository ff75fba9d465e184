------------------------------- MODULE Quality -------------------------------
(***************************************************************************)
(* The grade of a rate (fx.Assess): freshness of its oldest leg, number of *)
(* hops, weakest source, agreement of the direct quotes, caveats.          *)
(*                                                                         *)
(* A time is in minutes.  A factor is in hundredths (of directness, in     *)
(* twentieths; of a caveat, in tenths), so a confidence before rounding is *)
(* in units of 1 / 2*10^9.  Rounding of float64 is not modelled.           *)
(***************************************************************************)
EXTENDS Integers, FiniteSetsExt, SequencesExt

CONSTANTS
    SourceRank,     \* the authority of each source; one that is not listed has 0
    Defunct,        \* the currencies that no longer trade
    Managed,        \* those whose official rate is not the street rate
    MaxRate         \* the largest rate the graph admits

ASSUME QualityAssumption ==
    /\ \A s \in DOMAIN SourceRank : SourceRank[s] \in 0..4
    /\ MaxRate \in Nat

Usable(rate) == rate > 0 /\ rate <= MaxRate

\* The factor of the band x falls in: ends[i] is where band i stops.
Band(x, ends, factors) ==
    factors[Cardinality({i \in DOMAIN ends : ends[i] <= x}) + 1]

Freshness(age)   == Band(age, <<5, 26 * 60, 4 * 24 * 60>>, <<100, 90, 72, 45>>)
Directness(hops) == Band(hops, <<2, 3>>, <<20, 18, 15>>)

RankOf(s) == IF s \in DOMAIN SourceRank THEN SourceRank[s] ELSE 0

\* The weakest link; no source at all is the identity.
SourceClass(sources) ==
    IF sources = {} THEN 85
    ELSE <<80, 70, 92, 96, 100>>[Min({RankOf(s) : s \in sources}) + 1]

\* The rate that counts for each source: its last usable quote in the list.
Seen(quotes) ==
    LET usable == {i \in DOMAIN quotes : Usable(quotes[i].rate)}
        lastOf(s) == Max({i \in usable : quotes[i].source = s})
    IN [s \in {quotes[i].source : i \in usable} |-> quotes[lastOf(s)].rate]

\* (max - min) / min is more than so many basis points.
WiderThan(bps, low, high) == (high - low) * 10000 > bps * low

SpreadBand(low, high) ==
    [agree  |-> ~WiderThan(50, low, high),
     factor |-> <<100, 93, 85, 72>>[Cardinality({b \in {25, 100, 300} : WiderThan(b, low, high)}) + 1]]

\* A mutant of Alone: one source is as good as two that agree.
AloneIsFine == [sources |-> 1, agree |-> FALSE, factor |-> 100]

Alone == [sources |-> 1, agree |-> FALSE, factor |-> 88]

Corroborate(quotes) ==
    LET seen == Seen(quotes)
        rates == {seen[s] : s \in DOMAIN seen}
        n == Cardinality(DOMAIN seen)
        band == SpreadBand(Min(rates), Max(rates))
    IN CASE n = 0 -> [sources |-> 0, agree |-> TRUE, factor |-> 100]
         [] n = 1 -> Alone
         [] n > 1 -> [sources |-> n, agree |-> band.agree, factor |-> band.factor]

Caveat(c) == IF c \in Defunct THEN 2 ELSE IF c \in Managed THEN 7 ELSE 10

Grade(confidence) ==
    IF confidence >= 90 THEN "A"
    ELSE IF confidence >= 78 THEN "B"
    ELSE IF confidence >= 60 THEN "C" ELSE "D"

\* Hundredths, rounded half up.
Round2(x) == (x + 10000000) \div 20000000

\* The report on a pair p, whose direct quotes are given, at some instant.
Assess(from, to, p, quotes, now) ==
    LET corroboration == Corroborate(quotes)
        published == Round2(Freshness(now - p.asOf) * Directness(p.hops)
                            * SourceClass(p.sources) * corroboration.factor
                            * Caveat(from) * Caveat(to))
    IN [grade         |-> Grade(published),
        confidence    |-> published,
        corroboration |-> corroboration,
        caveats       |-> {c \in {from, to} : Caveat(c) < 10}]
=============================================================================
