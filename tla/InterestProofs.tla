---------------------------- MODULE InterestProofs ----------------------------
(***************************************************************************)
(* Proofs about the interest-rate book, its store and its API, for any     *)
(* sources, ranks, published lists, series and clock readings.             *)
(*                                                                         *)
(* The state machine has a short inductive invariant, StoreInv: the        *)
(* snapshot is one Materialize may make of the book as it stands.  The     *)
(* rest is about what Materialize computes: that the loops over a list     *)
(* keep what they say (AdmittedIs, NewestIs, KeptIs), that the headline    *)
(* is the best quote in every order of the map of sources (HeadlineIs),    *)
(* and that no product of factors reaches an A that is not earned          *)
(* (FactorsOfAnA).  A loop is a recursive function of the number of turns  *)
(* taken; what holds after every turn is shown of the least turn after     *)
(* which it would not.                                                     *)
(***************************************************************************)
EXTENDS InterestApi, WellFoundedInduction, FiniteSetTheorems, TLAPS

\* The natural numbers are well ordered.
LEMMA Least ==
  ASSUME NEW S, S \subseteq Nat, S # {}
  PROVE  \E n \in S : \A m \in S : n <= m
<1>1. PICK n \in S : \A m \in S : <<m, n>> \notin OpToRel(<, Nat)
  BY NatLessThanWellFounded, WFMin, Zenon
<1>2. \A m \in S : ~(m < n)
  BY <1>1 DEF OpToRel
<1> QED BY <1>2

\* The observations of list that series id admits, up to the n-th.
Goes(list, id, n) == list[n].series = id /\ UsableLevel(list[n].value)

Kepts(list, id, n, f) ==
  f = [i \in 0..n |-> IF i = 0 THEN <<>>
                      ELSE IF Goes(list, id, i) THEN Append(f[i - 1], list[i]) ELSE f[i - 1]]

\* The recursive function of Admitted exists.
LEMMA KeptsExist ==
  ASSUME NEW list, NEW id, NEW n \in Nat
  PROVE  \E f : Kepts(list, id, n, f)
<1> DEFINE none == {m \in Nat : ~\E f : Kepts(list, id, m, f)}
<1>1. ASSUME none # {} PROVE FALSE
  <2>1. PICK m \in none : \A k \in none : m <= k
    <3>1. none \subseteq Nat
      OBVIOUS
    <3> HIDE DEF none
    <3> QED BY <1>1, <3>1, Least
  <2>2. CASE m = 0
    <3>1. Kepts(list, id, 0, [i \in 0..0 |-> <<>>])
      BY DEF Kepts
    <3> QED BY <2>1, <2>2, <3>1
  <2>3. CASE m # 0
    <3>1. m \in Nat /\ m - 1 \in Nat /\ m - 1 \notin none
      BY <2>1, <2>3
    <3>2. PICK f : Kepts(list, id, m - 1, f)
      BY <3>1
    <3> DEFINE G(g, i) == IF i = 0 THEN <<>>
                          ELSE IF Goes(list, id, i) THEN Append(g[i - 1], list[i]) ELSE g[i - 1]
               g == [i \in 0..m |-> IF i = m THEN G(f, m) ELSE f[i]]
    <3>3. \A i \in 0..m - 1 : f[i] = G(f, i)
      BY <3>2 DEF Kepts
    <3>4. \A i \in 0..m : g[i] = G(g, i)
      <4> TAKE i \in 0..m
      <4>1. i # 0 => i - 1 \in 0..m /\ i - 1 # m
        BY <3>1
      <4>2. i # 0 => g[i - 1] = f[i - 1]
        BY <4>1
      <4>3. i # m => i \in 0..m - 1 /\ g[i] = f[i]
        BY <3>1
      <4>4. g[m] = G(f, m)
        BY <3>1
      <4> HIDE DEF g
      <4>5. CASE i = m
        BY <2>3, <4>2, <4>4, <4>5
      <4>6. CASE i # m
        BY <3>3, <4>2, <4>3, <4>6
      <4> QED BY <4>5, <4>6
    <3>5. g = [i \in 0..m |-> g[i]]
      OBVIOUS
    <3> HIDE DEF g
    <3>6. Kepts(list, id, m, g)
      BY <3>4, <3>5 DEF Kepts
    <3> QED BY <2>1, <3>6
  <2> QED BY <2>2, <2>3
<1> QED BY <1>1

\* Every observation Admitted keeps is usable and of the series.
LEMMA AdmittedIs ==
  ASSUME NEW list \in Seq(Observation), NEW id
  PROVE  /\ Admitted(list, id) \in Seq(Observation)
         /\ \A i \in DOMAIN Admitted(list, id) : UsableLevel(Admitted(list, id)[i].value)
<1> DEFINE N == Len(list)
           G(g, i) == IF i = 0 THEN <<>>
                      ELSE IF Goes(list, id, i) THEN Append(g[i - 1], list[i]) ELSE g[i - 1]
           h == CHOOSE g : g = [i \in 0..N |-> G(g, i)]
           Good(s) == s \in Seq(Observation) /\ \A i \in DOMAIN s : UsableLevel(s[i].value)
           bad == {n \in 0..N : ~Good(h[n])}
<1>1. N \in Nat /\ \A n \in 1..N : list[n] \in Observation
  OBVIOUS
<1>2. PICK f : Kepts(list, id, N, f)
  BY <1>1, KeptsExist
<1>3. h = [i \in 0..N |-> G(h, i)]
  BY <1>2 DEF Kepts
<1>4. Admitted(list, id) = h[N]
  BY DEF Admitted, Goes
<1> HIDE DEF h
<1>5. \A i \in 0..N : h[i] = G(h, i)
  BY <1>3, Zenon
<1>6. ASSUME bad # {} PROVE FALSE
  <2>1. PICK n \in bad : \A k \in bad : n <= k
    <3>1. bad \subseteq Nat
      OBVIOUS
    <3> HIDE DEF bad
    <3> QED BY <1>6, <3>1, Least
  <2>2. CASE n = 0
    <3>1. h[0] = <<>>
      BY <1>1, <1>5
    <3>2. Good(<<>>)
      OBVIOUS
    <3> QED BY <2>1, <2>2, <3>1, <3>2
  <2>3. CASE n # 0
    <3>1. n \in 1..N /\ n - 1 \in 0..N /\ n - 1 \notin bad
      BY <1>1, <2>1, <2>3
    <3>2. Good(h[n - 1])
      BY <3>1
    <3>3. h[n] = IF Goes(list, id, n) THEN Append(h[n - 1], list[n]) ELSE h[n - 1]
      BY <1>5, <3>1
    <3>4. CASE Goes(list, id, n)
      <4>1. h[n - 1] \in Seq(Observation) /\ list[n] \in Observation
        BY <1>1, <3>1, <3>2
      <4> DEFINE s == h[n - 1]   t == Append(s, list[n])
      <4>2. /\ t \in Seq(Observation) /\ DOMAIN t = DOMAIN s \cup {Len(s) + 1}
            /\ Len(s) + 1 \notin DOMAIN s
            /\ t[Len(s) + 1] = list[n] /\ \A i \in DOMAIN s : t[i] = s[i]
        BY <4>1
      <4>3. h[n] = t
        BY <3>3, <3>4
      <4> HIDE DEF t
      <4>4. Good(h[n])
        BY <3>2, <3>4, <4>2, <4>3 DEF Goes
      <4> QED BY <2>1, <4>4
    <3>5. CASE ~Goes(list, id, n)
      BY <2>1, <3>2, <3>3, <3>5
    <3> QED BY <3>4, <3>5
  <2> QED BY <2>2, <2>3
<1>7. Good(h[N])
  BY <1>1, <1>6
<1> QED BY <1>4, <1>7

\* The observations of a list, one by one.
LEMMA ListTypes ==
  ASSUME NEW list \in Seq(Observation)
  PROVE  /\ Len(list) \in Nat /\ DOMAIN list = 1..Len(list)
         /\ \A i \in DOMAIN list : list[i].date \in Nat /\ list[i].value \in Int
         /\ list # <<>> => 1 \in DOMAIN list
<1>1. Len(list) \in Nat /\ DOMAIN list = 1..Len(list)
  OBVIOUS
<1>2. ASSUME NEW i \in DOMAIN list PROVE list[i].date \in Nat /\ list[i].value \in Int
  <2>1. list[i] \in Observation
    OBVIOUS
  <2> QED BY <2>1 DEF Observation
<1>3. list # <<>> => 1 \in DOMAIN list
  <2>1. list # <<>> => Len(list) # 0
    OBVIOUS
  <2> QED BY <1>1, <2>1
<1> QED BY <1>1, <1>2, <1>3

\* Of the observations of list at the places in I, the first of the latest is at i.
FirstLatest(list, I, i) ==
  /\ i \in I
  /\ \A j \in I : list[j].date < list[i].date \/ (list[j].date = list[i].date /\ i <= j)

\* Among any places of a list one is the first of the latest.
LEMMA FirstLatestExists ==
  ASSUME NEW list \in Seq(Observation), NEW I, I \subseteq DOMAIN list, I # {}
  PROVE  \E i : FirstLatest(list, I, i)
<1> DEFINE N == Len(list)
           J(n) == I \cap (1..n)
           bad == {n \in 0..N : J(n) # {} /\ ~\E i : FirstLatest(list, J(n), i)}
<1>1. N \in Nat /\ I \subseteq 1..N /\ \A i \in I : list[i].date \in Int
  BY ListTypes
<1>2. ASSUME bad # {} PROVE FALSE
  <2>1. PICK n \in bad : \A k \in bad : n <= k
    <3>1. bad \subseteq Nat
      OBVIOUS
    <3> HIDE DEF bad
    <3> QED BY <1>2, <3>1, Least
  <2>2. n \in 0..N /\ J(n) # {} /\ \A i : ~FirstLatest(list, J(n), i)
    BY <2>1
  <2>3. n - 1 \in 0..N /\ n - 1 \notin bad
    <3>1. n # 0
      BY <2>2
    <3>2. n - 1 \in 0..N /\ ~(n <= n - 1)
      BY <1>1, <2>2, <3>1
    <3> QED BY <2>1, <3>2
  <2>4. \A i \in J(n) : i = n \/ i \in J(n - 1)
    BY <1>1, <2>3
  <2>5. J(n - 1) \subseteq J(n) /\ \A i \in J(n - 1) : i < n
    BY <1>1, <2>3
  <2>6. \A i \in J(n) : i \in I /\ i \in Int
    BY <1>1
  <2>7. J(n - 1) = {} \/ \E i : FirstLatest(list, J(n - 1), i)
    BY <2>3
  <2> HIDE DEF J, bad
  <2>8. CASE n \notin J(n)
    <3>1. J(n) = J(n - 1)
      BY <2>4, <2>5, <2>8
    <3> QED BY <2>2, <2>7, <3>1
  <2>9. CASE n \in J(n) /\ J(n - 1) = {}
    <3>1. J(n) = {n}
      BY <2>4, <2>9
    <3>2. FirstLatest(list, J(n), n)
      BY <1>1, <2>3, <2>6, <3>1 DEF FirstLatest
    <3> QED BY <2>2, <3>2
  <2>10. CASE n \in J(n) /\ J(n - 1) # {}
    <3>1. PICK i : FirstLatest(list, J(n - 1), i)
      BY <2>7, <2>10
    <3>2. /\ i \in J(n) /\ i < n /\ list[i].date \in Int /\ list[n].date \in Int
          /\ \A j \in J(n - 1) : list[j].date \in Int /\ j \in J(n) /\ j < n
      BY <1>1, <2>5, <2>6, <2>10, <3>1 DEF FirstLatest
    <3>3. CASE list[n].date > list[i].date
      <4>1. FirstLatest(list, J(n), n)
        <5>1. ASSUME NEW j \in J(n)
              PROVE  list[j].date < list[n].date \/ (list[j].date = list[n].date /\ n <= j)
          <6>1. CASE j = n
            BY <3>2, <6>1, <2>6
          <6>2. CASE j \in J(n - 1)
            <7>1. list[j].date <= list[i].date
              BY <3>1, <3>2, <6>2 DEF FirstLatest
            <7> QED BY <3>2, <3>3, <6>2, <7>1
          <6> QED BY <2>4, <6>1, <6>2
        <5> QED BY <2>10, <5>1 DEF FirstLatest
      <4> QED BY <2>2, <4>1
    <3>4. CASE ~(list[n].date > list[i].date)
      <4>1. FirstLatest(list, J(n), i)
        BY <2>4, <2>6, <3>1, <3>2, <3>4 DEF FirstLatest
      <4> QED BY <2>2, <4>1
    <3> QED BY <3>3, <3>4
  <2> QED BY <2>8, <2>9, <2>10
<1>3. J(N) = I /\ N \in 0..N
  BY <1>1
<1> QED BY <1>2, <1>3

\* There is one such place.
LEMMA FirstLatestIsUnique ==
  ASSUME NEW list \in Seq(Observation), NEW I, I \subseteq DOMAIN list,
         NEW i, NEW j, FirstLatest(list, I, i), FirstLatest(list, I, j)
  PROVE  i = j
<1>1. i \in Int /\ j \in Int /\ list[i].date \in Int /\ list[j].date \in Int
  <2>1. i \in DOMAIN list /\ j \in DOMAIN list
    BY DEF FirstLatest
  <2> QED BY <2>1, ListTypes
<1> QED BY <1>1 DEF FirstLatest

\* Newest and Kept choose such an observation.
LEMMA NewestIs ==
  ASSUME NEW list \in Seq(Observation), list # <<>>
  PROVE  \E i : FirstLatest(list, DOMAIN list, i) /\ Newest(list) = list[i]
<1> DEFINE P(i) == \A j \in DOMAIN list :
                     /\ list[j].date <= list[i].date
                     /\ list[j].date = list[i].date => i <= j
<1>1. \A i \in DOMAIN list : list[i].date \in Int
  BY ListTypes
<1>2. DOMAIN list # {}
  BY ListTypes
<1>3. PICK i : FirstLatest(list, DOMAIN list, i)
  BY <1>2, FirstLatestExists
<1>4. \A k \in DOMAIN list : FirstLatest(list, DOMAIN list, k) <=> P(k)
  BY <1>1 DEF FirstLatest
<1>5. i \in DOMAIN list /\ P(i)
  BY <1>3, <1>4 DEF FirstLatest
<1> DEFINE c == CHOOSE k \in DOMAIN list : P(k)
<1>6. c \in DOMAIN list /\ P(c)
  BY <1>5
<1>7. Newest(list) = list[c]
  BY DEF Newest
<1> HIDE DEF c
<1>8. FirstLatest(list, DOMAIN list, c)
  BY <1>4, <1>6
<1> QED BY <1>7, <1>8

\* The places of a day in list.
OfDay(list, day) == {i \in DOMAIN list : Day(list[i].date) = day}

\* dedupeByDate keeps the first of the latest observations of a day.
LEMMA KeptIs ==
  ASSUME NEW list \in Seq(Observation), NEW day, OfDay(list, day) # {}
  PROVE  \E i : FirstLatest(list, OfDay(list, day), i) /\ Kept(list, day) = list[i]
<1> DEFINE I == OfDay(list, day)
           P(i) == \A j \in I :
                     list[j].date < list[i].date \/ (list[j].date = list[i].date /\ i <= j)
           c == CHOOSE k \in I : P(k)
<1>1. I \subseteq DOMAIN list
  BY DEF OfDay
<1>2. PICK i : FirstLatest(list, I, i)
  BY <1>1, FirstLatestExists
<1>3. i \in I /\ P(i)
  BY <1>2 DEF FirstLatest
<1>4. c \in I /\ P(c)
  BY <1>3
<1>5. Kept(list, day) = list[c]
  BY DEF Kept, OfDay
<1> HIDE DEF c
<1>6. FirstLatest(list, I, c)
  BY <1>4 DEF FirstLatest
<1> QED BY <1>5, <1>6

\* The quote of a source behind series id.
LEMMA QuoteIs ==
  ASSUME NEW b, \A s \in Source : b[s] \in Seq(Observation),
         NEW id, NEW s \in Contributors(b, id)
  PROVE  LET o == Newest(Admitted(b[s], id)) IN
         o.date \in Nat /\ o.value \in Int /\ UsableLevel(o.value)
<1> DEFINE l == Admitted(b[s], id)
<1>1. s \in Source /\ l # <<>>
  BY DEF Contributors
<1>2. l \in Seq(Observation) /\ \A i \in DOMAIN l : UsableLevel(l[i].value)
  BY <1>1, AdmittedIs
<1> HIDE DEF l
<1>3. PICK i : FirstLatest(l, DOMAIN l, i) /\ Newest(l) = l[i]
  BY <1>1, <1>2, NewestIs
<1>4. i \in DOMAIN l
  BY <1>3 DEF FirstLatest
<1>5. Newest(l).date \in Nat /\ Newest(l).value \in Int /\ UsableLevel(Newest(l).value)
  BY <1>2, <1>3, <1>4, ListTypes
<1> QED BY <1>5 DEF l

\* What the view of a series holds, with headline source h.
ViewFacts(b, id, h, v) ==
  /\ [date |-> v.date, value |-> v.value] \in v.history
  /\ \A p \in v.history : p.date <= v.date /\ UsableLevel(p.value)
  /\ \A p, q \in v.history : Day(p.date) = Day(q.date) => p = q
  /\ v.latest[h].value = v.value
  /\ v.latest = [s \in Contributors(b, id) |-> Newest(Admitted(b[s], id))]
  /\ v.date = v.latest[h].date
  /\ v.source = h
  /\ \A s \in Contributors(b, id) :
       /\ v.latest[s].date \in Nat /\ v.latest[s].value \in Int
       /\ UsableLevel(v.latest[s].value)

\* The three loops over the headline source tell one story: the entry of a series
\* has the facts above.
LEMMA ViewIs ==
  ASSUME NEW b, \A s \in Source : b[s] \in Seq(Observation),
         NEW id, NEW h \in Contributors(b, id)
  PROVE  ViewFacts(b, id, h, View(b, id, h))
<1> DEFINE v == View(b, id, h)
<1> DEFINE list == Admitted(b[h], id)
<1>1. h \in Source /\ list # <<>>
  BY DEF Contributors
<1>2. list \in Seq(Observation) /\ \A i \in DOMAIN list : UsableLevel(list[i].value)
  BY <1>1, AdmittedIs
<1>3. PICK k : FirstLatest(list, DOMAIN list, k) /\ Newest(list) = list[k]
  BY <1>1, <1>2, NewestIs
<1>4. /\ v.date = list[k].date /\ v.value = list[k].value /\ v.source = h
      /\ v.latest = [s \in Contributors(b, id) |-> Newest(Admitted(b[s], id))]
      /\ v.history = DedupeByDate(list)
  BY <1>3 DEF View
<1> HIDE DEF v
<1>5. v.latest[h] = list[k]
  BY <1>3, <1>4
<1>6. \A i \in DOMAIN list : list[i].date \in Nat /\ list[i].value \in Int
  BY <1>2, ListTypes
<1>7. ASSUME NEW s \in Contributors(b, id)
      PROVE  /\ v.latest[s].date \in Nat /\ v.latest[s].value \in Int
             /\ UsableLevel(v.latest[s].value)
  <2>1. v.latest[s] = Newest(Admitted(b[s], id))
    BY <1>4
  <2> QED BY <2>1, QuoteIs
<1> HIDE DEF list
\* A point of the history is the observation kept for its day.
<1>8. ASSUME NEW p \in v.history
      PROVE  \E i : /\ FirstLatest(list, OfDay(list, Day(p.date)), i)
                    /\ p = [date |-> list[i].date, value |-> list[i].value]
  <2>1. PICK j \in DOMAIN list :
          LET d == Day(list[j].date) IN
          p = [date |-> Kept(list, d).date, value |-> Kept(list, d).value]
    BY <1>4 DEF DedupeByDate
  <2> DEFINE d == Day(list[j].date)
  <2>2. OfDay(list, d) # {}
    BY DEF OfDay
  <2> HIDE DEF d
  <2>3. PICK i : FirstLatest(list, OfDay(list, d), i) /\ Kept(list, d) = list[i]
    BY <1>2, <2>2, KeptIs
  <2>4. p = [date |-> list[i].date, value |-> list[i].value]
    BY <2>1, <2>3 DEF d
  <2>5. Day(p.date) = d
    BY <2>3, <2>4 DEF FirstLatest, OfDay
  <2> QED BY <2>3, <2>4, <2>5
<1>9. ASSUME NEW p \in v.history PROVE p.date <= v.date /\ UsableLevel(p.value)
  <2>1. PICK i : /\ FirstLatest(list, OfDay(list, Day(p.date)), i)
                 /\ p = [date |-> list[i].date, value |-> list[i].value]
    BY <1>8
  <2>2. i \in DOMAIN list
    BY <2>1 DEF FirstLatest, OfDay
  <2>3. k \in DOMAIN list
    BY <1>3 DEF FirstLatest
  <2>4. list[i].date <= list[k].date
    BY <1>3, <1>6, <2>2, <2>3 DEF FirstLatest
  <2> QED BY <1>2, <1>4, <2>1, <2>2, <2>4
<1>10. ASSUME NEW p \in v.history, NEW q \in v.history, Day(p.date) = Day(q.date)
       PROVE  p = q
  <2>1. PICK i : /\ FirstLatest(list, OfDay(list, Day(p.date)), i)
                 /\ p = [date |-> list[i].date, value |-> list[i].value]
    BY <1>8
  <2>2. PICK j : /\ FirstLatest(list, OfDay(list, Day(q.date)), j)
                 /\ q = [date |-> list[j].date, value |-> list[j].value]
    BY <1>8
  <2>3. OfDay(list, Day(p.date)) \subseteq DOMAIN list
    BY DEF OfDay
  <2>4. i = j
    BY <1>2, <1>10, <2>1, <2>2, <2>3, FirstLatestIsUnique
  <2> QED BY <2>1, <2>2, <2>4
<1>11. [date |-> v.date, value |-> v.value] \in v.history
  <2> DEFINE d == Day(list[k].date)
  <2>1. k \in DOMAIN list /\ k \in OfDay(list, d)
    BY <1>3 DEF FirstLatest, OfDay
  <2>2. OfDay(list, d) \subseteq DOMAIN list
    BY DEF OfDay
  <2>3. FirstLatest(list, OfDay(list, d), k)
    BY <1>3, <2>1, <2>2 DEF FirstLatest
  <2>4. PICK i : FirstLatest(list, OfDay(list, d), i) /\ Kept(list, d) = list[i]
    BY <1>2, <2>1, KeptIs
  <2>5. i = k
    BY <1>2, <2>2, <2>3, <2>4, FirstLatestIsUnique
  <2>6. [date |-> Kept(list, d).date, value |-> Kept(list, d).value] \in DedupeByDate(list)
    BY <2>1 DEF DedupeByDate
  <2> QED BY <1>4, <2>4, <2>5, <2>6
<1>12. ViewFacts(b, id, h, v)
  BY <1>4, <1>5, <1>7, <1>9, <1>10, <1>11 DEF ViewFacts
<1> QED BY <1>12 DEF v

\* The rank of a source.
LEMMA RankType == \A s \in Source : Rank[s] \in Nat /\ Rank[s] \in 0..4
<1> TAKE s \in Source
<1>1. Rank \in [Source -> 0..4]
  BY RateBookAssumption
<1>2. Rank[s] \in 0..4
  BY <1>1, Zenon
<1> QED BY <1>2

\* An order of the sources has every source in it.
LEMMA OrdersAreComplete ==
  ASSUME NEW order \in Orders
  PROVE  /\ order \in Seq(Source) /\ Len(order) \in Nat
         /\ \A i \in 1..Len(order) : order[i] \in Source
         /\ \A s \in Source : \E i \in 1..Len(order) : order[i] = s
<1> DEFINE n == Cardinality(Source)
<1>1. n \in Nat
  BY FS_CardinalityType, RateBookAssumption
<1>2. order \in [1..n -> Source] /\ \A i, j \in 1..n : i # j => order[i] # order[j]
  BY DEF Orders, SetToSeqs
<1> HIDE DEF n
<1>3. order \in Injection(1..n, Source)
  BY <1>2 DEF Injection, IsInjective
<1>4. Cardinality(1..n) = n
  BY <1>1, FS_Interval
<1>5. order \in Surjection(1..n, Source)
  BY <1>3, <1>4, FS_Injection, RateBookAssumption DEF n
<1>6. order \in Seq(Source) /\ Len(order) = n
  BY <1>1, <1>2
<1> QED BY <1>1, <1>2, <1>5, <1>6 DEF Surjection

\* The quote of source s behind series id, and one turn of the loop that picks
\* the headline.
Quote(b, id, s) == Newest(Admitted(b[s], id))

Turn(b, id, s, before) ==
  IF s \in Contributors(b, id) /\ Heads(before, s, Quote(b, id, s))
  THEN [rank |-> Rank[s], date |-> Quote(b, id, s).date, source |-> s]
  ELSE before

Nobody == [rank |-> -1, date |-> -1, source |-> "none"]

Turns(b, id, order, n, f) ==
  f = [i \in 0..n |-> IF i = 0 THEN Nobody ELSE Turn(b, id, order[i], f[i - 1])]

\* The recursive function of Headline exists.
LEMMA TurnsExist ==
  ASSUME NEW b, NEW id, NEW order, NEW n \in Nat
  PROVE  \E f : Turns(b, id, order, n, f)
<1> DEFINE none == {m \in Nat : ~\E f : Turns(b, id, order, m, f)}
<1>1. ASSUME none # {} PROVE FALSE
  <2>1. PICK m \in none : \A k \in none : m <= k
    <3>1. none \subseteq Nat
      OBVIOUS
    <3> HIDE DEF none
    <3> QED BY <1>1, <3>1, Least
  <2>2. CASE m = 0
    <3>1. Turns(b, id, order, 0, [i \in 0..0 |-> Nobody])
      BY DEF Turns
    <3> QED BY <2>1, <2>2, <3>1
  <2>3. CASE m # 0
    <3>1. m \in Nat /\ m - 1 \in Nat /\ m - 1 \notin none
      BY <2>1, <2>3
    <3>2. PICK f : Turns(b, id, order, m - 1, f)
      BY <3>1
    <3> DEFINE G(g, i) == IF i = 0 THEN Nobody ELSE Turn(b, id, order[i], g[i - 1])
               g == [i \in 0..m |-> IF i = m THEN G(f, m) ELSE f[i]]
    <3>3. \A i \in 0..m - 1 : f[i] = G(f, i)
      BY <3>2 DEF Turns
    <3>4. \A i \in 0..m : g[i] = G(g, i)
      <4> TAKE i \in 0..m
      <4>1. i # 0 => i - 1 \in 0..m /\ i - 1 # m
        BY <3>1
      <4>2. i # 0 => g[i - 1] = f[i - 1]
        BY <4>1
      <4>3. i # m => i \in 0..m - 1 /\ g[i] = f[i]
        BY <3>1
      <4>4. g[m] = G(f, m)
        BY <3>1
      <4> HIDE DEF g
      <4>5. CASE i = m
        BY <2>3, <4>2, <4>4, <4>5
      <4>6. CASE i # m
        BY <3>3, <4>2, <4>3, <4>6
      <4> QED BY <4>5, <4>6
    <3>5. g = [i \in 0..m |-> g[i]]
      OBVIOUS
    <3> HIDE DEF g
    <3>6. Turns(b, id, order, m, g)
      BY <3>4, <3>5 DEF Turns
    <3> QED BY <2>1, <3>6
  <2> QED BY <2>2, <2>3
<1> QED BY <1>1

\* No quote behind series id is better than that of source h.
Best(b, id, h) ==
  \A s \in Contributors(b, id) :
    /\ Rank[s] <= Rank[h]
    /\ Rank[s] = Rank[h] => Quote(b, id, s).date <= Quote(b, id, h).date

\* The headline heads every contributor, in whatever order they are visited.
LEMMA HeadlineIs ==
  ASSUME NEW b, \A s \in Source : b[s] \in Seq(Observation),
         NEW id, Contributors(b, id) # {}, NEW order \in Orders
  PROVE  Headline(b, id, order) \in Contributors(b, id) /\ Best(b, id, Headline(b, id, order))
<1> DEFINE N == Len(order)
           C == Contributors(b, id)
           Q(s) == Quote(b, id, s)
           G(g, i) == IF i = 0 THEN Nobody ELSE Turn(b, id, order[i], g[i - 1])
           head == CHOOSE g : g = [i \in 0..N |-> G(g, i)]
           Good(x, n) ==
             \/ x.rank = -1 /\ \A i \in 1..n : order[i] \notin C
             \/ /\ x.source \in C /\ x.rank = Rank[x.source] /\ x.date = Q(x.source).date
                /\ \A i \in 1..n : order[i] \in C =>
                     \/ Rank[order[i]] < x.rank
                     \/ Rank[order[i]] = x.rank /\ Q(order[i]).date <= x.date
           bad == {n \in 0..N : ~Good(head[n], n)}
<1>1. /\ N \in Nat /\ \A i \in 1..N : order[i] \in Source
      /\ \A s \in Source : \E i \in 1..N : order[i] = s
  BY OrdersAreComplete
<1>2. PICK f : Turns(b, id, order, N, f)
  BY <1>1, TurnsExist
<1>3. head = [i \in 0..N |-> G(head, i)]
  BY <1>2 DEF Turns
<1>4. Headline(b, id, order) = head[N].source
  BY DEF Headline, Nobody, Turn, Quote
<1> HIDE DEF head
<1>5. \A i \in 0..N : head[i] = G(head, i)
  BY <1>3, Zenon
<1>6. \A s \in C : s \in Source /\ Rank[s] \in Nat /\ Q(s).date \in Nat
  <2>1. \A s \in C : s \in Source
    BY DEF Contributors
  <2>2. \A s \in C : Q(s).date \in Nat
    BY QuoteIs DEF Quote
  <2> QED BY <2>1, <2>2, RankType
<1> HIDE DEF C, Q
<1>7. ASSUME bad # {} PROVE FALSE
  <2>1. PICK n \in bad : \A k \in bad : n <= k
    <3>1. bad \subseteq Nat
      OBVIOUS
    <3> HIDE DEF bad
    <3> QED BY <1>7, <3>1, Least
  <2>2. CASE n = 0
    <3>1. head[0] = Nobody
      BY <1>1, <1>5
    <3>2. Good(Nobody, 0)
      BY DEF Nobody
    <3> QED BY <2>1, <2>2, <3>1, <3>2
  <2>3. CASE n # 0
    <3>1. n \in 1..N /\ n - 1 \in 0..N /\ n - 1 \notin bad
      BY <1>1, <2>1, <2>3
    <3> DEFINE s == order[n]   x == head[n - 1]   y == head[n]
    <3>2. Good(x, n - 1)
      BY <3>1
    <3>3. y = Turn(b, id, s, x)
      BY <1>5, <3>1
    <3>4. \A i \in 1..n : i = n \/ i \in 1..n - 1
      BY <3>1
    <3>5. s \in Source /\ Rank[s] \in Nat
      BY <1>1, <3>1, RankType
    <3>6. \A i \in 1..n - 1 : order[i] \in C => Rank[order[i]] \in Nat /\ Q(order[i]).date \in Nat
      BY <1>6
    <3> HIDE DEF x, y, s
    <3>7. CASE s \in C /\ Heads(x, s, Q(s))
      <4>1. y = [rank |-> Rank[s], date |-> Q(s).date, source |-> s]
        BY <3>3, <3>7 DEF Turn, C, Q
      <4>2. y.source = s /\ y.rank = Rank[s] /\ y.date = Q(s).date
        BY <4>1
      <4>3. ASSUME NEW i \in 1..n, order[i] \in C
            PROVE  \/ Rank[order[i]] < y.rank
                   \/ Rank[order[i]] = y.rank /\ Q(order[i]).date <= y.date
        <5>1. CASE i = n
          BY <1>6, <3>5, <3>7, <4>2, <5>1 DEF s
        <5>2. CASE i \in 1..n - 1
          <6>1. /\ x.source \in C /\ x.rank = Rank[x.source] /\ x.date = Q(x.source).date
                /\ \/ Rank[order[i]] < x.rank
                   \/ Rank[order[i]] = x.rank /\ Q(order[i]).date <= x.date
            BY <3>2, <4>3, <5>2
          <6>2. x.rank \in Nat /\ x.date \in Nat /\ Q(s).date \in Nat
            BY <1>6, <3>7, <6>1
          <6>3. Rank[order[i]] \in Nat /\ Q(order[i]).date \in Nat
            BY <1>6, <4>3
          <6>4. Rank[s] > x.rank \/ (Rank[s] = x.rank /\ Q(s).date > x.date)
            BY <3>7 DEF Heads
          <6> QED BY <3>5, <4>2, <6>1, <6>2, <6>3, <6>4
        <5> QED BY <3>4, <5>1, <5>2
      <4>4. Good(y, n)
        BY <3>7, <4>2, <4>3
      <4> QED BY <2>1, <4>4 DEF y
    <3>8. CASE ~(s \in C /\ Heads(x, s, Q(s)))
      <4>1. y = x
        BY <3>3, <3>8 DEF Turn, C, Q
      <4>2. CASE x.rank = -1 /\ \A i \in 1..n - 1 : order[i] \notin C
        <5>1. s \notin C
          BY <3>5, <3>8, <4>2 DEF Heads
        <5>2. Good(x, n)
          BY <3>4, <4>2, <5>1 DEF s
        <5> QED BY <2>1, <4>1, <5>2 DEF y
      <4>3. CASE ~(x.rank = -1 /\ \A i \in 1..n - 1 : order[i] \notin C)
        <5>1. /\ x.source \in C /\ x.rank = Rank[x.source] /\ x.date = Q(x.source).date
              /\ \A i \in 1..n - 1 : order[i] \in C =>
                   \/ Rank[order[i]] < x.rank
                   \/ Rank[order[i]] = x.rank /\ Q(order[i]).date <= x.date
          BY <3>2, <4>3
        <5>2. x.rank \in Nat /\ x.date \in Nat
          BY <1>6, <5>1
        <5>3. s \in C => \/ Rank[s] < x.rank
                         \/ Rank[s] = x.rank /\ Q(s).date <= x.date
          BY <1>6, <3>5, <3>8, <5>2 DEF Heads
        <5>4. Good(x, n)
          BY <3>4, <5>1, <5>3 DEF s
        <5> QED BY <2>1, <4>1, <5>4 DEF y
      <4> QED BY <4>2, <4>3
    <3> QED BY <3>7, <3>8
  <2> QED BY <2>2, <2>3
<1>8. Good(head[N], N)
  BY <1>1, <1>7
<1>9. PICK s \in C : TRUE
  BY DEF C
<1>10. PICK i \in 1..N : order[i] = s
  BY <1>1, <1>6
<1> DEFINE h == head[N].source
<1>11. /\ h \in C
       /\ \A j \in 1..N : order[j] \in C =>
            \/ Rank[order[j]] < Rank[h]
            \/ Rank[order[j]] = Rank[h] /\ Q(order[j]).date <= Q(h).date
  BY <1>8, <1>9, <1>10
<1> HIDE DEF h
<1>12. ASSUME NEW t \in C
       PROVE  Rank[t] <= Rank[h] /\ (Rank[t] = Rank[h] => Q(t).date <= Q(h).date)
  <2>1. PICK j \in 1..N : order[j] = t
    BY <1>1, <1>6
  <2> QED BY <1>6, <1>11, <2>1
<1> QED BY <1>4, <1>11, <1>12 DEF h, Best, C, Q

\* What a snapshot of the book says: one entry per series, its headline the best
\* of the quotes behind it.
LEMMA SnapshotIs ==
  ASSUME NEW b, \A s \in Source : b[s] \in Seq(Observation), NEW sn \in Materialize(b)
  PROVE  /\ DOMAIN sn = Ids(b)
         /\ \A id \in Ids(b) : \E h \in Contributors(b, id) :
              Best(b, id, h) /\ sn[id] = View(b, id, h)
<1>1. PICK p \in [Ids(b) -> Source] :
        /\ \A id \in Ids(b) : <<id, p[id]>> \in {<<i, Headline(b, i, order)>> :
                                                   i \in Ids(b), order \in Orders}
        /\ sn = [id \in Ids(b) |-> View(b, id, p[id])]
  BY DEF Materialize
<1>2. ASSUME NEW id \in Ids(b)
      PROVE  \E h \in Contributors(b, id) : Best(b, id, h) /\ sn[id] = View(b, id, h)
  <2>1. PICK order \in Orders : p[id] = Headline(b, id, order)
    BY <1>1
  <2>2. Contributors(b, id) # {}
    BY DEF Ids, Contributors
  <2>3. p[id] \in Contributors(b, id) /\ Best(b, id, p[id])
    BY <2>1, <2>2, HeadlineIs
  <2> QED BY <1>1, <2>3
<1> QED BY <1>1, <1>2

Outcome == {r \in [source : Source, err : BOOLEAN, obs : Seq(Observation)] :
              ~r.err => r.obs \in Lists[r.source]}

Typing ==
  /\ book \in Books
  /\ \A s \in Source : world[s] \in Lists[s]
  /\ up \in SUBSET Source /\ flying \in SUBSET Source
  /\ status \in [Source -> [failed : BOOLEAN, observations : Nat]]
  /\ pc \in {"start", "collect", "wait", "stopped"}
  /\ pc # "collect" => flying = {} /\ results = {}

\* The inductive invariant: the snapshot is one of the book as it stands, and a
\* result on its way that is no error is a list its source may publish.
StoreInv ==
  /\ Typing
  /\ results \subseteq Outcome
  /\ snap \in Materialize(book)

\* What a source publishes are observations.
LEMMA ListsAreLists == \A s \in Source : Lists[s] \subseteq Seq(Observation)
BY RateStoreAssumption

\* What a book is, and that it holds observations only.
LEMMA BooksAre ==
  ASSUME NEW b
  PROVE  /\ b \in Books <=> /\ b \in [Source -> {<<>>} \cup UNION {Lists[s] : s \in Source}]
                            /\ \A s \in Source : b[s] \in Lists[s] \cup {<<>>}
         /\ b \in Books => \A s \in Source : b[s] \in Seq(Observation)
<1>1. b \in Books => \A s \in Source : b[s] \in Seq(Observation)
  <2> SUFFICES ASSUME b \in Books, NEW s \in Source PROVE b[s] \in Seq(Observation)
    OBVIOUS
  <2>1. b[s] \in Lists[s] \cup {<<>>}
    BY DEF Books
  <2>2. <<>> \in Seq(Observation)
    OBVIOUS
  <2> QED BY <2>1, <2>2, ListsAreLists
<1> QED BY <1>1 DEF Books

\* Book.Replace leaves a book.
LEMMA ReplaceIsABook ==
  ASSUME NEW b \in Books, NEW s \in Source, NEW l \in Lists[s]
  PROVE  [b EXCEPT ![s] = l] \in Books
<1> DEFINE c == [b EXCEPT ![s] = l]
<1>1. /\ b \in [Source -> {<<>>} \cup UNION {Lists[t] : t \in Source}]
      /\ \A t \in Source : b[t] \in Lists[t] \cup {<<>>}
  BY BooksAre
<1>2. c \in [Source -> {<<>>} \cup UNION {Lists[t] : t \in Source}]
  BY <1>1
<1>3. \A t \in Source : c[t] = IF t = s THEN l ELSE b[t]
  BY <1>1
<1> HIDE DEF c
<1>4. c \in Books
  BY <1>1, <1>2, <1>3, BooksAre
<1> QED BY <1>4 DEF c

\* One turn of the collecting loop, whole.
LEMMA ApplyDoes ==
  ASSUME StoreInv, Apply
  PROVE  \E r \in results :
           /\ r \in Outcome
           /\ results' = results \ {r}
           /\ book' = IF r.err THEN book ELSE [book EXCEPT ![r.source] = r.obs]
           /\ book' \in Books
           /\ status' \in [Source -> [failed : BOOLEAN, observations : Nat]]
           /\ ~r.err => ~status'[r.source].failed
           /\ snap' \in Materialize(book')
           /\ pc = "collect"
           /\ UNCHANGED <<world, up, pc, flying, cancelled>>
<1>1. PICK r \in results :
        /\ results' = results \ {r}
        /\ book' = Replaced(r)
        /\ status' = [status EXCEPT ![r.source] =
                       IF r.err THEN [@ EXCEPT !.failed = TRUE]
                       ELSE [failed |-> FALSE, observations |-> Len(r.obs)]]
  BY DEF Apply
<1>2. /\ r \in Outcome /\ r.source \in Source /\ r.obs \in Seq(Observation)
      /\ r.err \in BOOLEAN /\ (~r.err => r.obs \in Lists[r.source])
  BY DEF StoreInv, Outcome
<1>3. book' \in Books
  <2>1. CASE r.err
    BY <1>1, <2>1 DEF Replaced, StoreInv, Typing
  <2>2. CASE ~r.err
    BY <1>1, <1>2, <2>2, ReplaceIsABook DEF Replaced, StoreInv, Typing
  <2> QED BY <2>1, <2>2
<1>4. /\ status' \in [Source -> [failed : BOOLEAN, observations : Nat]]
      /\ ~r.err => ~status'[r.source].failed
  <2>1. status \in [Source -> [failed : BOOLEAN, observations : Nat]]
    BY DEF StoreInv, Typing
  <2> DEFINE old == status[r.source]
             new == IF r.err THEN [old EXCEPT !.failed = TRUE]
                    ELSE [failed |-> FALSE, observations |-> Len(r.obs)]
  <2>2. status' = [status EXCEPT ![r.source] = new]
    BY <1>1
  <2>3. new \in [failed : BOOLEAN, observations : Nat] /\ (~r.err => ~new.failed)
    <3>1. old \in [failed : BOOLEAN, observations : Nat]
      BY <1>2, <2>1
    <3>2. Len(r.obs) \in Nat
      BY <1>2
    <3> QED BY <3>1, <3>2
  <2> HIDE DEF new
  <2> QED BY <1>2, <2>1, <2>2, <2>3
<1> QED BY <1>1, <1>2, <1>3, <1>4 DEF Apply, Replaced

\* New makes the invariant true.
LEMMA InitStore == Init => StoreInv
<1> SUFFICES ASSUME Init PROVE StoreInv
  OBVIOUS
<1>1. book \in Books
  <2>1. book = [s \in Source |-> <<>>]
    BY DEF Init
  <2> QED BY <2>1, BooksAre
<1>2. status \in [Source -> [failed : BOOLEAN, observations : Nat]]
  BY DEF Init
<1> QED BY <1>1, <1>2 DEF Init, StoreInv, Typing

\* Every step keeps it.
LEMMA StoreStep ==
  ASSUME StoreInv, [Next]_vars
  PROVE  StoreInv'
<1> USE DEF StoreInv, Typing
<1>1. ASSUME NEW s \in Source, NEW l \in Lists[s], Publish(s, l) PROVE StoreInv'
  <2>1. \A t \in Source : world'[t] \in Lists[t]
    <3>1. world' = [world EXCEPT ![s] = l]
      BY <1>1 DEF Publish
    <3> QED BY <1>1, <3>1
  <2> QED BY <1>1, <2>1 DEF Publish, storeVars
<1>2. ASSUME NEW s \in Source, Toggle(s) PROVE StoreInv'
  BY <1>2 DEF Toggle, storeVars
<1>3. ASSUME NEW s \in Source, FetchEnd(s) PROVE StoreInv'
  <2>1. pc = "collect" /\ flying' \subseteq Source /\ UNCHANGED <<world, up, storeVars, pc>>
    BY <1>3 DEF FetchEnd
  <2>2. results' \subseteq Outcome
    <3>1. CASE results' = results \cup {[source |-> s, err |-> FALSE, obs |-> world[s]]}
      <4>1. world[s] \in Lists[s] /\ world[s] \in Seq(Observation)
        BY <1>3, ListsAreLists
      <4>2. [source |-> s, err |-> FALSE, obs |-> world[s]] \in Outcome
        BY <1>3, <4>1 DEF Outcome
      <4> QED BY <3>1, <4>2
    <3>2. CASE results' = results \cup {[source |-> s, err |-> TRUE, obs |-> <<>>]}
      <4>1. [source |-> s, err |-> TRUE, obs |-> <<>>] \in Outcome
        BY <1>3 DEF Outcome
      <4> QED BY <3>2, <4>1
    <3> QED BY <1>3, <3>1, <3>2 DEF FetchEnd
  <2> QED BY <2>1, <2>2 DEF storeVars
<1>4. ASSUME Apply PROVE StoreInv'
  <2> HIDE DEF StoreInv, Typing
  <2>1. PICK r \in results :
           /\ results' = results \ {r}
           /\ book' \in Books
           /\ status' \in [Source -> [failed : BOOLEAN, observations : Nat]]
           /\ snap' \in Materialize(book')
           /\ pc = "collect"
           /\ UNCHANGED <<world, up, pc, flying, cancelled>>
    BY <1>4, ApplyDoes
  <2> QED BY <2>1 DEF StoreInv, Typing
<1>5. ASSUME Begin PROVE StoreInv'
  BY <1>5 DEF Begin, storeVars
<1>6. ASSUME Return PROVE StoreInv'
  BY <1>6 DEF Return, storeVars
<1>7. ASSUME Cancel PROVE StoreInv'
  BY <1>7 DEF Cancel, storeVars
<1>8. ASSUME Stop PROVE StoreInv'
  BY <1>8 DEF Stop, storeVars
<1>9. ASSUME UNCHANGED vars PROVE StoreInv'
  BY <1>9 DEF vars
<1> HIDE DEF StoreInv, Typing
<1> QED BY <1>1, <1>2, <1>3, <1>4, <1>5, <1>6, <1>7, <1>8, <1>9 DEF Next

\* Whatever happens, the snapshot readers take is one of the book under it.
THEOREM StoreInvariant == Spec => []StoreInv
<1>1. Init => StoreInv
  BY InitStore
<1>2. StoreInv /\ [Next]_vars => StoreInv'
  BY StoreStep
<1> QED BY <1>1, <1>2, PTL DEF Spec

\* What a reader finds behind series id.
LEMMA ReadersSee ==
  ASSUME StoreInv, NEW id \in DOMAIN snap
  PROVE  \E h \in Contributors(book, id) :
           /\ Best(book, id, h) /\ snap[id] = View(book, id, h)
           /\ \A s \in Source : book[s] \in Seq(Observation)
<1>1. \A s \in Source : book[s] \in Seq(Observation)
  BY BooksAre DEF StoreInv, Typing
<1> QED BY <1>1, SnapshotIs DEF StoreInv

\* Every variable has its type, and no level outside the published band reaches a
\* reader in a headline, a quote or a history (TypeOK).
THEOREM RateTypes == Spec => []TypeOK
<1>1. StoreInv => TypeOK
  <2> SUFFICES ASSUME StoreInv PROVE TypeOK
    OBVIOUS
  <2>1. ASSUME NEW id \in DOMAIN snap,
               NEW v \in {snap[id].value} \cup {p.value : p \in snap[id].history}
                         \cup {snap[id].latest[s].value : s \in DOMAIN snap[id].latest}
        PROVE  v >= -MaxLevel /\ v <= MaxLevel
    <3>1. PICK h \in Contributors(book, id) :
           snap[id] = View(book, id, h) /\ \A s \in Source : book[s] \in Seq(Observation)
      BY ReadersSee
    <3> DEFINE w == snap[id]
    <3>2. /\ w.latest[h].value = w.value
          /\ \A p \in w.history : UsableLevel(p.value)
          /\ DOMAIN w.latest = Contributors(book, id)
          /\ \A s \in Contributors(book, id) :
               UsableLevel(w.latest[s].value) /\ w.latest[s].value \in Int
      <4>1. ViewFacts(book, id, h, w)
        BY <3>1, ViewIs
      <4> HIDE DEF w
      <4> QED BY <4>1 DEF ViewFacts
    <3> HIDE DEF w
    <3>3. UsableLevel(v)
      BY <2>1, <3>2 DEF w
    <3> QED BY <3>3, RateBookAssumption DEF UsableLevel
  <2> QED BY <2>1 DEF TypeOK, StoreInv, Typing
<1> QED BY <1>1, StoreInvariant, PTL

\* The headline readers are given is the best quote behind its series, in whatever
\* order the map of sources is walked (HeadlineIsBest).
THEOREM HeadlineIsTheBest == Spec => []HeadlineIsBest
<1>1. StoreInv => HeadlineIsBest
  <2> SUFFICES ASSUME StoreInv, NEW id \in DOMAIN snap, NEW s \in DOMAIN snap[id].latest
               PROVE  /\ Rank[s] <= Rank[snap[id].source]
                      /\ Rank[s] = Rank[snap[id].source] => snap[id].latest[s].date <= snap[id].date
    BY DEF HeadlineIsBest
  <2>1. PICK h \in Contributors(book, id) :
         /\ Best(book, id, h) /\ snap[id] = View(book, id, h)
         /\ \A t \in Source : book[t] \in Seq(Observation)
    BY ReadersSee
  <2> DEFINE w == snap[id]
  <2>2. /\ w.latest = [t \in Contributors(book, id) |-> Quote(book, id, t)]
        /\ w.date = w.latest[h].date /\ w.source = h
    <3>1. ViewFacts(book, id, h, w)
      BY <2>1, ViewIs
    <3> HIDE DEF w
    <3> QED BY <3>1 DEF ViewFacts, Quote
  <2>3. /\ s \in Contributors(book, id) /\ w.latest[s] = Quote(book, id, s)
        /\ w.date = Quote(book, id, h).date
    BY <2>2
  <2> HIDE DEF w
  <2>4. /\ Rank[s] <= Rank[w.source]
        /\ Rank[s] = Rank[w.source] => w.latest[s].date <= w.date
    BY <2>1, <2>2, <2>3 DEF Best
  <2> QED BY <2>4 DEF w
<1> QED BY <1>1, StoreInvariant, PTL

\* The headline, the quote of its source and the end of its history are one
\* observation, and the history has one point a day (HistoryEndsAtTheHeadline).
THEOREM HistoryAndHeadlineAgree == Spec => []HistoryEndsAtTheHeadline
<1>1. StoreInv => HistoryEndsAtTheHeadline
  <2> SUFFICES ASSUME StoreInv, NEW id \in DOMAIN snap
               PROVE  LET v == snap[id] IN
                      /\ [date |-> v.date, value |-> v.value] \in v.history
                      /\ \A p \in v.history : p.date <= v.date
                      /\ \A p, q \in v.history : Day(p.date) = Day(q.date) => p = q
                      /\ v.latest[v.source].value = v.value
    BY DEF HistoryEndsAtTheHeadline
  <2>1. PICK h \in Contributors(book, id) :
         /\ snap[id] = View(book, id, h) /\ \A t \in Source : book[t] \in Seq(Observation)
    BY ReadersSee
  <2> DEFINE w == snap[id]
  <2>2. w = View(book, id, h)
    BY <2>1
  <2> HIDE DEF w
  <2>3. /\ [date |-> w.date, value |-> w.value] \in w.history
        /\ \A p \in w.history : p.date <= w.date
        /\ \A p, q \in w.history : Day(p.date) = Day(q.date) => p = q
        /\ w.latest[h].value = w.value /\ w.source = h
    <3>1. ViewFacts(book, id, h, w)
      BY <2>1, <2>2, ViewIs
    <3> QED BY <3>1 DEF ViewFacts
  <2> QED BY <2>3 DEF w
<1> QED BY <1>1, StoreInvariant, PTL

\* The sources a reader finds behind a series are its contributors in the book.
LEMMA QuotedIs ==
  ASSUME NEW b \in Books, NEW sn \in Materialize(b), NEW id \in Series
  PROVE  (IF id \in DOMAIN sn THEN DOMAIN sn[id].latest ELSE {}) = Contributors(b, id)
<1>1. \A s \in Source : b[s] \in Seq(Observation)
  BY BooksAre
<1>2. CASE id \in Ids(b)
  <2>1. PICK h \in Contributors(b, id) : sn[id] = View(b, id, h)
    BY <1>1, <1>2, SnapshotIs
  <2> DEFINE v == sn[id]
  <2>2. v.latest = [s \in Contributors(b, id) |-> Newest(Admitted(b[s], id))]
    <3>1. ViewFacts(b, id, h, v)
      BY <1>1, <2>1, ViewIs
    <3> HIDE DEF v
    <3> QED BY <3>1 DEF ViewFacts
  <2>3. DOMAIN v.latest = Contributors(b, id)
    BY <2>2
  <2> QED BY <1>1, <1>2, <2>3, SnapshotIs
<1>3. CASE id \notin Ids(b)
  <2>1. id \notin DOMAIN sn
    BY <1>1, <1>3, SnapshotIs
  <2> QED BY <1>3, <2>1 DEF Ids, Contributors
<1> QED BY <1>2, <1>3

\* A source leaves a series only by a successful fetch that brought nothing usable
\* for it: a failing source keeps its quotes (NeverLosesAQuote).
THEOREM QuotesSurviveFailures == Spec => NeverLosesAQuote
<1> DEFINE Survives ==
      \A id \in Series : \A s \in Quoted(id) :
        s \notin Quoted(id)' => ~status'[s].failed /\ Admitted(book'[s], id) = <<>>
<1>1. StoreInv /\ StoreInv' /\ [Next]_vars => [Survives]_vars
  <2> SUFFICES ASSUME StoreInv, StoreInv', Next, NEW id \in Series,
                      NEW s \in Quoted(id), s \notin Quoted(id)'
               PROVE  ~status'[s].failed /\ Admitted(book'[s], id) = <<>>
    OBVIOUS
  <2>1. s \in Contributors(book, id)
    BY QuotedIs DEF Quoted, StoreInv, Typing
  <2>2. s \notin Contributors(book', id)
    <3>1. book' \in Books /\ snap' \in Materialize(book')
      BY DEF StoreInv, Typing
    <3> QED BY <3>1, QuotedIs DEF Quoted
  <2>3. s \in Source
    BY <2>1 DEF Contributors
  <2>4. Admitted(book'[s], id) = <<>> /\ book'[s] # book[s]
    BY <2>1, <2>2, <2>3 DEF Contributors
  <2>5. Apply
    <3>1. book' # book
      BY <2>4
    <3> QED BY <3>1 DEF Next, Publish, Toggle, FetchEnd, Begin, Return, Cancel, Stop, storeVars
  <2>6. PICK r \in results :
           /\ r \in Outcome
           /\ book' = IF r.err THEN book ELSE [book EXCEPT ![r.source] = r.obs]
           /\ ~r.err => ~status'[r.source].failed
    BY <2>5, ApplyDoes
  <2>7. book \in [Source -> {<<>>} \cup UNION {Lists[t] : t \in Source}]
    BY BooksAre DEF StoreInv, Typing
  <2>8. ~r.err /\ r.source = s
    BY <2>3, <2>4, <2>6, <2>7
  <2> QED BY <2>4, <2>6, <2>8
<1>2. Spec => [][Survives]_vars
  BY <1>1, StoreInvariant, PTL DEF Spec
<1> QED BY <1>2 DEF NeverLosesAQuote

\* A day has a length.
LEMMA DayLengthType == DayLength \in Nat /\ DayLength > 0
<1>1. DayLength \in Nat \ {0}
  BY RateBookAssumption, Zenon
<1> QED BY <1>1

\* Of n ends in order, x has passed the first k.
InBand(x, ends, n, k) ==
  /\ n \in Nat /\ k \in 0..n
  /\ DOMAIN ends = 1..n
  /\ \A i \in 1..n : ends[i] <= x <=> i <= k

\* Then Below is the factor after the k-th.
LEMMA BelowIs ==
  ASSUME NEW x, NEW ends, NEW factors, NEW n, NEW k, InBand(x, ends, n, k)
  PROVE  Below(x, ends, factors) = factors[k + 1]
<1>1. {i \in DOMAIN ends : ends[i] <= x} = 1..k
  BY DEF InBand
<1>2. Cardinality(1..k) = k
  BY FS_Interval DEF InBand
<1> QED BY <1>1, <1>2 DEF Below

\* The factors a grade is the product of.
LEMMA SourceClassIs ==
  ASSUME NEW s \in Source
  PROVE  /\ SourceClass(s) \in 0..100
         /\ Rank[s] # 4 => SourceClass(s) <= 97
<1>1. Rank[s] \in 0..4
  BY RankType
<1>2. CASE Rank[s] = 0
  BY <1>2 DEF SourceClass
<1>3. CASE Rank[s] = 1
  BY <1>3 DEF SourceClass, Class
<1>4. CASE Rank[s] = 2
  BY <1>4 DEF SourceClass, Class
<1>5. CASE Rank[s] = 3
  BY <1>5 DEF SourceClass, Class
<1>6. CASE Rank[s] = 4
  BY <1>6 DEF SourceClass, Class
<1> QED BY <1>1, <1>2, <1>3, <1>4, <1>5, <1>6

\* A headline of more than sixteen days has a freshness of 82 at most, and one of
\* more than three days is never as good as new.
LEMMA FreshnessIs ==
  ASSUME NEW age \in Int
  PROVE  /\ Freshness(age) \in 0..100
         /\ ~(age < 3 * DayLength) => Freshness(age) <= 97
         /\ ~(age < 16 * DayLength) => Freshness(age) <= 82
<1> DEFINE D == DayLength
           ends == <<3 * D, 16 * D, 50 * D, 150 * D>>
           factors == <<100, 97, 82, 60, 40>>
<1>1. D \in Nat /\ 3 * D < 16 * D /\ 16 * D < 50 * D /\ 50 * D < 150 * D
  <2>1. D \in Nat /\ D > 0
    BY DayLengthType
  <2> HIDE DEF D
  <2> QED BY <2>1
<1>2. DOMAIN ends = 1..4 /\ ends[1] = 3 * D /\ ends[2] = 16 * D /\ ends[3] = 50 * D
      /\ ends[4] = 150 * D
  OBVIOUS
<1>3. factors[1] = 100 /\ factors[2] = 97 /\ factors[3] = 82 /\ factors[4] = 60 /\ factors[5] = 40
  OBVIOUS
<1>4. Freshness(age) = Below(age, ends, factors)
  BY DEF Freshness
<1> HIDE DEF ends, factors, D
<1>5. \A i \in 1..4 : i = 1 \/ i = 2 \/ i = 3 \/ i = 4
  OBVIOUS
<1>6. CASE age < 3 * D
  <2>1. \A i \in 1..4 : ends[i] <= age <=> i <= 0
    BY <1>1, <1>2, <1>5, <1>6
  <2>2. InBand(age, ends, 4, 0)
    BY <1>2, <2>1 DEF InBand
  <2>3. Freshness(age) = factors[0 + 1]
    BY <1>4, <2>2, BelowIs
  <2> QED BY <1>1, <1>3, <1>6, <2>3 DEF D
<1>7. CASE ~(age < 3 * D) /\ age < 16 * D
  <2>1. \A i \in 1..4 : ends[i] <= age <=> i <= 1
    BY <1>1, <1>2, <1>5, <1>7
  <2>2. InBand(age, ends, 4, 1)
    BY <1>2, <2>1 DEF InBand
  <2>3. Freshness(age) = factors[1 + 1]
    BY <1>4, <2>2, BelowIs
  <2> QED BY <1>1, <1>3, <1>7, <2>3 DEF D
<1>8. CASE ~(age < 16 * D) /\ age < 50 * D
  <2>1. \A i \in 1..4 : ends[i] <= age <=> i <= 2
    BY <1>1, <1>2, <1>5, <1>8
  <2>2. InBand(age, ends, 4, 2)
    BY <1>2, <2>1 DEF InBand
  <2>3. Freshness(age) = factors[2 + 1]
    BY <1>4, <2>2, BelowIs
  <2> QED BY <1>1, <1>3, <1>8, <2>3 DEF D
<1>9. CASE ~(age < 50 * D) /\ age < 150 * D
  <2>1. \A i \in 1..4 : ends[i] <= age <=> i <= 3
    BY <1>1, <1>2, <1>5, <1>9
  <2>2. InBand(age, ends, 4, 3)
    BY <1>2, <2>1 DEF InBand
  <2>3. Freshness(age) = factors[3 + 1]
    BY <1>4, <2>2, BelowIs
  <2> QED BY <1>1, <1>3, <1>9, <2>3 DEF D
<1>10. CASE ~(age < 150 * D)
  <2>1. \A i \in 1..4 : ends[i] <= age <=> i <= 4
    BY <1>1, <1>2, <1>5, <1>10
  <2>2. InBand(age, ends, 4, 4)
    BY <1>2, <2>1 DEF InBand
  <2>3. Freshness(age) = factors[4 + 1]
    BY <1>4, <2>2, BelowIs
  <2> QED BY <1>1, <1>3, <1>10, <2>3 DEF D
<1> QED BY <1>1, <1>6, <1>7, <1>8, <1>9, <1>10

\* A spread of more than ten basis points has a factor of 88 at most.
LEMMA SpreadBandIs ==
  ASSUME NEW spread \in Int
  PROVE  /\ SpreadBand(spread).factor \in 0..100
         /\ ~(spread <= 10) => SpreadBand(spread).factor <= 88
<1> DEFINE ends == <<3, 11, 26>>   factors == <<100, 95, 88, 78>>
<1>1. DOMAIN ends = 1..3 /\ ends[1] = 3 /\ ends[2] = 11 /\ ends[3] = 26
  OBVIOUS
<1>2. factors[1] = 100 /\ factors[2] = 95 /\ factors[3] = 88 /\ factors[4] = 78
  OBVIOUS
<1>3. SpreadBand(spread).factor = Below(spread, ends, factors)
  BY DEF SpreadBand
<1> HIDE DEF ends, factors
<1>4. CASE spread < 3
  <2>1. InBand(spread, ends, 3, 0)
    BY <1>1, <1>4 DEF InBand
  <2>2. Below(spread, ends, factors) = factors[0 + 1]
    BY <2>1, BelowIs
  <2> QED BY <1>2, <1>3, <1>4, <2>2
<1>5. CASE spread \in 3..10
  <2>1. InBand(spread, ends, 3, 1)
    BY <1>1, <1>5 DEF InBand
  <2>2. Below(spread, ends, factors) = factors[1 + 1]
    BY <2>1, BelowIs
  <2> QED BY <1>2, <1>3, <1>5, <2>2
<1>6. CASE spread \in 11..25
  <2>1. InBand(spread, ends, 3, 2)
    BY <1>1, <1>6 DEF InBand
  <2>2. Below(spread, ends, factors) = factors[2 + 1]
    BY <2>1, BelowIs
  <2> QED BY <1>2, <1>3, <1>6, <2>2
<1>7. CASE spread > 25
  <2>1. InBand(spread, ends, 3, 3)
    BY <1>1, <1>7 DEF InBand
  <2>2. Below(spread, ends, factors) = factors[3 + 1]
    BY <2>1, BelowIs
  <2> QED BY <1>2, <1>3, <1>7, <2>2
<1> QED BY <1>4, <1>5, <1>6, <1>7

\* The extremes of the published levels exist.
LEMMA LevelsHaveEnds ==
  ASSUME NEW S, S # {}, \A v \in S : v \in Int /\ UsableLevel(v)
  PROVE  /\ Max(S) \in S /\ \A v \in S : v <= Max(S)
         /\ Min(S) \in S /\ \A v \in S : Min(S) <= v
<1> DEFINE M == MaxLevel
           A == {n \in Nat : \E v \in S : n = v + M}
           B == {n \in Nat : \E v \in S : n = M - v}
<1>1. M \in Nat /\ \A v \in S : v \in Int /\ -M <= v /\ v <= M
  BY RateBookAssumption DEF UsableLevel
<1> HIDE DEF M
<1>2. \A v \in S : v + M \in A /\ M - v \in B
  BY <1>1
<1>3. A \subseteq Nat /\ A # {} /\ B \subseteq Nat /\ B # {}
  BY <1>2
<1>4. PICK a \in A : \A n \in A : a <= n
  <2> HIDE DEF A
  <2> QED BY <1>3, Least
<1>5. PICK b \in B : \A n \in B : b <= n
  <2> HIDE DEF B
  <2> QED BY <1>3, Least
<1>6. PICK lo \in S : a = lo + M
  BY <1>4
<1>7. PICK hi \in S : b = M - hi
  BY <1>5
<1>8. \A v \in S : lo <= v
  BY <1>1, <1>2, <1>4, <1>6
<1>9. ASSUME NEW v \in S PROVE v <= hi /\ hi >= v
  <2>1. b <= M - v /\ v \in Int /\ hi \in Int
    BY <1>1, <1>2, <1>5
  <2> QED BY <1>1, <1>7, <2>1
<1>10. Max(S) \in S /\ \A v \in S : Max(S) >= v
  BY <1>7, <1>9 DEF Max
<1>11. Min(S) \in S /\ \A v \in S : Min(S) <= v
  BY <1>6, <1>8 DEF Min
<1> QED BY <1>1, <1>10, <1>11

\* The corroboration of quotes that are all usable.
LEMMA CorroborateIs ==
  ASSUME NEW latest, NEW n \in Nat, n > 0, Cardinality(DOMAIN latest) = n,
         \A s \in DOMAIN latest : latest[s].value \in Int /\ UsableLevel(latest[s].value)
  PROVE  /\ Corroborate(latest).factor \in 0..100
         /\ Corroborate(latest).sources = n
         /\ n = 1 => Corroborate(latest).factor = 90
         /\ Corroborate(latest).factor > 88 => 
              n = 1 \/ \A s, t \in DOMAIN latest : latest[s].value - latest[t].value <= 10
<1> DEFINE levels == {latest[s].value : s \in DOMAIN latest}
           spread == Max(levels) - Min(levels)
           band == SpreadBand(spread)
           c == Corroborate(latest)
<1>1. {s \in DOMAIN latest : UsableLevel(latest[s].value)} = DOMAIN latest
  OBVIOUS
<1>2. c = CASE n = 0 -> [sources |-> 0, agree |-> TRUE, factor |-> 100]
            [] n = 1 -> Alone
            [] n > 1 -> [sources |-> n, agree |-> band.agree, factor |-> band.factor]
  BY <1>1 DEF Corroborate
<1> HIDE DEF c
<1>3. CASE n = 1
  <2>1. c = Alone
    BY <1>2, <1>3
  <2> QED BY <1>3, <2>1 DEF Alone, c
<1>4. CASE n # 1
  <2>1. c = [sources |-> n, agree |-> band.agree, factor |-> band.factor]
    BY <1>2, <1>4
  <2>2. DOMAIN latest # {}
    BY FS_EmptySet
  <2>3. levels # {} /\ \A v \in levels : v \in Int /\ UsableLevel(v)
    BY <2>2
  <2>4. \A s \in DOMAIN latest : latest[s].value \in levels
    OBVIOUS
  <2> HIDE DEF levels
  <2>5. /\ Max(levels) \in Int /\ \A v \in levels : v <= Max(levels)
        /\ Min(levels) \in Int /\ \A v \in levels : Min(levels) <= v
    BY <2>3, LevelsHaveEnds
  <2>6. \A s, t \in DOMAIN latest : latest[s].value - latest[t].value <= spread
    BY <2>3, <2>4, <2>5
  <2>7. spread \in Int
    BY <2>5
  <2> HIDE DEF spread
  <2>8. band.factor \in 0..100 /\ (band.factor > 88 => spread <= 10)
    BY <2>7, SpreadBandIs
  <2>9. c.sources = n /\ c.factor = band.factor
    BY <2>1
  <2> HIDE DEF band
  <2>10. ASSUME c.factor > 88, NEW s \in DOMAIN latest, NEW t \in DOMAIN latest
         PROVE  latest[s].value - latest[t].value <= 10
    BY <2>6, <2>7, <2>8, <2>9, <2>10
  <2> QED BY <1>4, <2>8, <2>9, <2>10 DEF c
<1> QED BY <1>3, <1>4

\* Products of natural numbers grow with their factors.
LEMMA ProductBound ==
  ASSUME NEW a \in Nat, NEW b \in Nat, NEW p \in Nat, NEW q \in Nat, a <= p, b <= q
  PROVE  a * b \in Nat /\ a * b <= p * q
<1>1. a * b <= p * b
  OBVIOUS
<1>2. p * b <= p * q
  OBVIOUS
<1>3. a * b \in Nat /\ p * b \in Nat /\ p * q \in Nat
  OBVIOUS
<1> QED BY <1>1, <1>2, <1>3

\* The same for four factors.
LEMMA ConfidenceBound ==
  ASSUME NEW a \in Nat, NEW b \in Nat, NEW c \in Nat, NEW d \in Nat,
         NEW p \in Nat, NEW q \in Nat, NEW r \in Nat, NEW t \in Nat,
         a <= p, b <= q, c <= r, d <= t
  PROVE  a * b * c * d \in Nat /\ a * b * c * d <= p * q * r * t
<1>1. a * b \in Nat /\ a * b <= p * q /\ p * q \in Nat
  BY ProductBound
<1> DEFINE x == a * b   y == p * q
<1>2. x \in Nat /\ y \in Nat /\ x <= y
  BY <1>1
<1> HIDE DEF x, y
<1>3. x * c \in Nat /\ x * c <= y * r /\ y * r \in Nat
  BY <1>2, ProductBound
<1> DEFINE u == x * c   w == y * r
<1>4. u \in Nat /\ w \in Nat /\ u <= w
  BY <1>3
<1> HIDE DEF u, w
<1>5. u * d \in Nat /\ u * d <= w * t
  BY <1>4, ProductBound
<1> QED BY <1>5 DEF u, w, x, y

\* A confidence of 0.895, before it is rounded, in units of 1e-8.
EarnsA(x) == x >= 89500000

\* Nothing less is graded A.
LEMMA GradeAIs ==
  ASSUME NEW x \in Nat, Grade(Round2(x)) = "A"
  PROVE  EarnsA(x)
<1> DEFINE c == Round2(x)
<1>1. c \in Int /\ (c >= 90 => EarnsA(x))
  BY SMT DEF Round2, EarnsA
<1> HIDE DEF c
<1>2. Grade(c) = "A" => c >= 90
  BY SMT DEF Grade
<1> QED BY <1>1, <1>2, SMT DEF c

Under(a, p) == a \in Nat /\ p \in Nat /\ a <= p

\* What earns an A, earns it with greater factors.
LEMMA TooLow ==
  ASSUME NEW a, NEW b, NEW c, NEW d, NEW p, NEW q, NEW r, NEW t,
         Under(a, p), Under(b, q), Under(c, r), Under(d, t), EarnsA(a * b * c * d)
  PROVE  EarnsA(p * q * r * t)
<1>1. /\ a \in Nat /\ b \in Nat /\ c \in Nat /\ d \in Nat
      /\ p \in Nat /\ q \in Nat /\ r \in Nat /\ t \in Nat
      /\ a <= p /\ b <= q /\ c <= r /\ d <= t
  BY DEF Under
<1> DEFINE x == a * b * c * d   y == p * q * r * t
<1>2. x \in Nat /\ x <= y /\ y \in Nat
  BY <1>1, ConfidenceBound
<1> HIDE DEF x, y
<1>3. EarnsA(x) => EarnsA(y)
  BY <1>2, SMT DEF EarnsA
<1> QED BY <1>3 DEF x, y

\* The factors of a confidence: source, freshness, corroboration and caveat.
Factors(a, b, c, d) == a \in 0..100 /\ b \in 0..100 /\ c \in 0..100 /\ d \in 0..100

\* What an A takes of each of them; the corroboration of a single source is 90.
LEMMA FactorsOfAnA ==
  ASSUME NEW a, NEW b, NEW c, NEW d, Factors(a, b, c, d), EarnsA(a * b * c * d)
  PROVE  b > 82 /\ c > 88 /\ (c = 90 => a > 97 /\ b > 97 /\ d > 92)
<1>1. a \in Nat /\ b \in Nat /\ c \in Nat /\ d \in Nat
  BY DEF Factors
<1> DEFINE full == 100   single == 90
<1>2. Under(a, full) /\ Under(b, full) /\ Under(c, full) /\ Under(d, full)
  BY DEF Factors, Under
<1> HIDE DEF full, single
<1>3. ASSUME b <= 82 PROVE FALSE
  <2> DEFINE k == 82
  <2>1. Under(b, k)
    BY <1>1, <1>3 DEF Under
  <2> HIDE DEF k
  <2>2. EarnsA(full * k * full * full)
    BY <1>2, <2>1, TooLow
  <2> QED BY <2>2, SMT DEF EarnsA, full, k
<1>4. ASSUME c <= 88 PROVE FALSE
  <2> DEFINE k == 88
  <2>1. Under(c, k)
    BY <1>1, <1>4 DEF Under
  <2> HIDE DEF k
  <2>2. EarnsA(full * full * k * full)
    BY <1>2, <2>1, TooLow
  <2> QED BY <2>2, SMT DEF EarnsA, full, k
<1>5. ASSUME c = 90 PROVE a > 97 /\ b > 97 /\ d > 92
  <2>1. Under(c, single)
    BY <1>5 DEF Under, single
  <2>2. ASSUME a <= 97 PROVE FALSE
    <3> DEFINE k == 97
    <3>1. Under(a, k)
      BY <1>1, <2>2 DEF Under
    <3> HIDE DEF k
    <3>2. EarnsA(k * full * single * full)
      BY <1>2, <2>1, <3>1, TooLow
    <3> QED BY <3>2, SMT DEF EarnsA, full, single, k
  <2>3. ASSUME b <= 97 PROVE FALSE
    <3> DEFINE k == 97
    <3>1. Under(b, k)
      BY <1>1, <2>3 DEF Under
    <3> HIDE DEF k
    <3>2. EarnsA(full * k * single * full)
      BY <1>2, <2>1, <3>1, TooLow
    <3> QED BY <3>2, SMT DEF EarnsA, full, single, k
  <2>4. ASSUME d <= 92 PROVE FALSE
    <3> DEFINE k == 92
    <3>1. Under(d, k)
      BY <1>1, <2>4 DEF Under
    <3> HIDE DEF k
    <3>2. EarnsA(full * full * single * k)
      BY <1>2, <2>1, <3>1, TooLow
    <3> QED BY <3>2, SMT DEF EarnsA, full, single, k
  <2> QED BY <1>1, <2>2, <2>3, <2>4
<1> QED BY <1>1, <1>3, <1>4, <1>5

\* What an entry of a snapshot is made of, as far as its grade goes.
Entry(v) ==
  /\ v.source \in Source
  /\ v.date \in Nat
  /\ v.source \in DOMAIN v.latest /\ DOMAIN v.latest \subseteq Source
  /\ \A s \in DOMAIN v.latest : v.latest[s].value \in Int /\ UsableLevel(v.latest[s].value)

\* No entry is graded A that has not earned it.
LEMMA EntryIsGradedFairly ==
  ASSUME NEW id, NEW v, NEW now \in Nat, Entry(v)
  PROVE  GradeAIsEarned(HeadlineView(id, v, now))
<1> DEFINE n == Cardinality(DOMAIN v.latest)
           age == now - v.date
           corroboration == Corroborate(v.latest)
           caveat == IF Area[id] \in Caveated THEN 92 ELSE 100
           x == SourceClass(v.source) * Freshness(age) * corroboration.factor * caveat
           quality == Assess(id, v, now)
           hv == HeadlineView(id, v, now)
<1>1. n \in Nat /\ n > 0
  <2>1. IsFiniteSet(DOMAIN v.latest)
    BY RateBookAssumption, FS_Subset DEF Entry
  <2>2. DOMAIN v.latest # {}
    BY DEF Entry
  <2> QED BY <2>1, <2>2, FS_CardinalityType, FS_EmptySet
<1>2. /\ corroboration.factor \in 0..100
      /\ corroboration.sources = n
      /\ n = 1 => corroboration.factor = 90
      /\ corroboration.factor > 88 => 
           n = 1 \/ \A s, t \in DOMAIN v.latest : v.latest[s].value - v.latest[t].value <= 10
  BY <1>1, CorroborateIs DEF Entry
<1>3. /\ SourceClass(v.source) \in 0..100
      /\ Rank[v.source] # 4 => SourceClass(v.source) <= 97
  BY SourceClassIs DEF Entry
<1>4. /\ age \in Int
      /\ Freshness(age) \in 0..100
      /\ ~(age < 3 * DayLength) => Freshness(age) <= 97
      /\ ~(age < 16 * DayLength) => Freshness(age) <= 82
  <2>1. age \in Int
    BY DEF Entry
  <2> HIDE DEF age
  <2> QED BY <2>1, FreshnessIs
<1>5. caveat \in 0..100 /\ (Area[id] \in Caveated => caveat = 92)
  OBVIOUS
<1>6. /\ hv.age = age /\ hv.quotes = v.latest /\ hv.source = v.source /\ hv.series = id
      /\ hv.quality.grade = Grade(Round2(x))
      /\ corroboration.sources <= 1 => "single" \in hv.quality.caveats
  BY DEF HeadlineView, Assess
<1> HIDE DEF hv, n, age, corroboration, caveat
<1>7. ASSUME hv.quality.grade = "A"
      PROVE  /\ age < 16 * DayLength
             /\ \/ /\ n >= 2
                   /\ \A s, t \in DOMAIN v.latest : v.latest[s].value - v.latest[t].value <= 10
                \/ Rank[v.source] = 4 /\ age < 3 * DayLength /\ Area[id] \notin Caveated
  <2>1. x \in Nat
    <3>1. /\ SourceClass(v.source) \in Nat /\ Freshness(age) \in Nat
          /\ corroboration.factor \in Nat /\ caveat \in Nat
      BY <1>2, <1>3, <1>4, <1>5
    <3> QED BY <3>1, ConfidenceBound
  <2>2. EarnsA(x)
    <3> HIDE DEF x
    <3> QED BY <1>6, <1>7, <2>1, GradeAIs
  <2>3. /\ Freshness(age) > 82 /\ corroboration.factor > 88
        /\ corroboration.factor = 90 =>
             SourceClass(v.source) > 97 /\ Freshness(age) > 97 /\ caveat > 92
    <3>1. Factors(SourceClass(v.source), Freshness(age), corroboration.factor, caveat)
      BY <1>2, <1>3, <1>4, <1>5 DEF Factors
    <3> QED BY <2>2, <3>1, FactorsOfAnA
  <2>4. DayLength \in Nat
    BY DayLengthType
  <2>5. age < 16 * DayLength
    BY <1>4, <2>3, <2>4
  <2>6. CASE n = 1
    BY <1>2, <1>3, <1>4, <1>5, <2>3, <2>4, <2>5, <2>6
  <2>7. CASE n # 1
    BY <1>1, <1>2, <2>3, <2>5, <2>7
  <2> QED BY <2>6, <2>7
<1>8. n = 1 => "single" \in hv.quality.caveats
  BY <1>2, <1>6
<1>9. GradeAIsEarned(hv)
  BY <1>6, <1>7, <1>8 DEF GradeAIsEarned, n
<1> QED BY <1>9 DEF hv

\* Every entry of the snapshot is an entry in this sense, and in its own history.
LEMMA EntriesAre ==
  ASSUME StoreInv, NEW id \in DOMAIN snap
  PROVE  /\ id \in Series /\ Entry(snap[id])
         /\ [date |-> snap[id].date, value |-> snap[id].value] \in snap[id].history
<1>1. PICK h \in Contributors(book, id) :
       /\ snap[id] = View(book, id, h) /\ \A s \in Source : book[s] \in Seq(Observation)
  BY ReadersSee
<1> DEFINE v == snap[id]
<1>2. ViewFacts(book, id, h, v)
  BY <1>1, ViewIs
<1> HIDE DEF v
<1>3. Entry(v) /\ [date |-> v.date, value |-> v.value] \in v.history
  BY <1>2 DEF ViewFacts, Entry, Contributors
<1>4. id \in Series
  BY <1>1, SnapshotIs DEF StoreInv, Ids
<1> QED BY <1>3, <1>4 DEF v

\* The endpoints agree on every snapshot.
LEMMA EndpointsDoAgree ==
  ASSUME StoreInv, NEW now \in Nat
  PROVE  EndpointsAgree(now)
<1>1. "" \notin Series
  BY RateBookAssumption
<1>2. ASSUME NEW id \in DOMAIN snap
      PROVE  /\ \E area \in HandleMeta(snap, status).areas :
                  \E v \in HandleRates(snap, area, Type[id], now) :
                    v = HandleSeries(snap, id, now).series
             /\ [date |-> snap[id].date, value |-> snap[id].value]
                  \in HandleSeries(snap, id, now).history
  <2>1. /\ id \in Series /\ id # ""
        /\ [date |-> snap[id].date, value |-> snap[id].value] \in snap[id].history
    BY <1>1, EntriesAre
  <2>2. /\ HandleSeries(snap, id, now).series = HeadlineView(id, snap[id], now)
        /\ HandleSeries(snap, id, now).history = snap[id].history
    BY <2>1 DEF HandleSeries
  <2>3. Area[id] \in HandleMeta(snap, status).areas
    BY DEF HandleMeta
  <2>4. HeadlineView(id, snap[id], now) \in HandleRates(snap, Area[id], Type[id], now)
    BY DEF HandleRates
  <2> QED BY <2>1, <2>2, <2>3, <2>4
<1>3. ASSUME NEW id \in Series \ DOMAIN snap PROVE HandleSeries(snap, id, now).code = 404
  <2>1. id # ""
    BY <1>1
  <2> QED BY <1>3, <2>1 DEF HandleSeries
<1> QED BY <1>2, <1>3 DEF EndpointsAgree, HandleMeta

\* Whatever the store holds and whenever a client asks, the endpoints agree and no
\* grade is better than its provenance (InterestAnswersAreEarned).
THEOREM AnswersAreEarned == Spec => []InterestAnswersAreEarned
<1>1. StoreInv => InterestAnswersAreEarned
  <2> SUFFICES ASSUME StoreInv, NEW now \in Readings
               PROVE  /\ EndpointsAgree(now)
                      /\ \A v \in HandleRates(snap, "", "", now) : GradeAIsEarned(v)
    BY DEF InterestAnswersAreEarned
  <2>1. now \in Nat
    BY InterestApiAssumption
  <2>2. ASSUME NEW v \in HandleRates(snap, "", "", now) PROVE GradeAIsEarned(v)
    <3>1. PICK id \in DOMAIN snap : v = HeadlineView(id, snap[id], now)
      BY <2>2 DEF HandleRates
    <3> QED BY <2>1, <3>1, EntriesAre, EntryIsGradedFairly
  <2> QED BY <2>1, <2>2, EndpointsDoAgree
<1> QED BY <1>1, StoreInvariant, PTL
=============================================================================
