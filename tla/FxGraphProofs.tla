--------------------------- MODULE FxGraphProofs ---------------------------
(***************************************************************************)
(* Theorems about FxGraph, for any currencies, sources, band and graphs:   *)
(* what the matrix says of every pair is what the quotes say.              *)
(***************************************************************************)
EXTENDS FxGraph, WellFoundedInduction, SequenceTheorems, FiniteSetTheorems, TLAPS

(***************************************************************************)
(* Data: the well-ordering of Nat, and what the recursive definitions compute, *)
(* each by the least argument at which it would not.                       *)
(***************************************************************************)
\* The natural numbers are well ordered.
LEMMA Least ==
  ASSUME NEW S, S \subseteq Nat, S # {}
  PROVE  \E n \in S : \A m \in S : n <= m
<1>1. PICK n \in S : \A m \in S : <<m, n>> \notin OpToRel(<, Nat)
  BY NatLessThanWellFounded, WFMin, Zenon
<1>2. \A m \in S : ~(m < n)
  BY <1>1 DEF OpToRel
<1> QED BY <1>2

\* First picks a member.
LEMMA FirstIsLeast ==
  ASSUME NEW s, s \subseteq Nat, s # {}
  PROVE  First(s) \in s
BY Least DEF First

\* The sums that Product takes.
Sums(legs, n, f) ==
  /\ f \in [0..n -> Int]
  /\ \A i \in 0..n : f[i] = IF i = 0 THEN 0 ELSE f[i - 1] + legs[i].rate

\* There are such sums, however long the chain.
LEMMA SumsExist ==
  ASSUME NEW legs \in Seq(Quote), NEW n \in 0..Len(legs)
  PROVE  \E f : Sums(legs, n, f)
<1> DEFINE none == {m \in 0..Len(legs) : ~\E f : Sums(legs, m, f)}
<1>0. none \subseteq Nat
  OBVIOUS
<1>1. ASSUME none # {} PROVE FALSE
  <2>1. PICK m \in none : \A k \in none : m <= k
    <3> HIDE DEF none
    <3> QED BY <1>0, <1>1, Least
  <2>2. CASE m = 0
    <3>1. Sums(legs, 0, [i \in 0..0 |-> 0])
      BY DEF Sums
    <3> QED BY <2>1, <2>2, <3>1
  <2>3. CASE m # 0
    <3>1. m - 1 \in 0..Len(legs) /\ m - 1 \notin none /\ m \in 1..Len(legs)
      BY <2>1, <2>3
    <3>2. PICK f : Sums(legs, m - 1, f)
      BY <3>1
    <3> DEFINE g == [i \in 0..m |-> IF i = m THEN f[m - 1] + legs[m].rate ELSE f[i]]
    <3>3. legs[m].rate \in Int
      <4>1. legs[m] \in Quote
        BY <3>1, ElementOfSeq
      <4> QED BY <4>1 DEF Quote
    <3>4. g \in [0..m -> Int]
      BY <3>1, <3>2, <3>3 DEF Sums
    <3>5. \A i \in 0..m : g[i] = IF i = 0 THEN 0 ELSE g[i - 1] + legs[i].rate
      BY <2>3, <3>1, <3>2 DEF Sums
    <3> HIDE DEF g
    <3>6. Sums(legs, m, g)
      BY <3>4, <3>5 DEF Sums
    <3> QED BY <2>1, <3>6
  <2> QED BY <2>2, <2>3
<1> QED BY <1>1

\* Product is the last of them.
LEMMA ProductIs ==
  ASSUME NEW legs \in Seq(Quote), NEW f, Sums(legs, Len(legs), f)
  PROVE  Product(legs) = f[Len(legs)]
<1> DEFINE n == Len(legs)
           G(g) == [i \in 0..n |-> IF i = 0 THEN 0 ELSE g[i - 1] + legs[i].rate]
           h == CHOOSE g : g = G(g)
<1>1. n \in Nat
  OBVIOUS
<1>2. f = G(f)
  BY DEF Sums
<1>3. h = G(h)
  BY <1>2
<1>4. Product(legs) = h[n]
  BY DEF Product
<1> HIDE DEF h
<1> DEFINE bad == {i \in 0..n : h[i] # f[i]}
<1>0. bad \subseteq Nat
  OBVIOUS
<1>5. ASSUME bad # {} PROVE FALSE
  <2>1. PICK i \in bad : \A k \in bad : i <= k
    <3> HIDE DEF bad
    <3> QED BY <1>0, <1>5, Least
  <2>2. i = 0 \/ (i - 1 \in 0..n /\ i - 1 \notin bad)
    BY <2>1
  <2>3. h[i] = IF i = 0 THEN 0 ELSE h[i - 1] + legs[i].rate
    BY <1>3
  <2>4. f[i] = IF i = 0 THEN 0 ELSE f[i - 1] + legs[i].rate
    BY DEF Sums
  <2> QED BY <2>1, <2>2, <2>3, <2>4
<1> QED BY <1>1, <1>4, <1>5

\* The chain without a quote.
LEMMA ProductOfNone == Product(<<>>) = 0
<1>1. Sums(<<>>, 0, [i \in 0..0 |-> 0])
  BY DEF Sums
<1> QED BY <1>1, ProductIs

\* A quote more multiplies the product by its rate.
LEMMA ProductAppend ==
  ASSUME NEW legs \in Seq(Quote), NEW e \in Quote
  PROVE  Product(Append(legs, e)) = Product(legs) + e.rate
<1> DEFINE n == Len(legs)
           more == Append(legs, e)
<1>1. PICK f : Sums(legs, n, f)
  BY SumsExist
<1> DEFINE g == [i \in 0..n + 1 |-> IF i = n + 1 THEN f[n] + e.rate ELSE f[i]]
<1>2. n \in Nat /\ more \in Seq(Quote) /\ Len(more) = n + 1 /\ more[n + 1] = e
      /\ \A i \in 1..n : more[i] = legs[i]
  OBVIOUS
<1> HIDE DEF more
<1>3. g \in [0..n + 1 -> Int]
  <2>1. e.rate \in Int
    BY DEF Quote
  <2>2. f \in [0..n -> Int]
    BY <1>1 DEF Sums
  <2> QED BY <1>2, <2>1, <2>2
<1>4. \A i \in 0..n + 1 : g[i] = IF i = 0 THEN 0 ELSE g[i - 1] + more[i].rate
  BY SMTT(30), <1>1, <1>2 DEF Sums
<1>5. g[n + 1] = f[n] + e.rate
  BY <1>2
<1> HIDE DEF g
<1>6. Sums(more, n + 1, g)
  BY <1>3, <1>4 DEF Sums
<1>7. Product(legs) = f[n]
  BY <1>1, ProductIs
<1>8. Product(more) = g[n + 1]
  BY <1>2, <1>6, ProductIs
<1> QED BY <1>5, <1>7, <1>8 DEF more

\* What a hop adds to the currencies of s.
Hop(s) == s \cup {e.to : e \in {d \in adj : d.from \in s}}

\* The sets Ball computes.
Rings(a, n, f) == f = [i \in 0..n |-> IF i = 0 THEN {a} ELSE Hop(f[i - 1])]

\* There are such sets.
LEMMA RingsExist ==
  ASSUME NEW a, NEW n \in Nat
  PROVE  \E f : Rings(a, n, f)
<1> DEFINE none == {m \in Nat : ~\E f : Rings(a, m, f)}
<1>1. ASSUME none # {} PROVE FALSE
  <2>1. PICK m \in none : \A k \in none : m <= k
    <3>1. none \subseteq Nat
      OBVIOUS
    <3> HIDE DEF none
    <3> QED BY <1>1, <3>1, Least
  <2>2. CASE m = 0
    <3>1. Rings(a, 0, [i \in 0..0 |-> {a}])
      BY DEF Rings
    <3> QED BY <2>1, <2>2, <3>1
  <2>3. CASE m # 0
    <3>1. m \in Nat /\ m - 1 \in Nat /\ m - 1 \notin none
      BY <2>1, <2>3
    <3>2. PICK f : Rings(a, m - 1, f)
      BY <3>1
    <3> DEFINE g == [i \in 0..m |-> IF i = m THEN Hop(f[m - 1]) ELSE f[i]]
    <3>3. \A i \in 0..m - 1 : f[i] = IF i = 0 THEN {a} ELSE Hop(f[i - 1])
      BY <3>2 DEF Rings
    <3>4. \A i \in 0..m : g[i] = IF i = 0 THEN {a} ELSE Hop(g[i - 1])
      <4> TAKE i \in 0..m
      <4>1. CASE i = m
        BY <2>3, <3>1, <4>1
      <4>2. CASE i # m
        <5>1. i \in 0..m - 1 /\ (i # 0 => i - 1 \in 0..m /\ i - 1 # m)
          BY <3>1, <4>2
        <5>2. g[i] = f[i] /\ (i # 0 => g[i - 1] = f[i - 1])
          BY <4>2, <5>1
        <5> HIDE DEF g
        <5> QED BY <3>3, <5>1, <5>2
      <4> QED BY <4>1, <4>2
    <3>5. g = [i \in 0..m |-> g[i]]
      OBVIOUS
    <3> HIDE DEF g
    <3>6. Rings(a, m, g)
      BY <3>4, <3>5 DEF Rings
    <3> QED BY <2>1, <3>6
  <2> QED BY <2>2, <2>3
<1> QED BY <1>1

\* Ball computes the rings.
LEMMA BallIs ==
  ASSUME NEW a
  PROVE  LET N == Cardinality(Currency)   ball == Ball(a) IN
         /\ N \in Nat
         /\ ball[0] = {a}
         /\ \A n \in 1..N : ball[n] = Hop(ball[n - 1])
<1> DEFINE N == Cardinality(Currency)
           h == CHOOSE g : g = [n \in 0..N |-> IF n = 0 THEN {a} ELSE Hop(g[n - 1])]
<1>1. N \in Nat
  BY FxGraphAssumption, FS_CardinalityType
<1>2. PICK f : Rings(a, N, f)
  BY <1>1, RingsExist
<1>3. h = [n \in 0..N |-> IF n = 0 THEN {a} ELSE Hop(h[n - 1])]
  BY <1>2 DEF Rings
<1>4. Ball(a) = h
  BY DEF Ball, Hop
<1> HIDE DEF h, N
<1>5. \A n \in 0..N : h[n] = IF n = 0 THEN {a} ELSE Hop(h[n - 1])
  BY <1>3, Zenon
<1>6. h[0] = {a} /\ \A n \in 1..N : h[n] = Hop(h[n - 1])
  BY <1>1, <1>5
<1> QED BY <1>1, <1>4, <1>6 DEF N

\* The rings only grow.
LEMMA BallGrows ==
  ASSUME NEW a, NEW m \in 0..Cardinality(Currency), NEW n \in m..Cardinality(Currency)
  PROVE  Ball(a)[m] \subseteq Ball(a)[n]
<1> DEFINE N == Cardinality(Currency)
           less == {k \in m..N : ~(Ball(a)[m] \subseteq Ball(a)[k])}
<1>1. N \in Nat /\ \A k \in 1..N : Ball(a)[k - 1] \subseteq Ball(a)[k]
  BY BallIs DEF Hop
<1>2. ASSUME less # {} PROVE FALSE
  <2>1. PICK k \in less : \A l \in less : k <= l
    <3>1. less \subseteq Nat
      BY <1>1
    <3> HIDE DEF less
    <3> QED BY <1>2, <3>1, Least
  <2>2. k # m /\ k - 1 \in m..N /\ k - 1 \notin less /\ k \in 1..N
    BY <1>1, <2>1
  <2>3. Ball(a)[m] \subseteq Ball(a)[k - 1]
    BY <2>2
  <2> QED BY <1>1, <2>1, <2>2, <2>3
<1> QED BY <1>1, <1>2

(***************************************************************************)
(* Pairs: what a leg adds to one.                                          *)
(***************************************************************************)
\* The currencies on a pair's path.
Visits(p) == {p.path[i] : i \in DOMAIN p.path}

\* The pair of a start is explained by no leg.
LEMMA SelfExplained ==
  ASSUME NEW c \in Currency
  PROVE  Self(c) \in Pairs /\ ProvenanceOf(c, c, Self(c)) /\ Visits(Self(c)) = {c}
<1> DEFINE p == Self(c)
<1>1. /\ p.rate = 0 /\ p.hops = 0 /\ p.asOf = Now /\ p.path = <<c>>
      /\ p.sources = <<>> /\ p.legs = <<>>
  BY DEF Self
<1>2. p \in Pairs
  BY FxGraphAssumption DEF Self, Pairs
<1>3. Now <= Now
  BY FxGraphAssumption
<1> HIDE DEF p
<1>4. Len(p.path) = 1 /\ p.path[1] = c /\ DOMAIN p.path = {1} /\ Len(p.legs) = 0
      /\ DOMAIN p.legs = {} /\ DOMAIN p.sources = {}
  BY <1>1
<1>5. ProvenanceOf(c, c, p)
  <2>1. p.rate = Product(p.legs)
    BY <1>1, ProductOfNone
  <2> QED BY <1>1, <1>3, <1>4, <2>1 DEF ProvenanceOf
<1>6. Visits(p) = {c}
  BY <1>4 DEF Visits
<1> QED BY <1>2, <1>5, <1>6 DEF p

\* What Append does to a sequence, index by index.
LEMMA Appended ==
  ASSUME NEW T, NEW s \in Seq(T), NEW x \in T
  PROVE  LET n == Len(s)   t == Append(s, x) IN
         /\ n \in Nat /\ t \in Seq(T) /\ Len(t) = n + 1
         /\ DOMAIN s = 1..n /\ DOMAIN t = DOMAIN s \cup {n + 1} /\ n + 1 \notin DOMAIN s
         /\ t[n + 1] = x /\ \A i \in DOMAIN s : t[i] = s[i]
OBVIOUS

\* What a sequence holds.
Members(xs) == {xs[i] : i \in DOMAIN xs}

\* AddDistinct adds its argument, once.
LEMMA AddDistinctMembers ==
  ASSUME NEW T, NEW xs \in Seq(T), NEW x \in T,
         \A i, j \in DOMAIN xs : xs[i] = xs[j] => i = j,
         NEW ys, ys = AddDistinct(xs, x)
  PROVE  /\ ys \in Seq(T)
         /\ Members(ys) = Members(xs) \cup {x}
         /\ \A i, j \in DOMAIN ys : ys[i] = ys[j] => i = j
<1>1. CASE \E i \in DOMAIN xs : xs[i] = x
  BY <1>1 DEF AddDistinct, Members
<1>2. CASE ~\E i \in DOMAIN xs : xs[i] = x
  <2> DEFINE n == Len(xs)
  <2>2. ys = Append(xs, x)
    BY <1>2 DEF AddDistinct
  <2>1. /\ ys \in Seq(T) /\ DOMAIN ys = 1..n + 1 /\ DOMAIN xs = 1..n /\ n \in Nat
        /\ ys[n + 1] = x /\ \A i \in 1..n : ys[i] = xs[i]
    BY <2>2
  <2> HIDE DEF n
  <2>3. Members(ys) = Members(xs) \cup {x}
    BY <2>1 DEF Members
  <2>4. \A i, j \in DOMAIN ys : ys[i] = ys[j] => i = j
    BY <1>2, <2>1
  <2> QED BY <2>1, <2>2, <2>3, <2>4
<1> QED BY <1>1, <1>2

\* A leg more: the pair stays explained by its legs.
LEMMA ExtendedExplained ==
  ASSUME NEW a, NEW p \in Pairs, NEW e \in adj, adj \subseteq Quote,
         ProvenanceOf(a, e.from, p), Usable(p.rate + e.rate), e.to \notin Visits(p)
  PROVE  /\ Extended(p, e) \in Pairs
         /\ ProvenanceOf(a, e.to, Extended(p, e))
         /\ Visits(Extended(p, e)) = Visits(p) \cup {e.to}
<1> DEFINE q == Extended(p, e)   n == p.hops
<1>1. /\ p.rate \in -Band..Band /\ n \in Nat /\ p.asOf \in Int /\ p.path \in Seq(Currency)
      /\ p.sources \in Seq(Source) /\ p.legs \in Seq(Quote)
  BY DEF Pairs
<1>2. /\ e \in Quote /\ e.from \in Currency /\ e.to \in Currency /\ e.rate \in Int
      /\ e.source \in Source /\ e.time \in Int
  BY DEF Quote
<1>3. /\ q.rate = p.rate + e.rate /\ q.hops = n + 1 /\ q.asOf = Older(p.asOf, e.time)
      /\ q.path = Append(p.path, e.to) /\ q.sources = AddDistinct(p.sources, e.source)
      /\ q.legs = Append(p.legs, e)
  BY DEF Extended
<1>4. q = [rate |-> q.rate, hops |-> q.hops, asOf |-> q.asOf, path |-> q.path,
           sources |-> q.sources, legs |-> q.legs]
  BY DEF Extended
<1> HIDE DEF q
<1>5. Len(p.legs) = n /\ Len(p.path) = n + 1 /\ p.path[1] = a /\ p.path[n + 1] = e.from
  BY DEF ProvenanceOf
<1>6. /\ q.path \in Seq(Currency) /\ Len(q.path) = n + 2 /\ DOMAIN p.path = 1..n + 1
      /\ DOMAIN q.path = DOMAIN p.path \cup {n + 2} /\ n + 2 \notin DOMAIN p.path
      /\ q.path[n + 2] = e.to /\ \A i \in DOMAIN p.path : q.path[i] = p.path[i]
  <2> DEFINE s == p.path   m == Len(s)   u == Append(s, e.to)
  <2>1. /\ m \in Nat /\ u \in Seq(Currency) /\ Len(u) = m + 1
        /\ DOMAIN s = 1..m /\ DOMAIN u = DOMAIN s \cup {m + 1} /\ m + 1 \notin DOMAIN s
        /\ u[m + 1] = e.to /\ \A i \in DOMAIN s : u[i] = s[i]
    BY SMTT(30), <1>1, <1>2, Appended
  <2>2. m = n + 1 /\ m + 1 = n + 2 /\ n \in Nat
    BY <1>1, <1>5
  <2>3. u = q.path
    BY <1>3
  <2> HIDE DEF m, u
  <2> QED BY <2>1, <2>2, <2>3
<1>7. /\ q.legs \in Seq(Quote) /\ Len(q.legs) = n + 1 /\ DOMAIN p.legs = 1..n
      /\ DOMAIN q.legs = DOMAIN p.legs \cup {n + 1} /\ n + 1 \notin DOMAIN p.legs
      /\ q.legs[n + 1] = e /\ \A i \in DOMAIN p.legs : q.legs[i] = p.legs[i]
  <2> DEFINE s == p.legs   m == Len(s)   u == Append(s, e)
  <2>1. /\ m \in Nat /\ u \in Seq(Quote) /\ Len(u) = m + 1
        /\ DOMAIN s = 1..m /\ DOMAIN u = DOMAIN s \cup {m + 1} /\ m + 1 \notin DOMAIN s
        /\ u[m + 1] = e /\ \A i \in DOMAIN s : u[i] = s[i]
    BY <1>1, <1>2, Appended
  <2> QED BY <1>3, <1>5, <2>1
<1>9. Visits(q) = Visits(p) \cup {e.to}
  BY <1>6 DEF Visits
<1>10. \A i, j \in DOMAIN q.path : q.path[i] = q.path[j] => i = j
  <2>1. \A i \in DOMAIN p.path : p.path[i] # e.to
    BY DEF Visits
  <2>2. \A i, j \in DOMAIN p.path : p.path[i] = p.path[j] => i = j
    BY DEF ProvenanceOf
  <2> QED BY <1>6, <2>1, <2>2
<1>11. \A i \in DOMAIN q.legs : /\ q.legs[i] \in adj
                                /\ q.legs[i].from = q.path[i]
                                /\ q.legs[i].to = q.path[i + 1]
  <2>1. \A i \in DOMAIN p.legs : /\ p.legs[i] \in adj
                                 /\ p.legs[i].from = p.path[i]
                                 /\ p.legs[i].to = p.path[i + 1]
    BY DEF ProvenanceOf
  <2>2. \A i \in DOMAIN p.legs : i \in DOMAIN p.path /\ i + 1 \in DOMAIN p.path
    BY SMTT(30), <1>1, <1>6, <1>7
  <2>3. n + 1 \in DOMAIN p.path /\ (n + 1) + 1 = n + 2
    BY <1>1, <1>6
  <2>4. /\ q.legs[n + 1] \in adj /\ q.legs[n + 1].from = q.path[n + 1]
        /\ q.legs[n + 1].to = q.path[n + 2]
    BY <1>5, <1>6, <1>7, <2>3
  <2>5. ASSUME NEW i \in DOMAIN p.legs
        PROVE  /\ q.legs[i] \in adj /\ q.legs[i].from = q.path[i]
               /\ q.legs[i].to = q.path[i + 1]
    BY <1>6, <1>7, <2>1, <2>2, <2>5
  <2> QED BY <1>7, <2>3, <2>4, <2>5
<1>12. q.rate = Product(q.legs) /\ q.rate \in -Band..Band
  BY <1>1, <1>2, <1>3, ProductAppend, FxGraphAssumption DEF ProvenanceOf, Usable
<1>13. LET times == {q.legs[i].time : i \in DOMAIN q.legs} \cup {Now} IN
       q.asOf \in times /\ \A t \in times : q.asOf <= t
  <2> DEFINE old == {p.legs[i].time : i \in DOMAIN p.legs} \cup {Now}
             new == {q.legs[i].time : i \in DOMAIN q.legs} \cup {Now}
  <2>1. new = old \cup {e.time}
    BY <1>7
  <2>2. p.asOf \in old /\ \A t \in old : p.asOf <= t
    BY DEF ProvenanceOf
  <2>3. \A t \in old : t \in Int
    <3>1. \A i \in DOMAIN p.legs : p.legs[i] \in Quote
      BY <1>1, <1>5, <1>7, ElementOfSeq
    <3>2. \A i \in DOMAIN p.legs : p.legs[i].time \in Int
      BY <3>1 DEF Quote
    <3> QED BY <3>2, FxGraphAssumption
  <2> HIDE DEF old, new
  <2>4. q.asOf \in new /\ \A t \in new : q.asOf <= t
    BY <1>1, <1>2, <1>3, <2>1, <2>2, <2>3 DEF Older
  <2> QED BY <2>4 DEF new
<1>14. /\ {q.sources[i] : i \in DOMAIN q.sources} = {q.legs[i].source : i \in DOMAIN q.legs}
       /\ \A i, j \in DOMAIN q.sources : q.sources[i] = q.sources[j] => i = j
       /\ q.sources \in Seq(Source)
  <2>1. /\ {p.sources[i] : i \in DOMAIN p.sources} = {p.legs[i].source : i \in DOMAIN p.legs}
        /\ \A i, j \in DOMAIN p.sources : p.sources[i] = p.sources[j] => i = j
    BY DEF ProvenanceOf
  <2>2. {q.legs[i].source : i \in DOMAIN q.legs}
          = {p.legs[i].source : i \in DOMAIN p.legs} \cup {e.source}
    BY <1>7
  <2> DEFINE xs == p.sources   ys == q.sources
  <2>3. /\ ys \in Seq(Source)
        /\ Members(ys) = Members(xs) \cup {e.source}
        /\ \A i, j \in DOMAIN ys : ys[i] = ys[j] => i = j
    <3>1. xs \in Seq(Source) /\ e.source \in Source
      BY <1>1, <1>2
    <3>2. ys = AddDistinct(xs, e.source) /\ \A i, j \in DOMAIN xs : xs[i] = xs[j] => i = j
      BY <1>3, <2>1
    <3> HIDE DEF xs, ys
    <3> QED BY <3>1, <3>2, AddDistinctMembers
  <2> QED BY <2>1, <2>2, <2>3 DEF Members
<1>15. q \in Pairs
  <2>1. q.asOf \in Int /\ q.hops \in Nat
    BY <1>1, <1>2, <1>3 DEF Older
  <2> QED BY <1>4, <1>6, <1>7, <1>12, <1>14, <2>1 DEF Pairs
<1>16. /\ Len(q.legs) = q.hops /\ Len(q.path) = q.hops + 1
       /\ q.path[1] = a /\ q.path[q.hops + 1] = e.to
  <2>1. 1 \in DOMAIN p.path /\ q.hops + 1 = n + 2
    BY <1>1, <1>3, <1>6
  <2> QED BY <1>3, <1>5, <1>6, <1>7, <2>1
<1>17. ProvenanceOf(a, e.to, q)
  BY <1>10, <1>11, <1>12, <1>13, <1>14, <1>16 DEF ProvenanceOf
<1> QED BY <1>9, <1>15, <1>17 DEF q

(***************************************************************************)
(* The inductive invariant: the row of a search, at every point of it, and *)
(* the finished rows.                                                      *)
(***************************************************************************)
\* The quotes from one currency to another, inverses included.
Joining(a, b) == {e \in adj : e.from = a /\ e.to = b}

\* Every edge is usable, and so is its inverse, which is an edge as well.
Admitted == \A e \in adj : Usable(e.rate) /\ Inverted(e) \in adj

\* A row's pairs are explained by their legs, and it has all they pass through.
Explained(a, r) ==
  /\ a \in DOMAIN r /\ r[a] = Self(a)
  /\ \A b \in DOMAIN r : ProvenanceOf(a, b, r[b]) /\ Visits(r[b]) \subseteq DOMAIN r

\* Where quotes lead straight to a currency, its pair is a freshest of them.
Direct(a, r) ==
  \A b \in DOMAIN r \ {a} : Joining(a, b) # {} =>
    \E e \in Joining(a, b) : /\ r[b].legs = <<e>>
                             /\ \A f \in Joining(a, b) : f.time <= e.time

\* An edge from a currency a row has to one it has not.
LeadsOut(r, e) == e.from \in DOMAIN r /\ e.to \notin DOMAIN r

\* An edge whose product is out of the band.
Skipped(r, e) == ~Usable(r[e.from].rate + e.rate)

\* The row is one of a matrix.
Within(r) == DOMAIN r \subseteq Currencies(adj) /\ \A c \in DOMAIN r : r[c] \in Pairs

\* A search under way: an edge that leads out of its row is still to be looked at,
\* or was skipped; the start waits only before the first step.
Searching ==
  LET a == First(left) IN
  /\ Within(row) /\ cur \in DOMAIN row
  /\ Explained(a, row) /\ Direct(a, row)
  /\ a \in Members(queue) => queue = <<a>> /\ todo = {} /\ DOMAIN row = {a}
  /\ \A e \in adj : LeadsOut(row, e) =>
       e.from \in Members(queue) \/ e \in todo \/ Skipped(row, e)

\* A search that is over.
Finished(a, r) ==
  /\ Within(r) /\ Explained(a, r) /\ Direct(a, r)
  /\ \A e \in adj : LeadsOut(r, e) => Skipped(r, e)

\* The inductive invariant.
GraphInv ==
  /\ TypeOK /\ Admitted
  /\ left # {} => Searching
  /\ left = {} => queue = <<>> /\ todo = {}
  /\ \A a \in DOMAIN matrix : Finished(a, matrix[a])

\* What the invariant says of edges and of the starts left.
LEMMA AdjFacts ==
  ASSUME GraphInv
  PROVE  /\ adj \subseteq Quote
         /\ Currencies(adj) \subseteq Currency /\ Currencies(adj) \subseteq Nat
         /\ left \subseteq Currencies(adj)
         /\ \A e \in adj : /\ e.from \in Currencies(adj) /\ e.to \in Currencies(adj)
                           /\ e.rate \in Int /\ e.time \in Int /\ Usable(e.rate)
         /\ left # {} => First(left) \in left
<1>1. adj \subseteq Quote /\ left \subseteq Currencies(adj)
  BY DEF GraphInv, TypeOK
<1>2. Currencies(adj) \subseteq Currency
  BY <1>1 DEF Currencies, Quote
<1>3. Currency \subseteq Nat
  BY FxGraphAssumption
<1>4. left # {} => First(left) \in left
  BY <1>1, <1>2, <1>3, FirstIsLeast
<1> QED BY <1>1, <1>2, <1>3, <1>4 DEF GraphInv, Admitted, Currencies, Quote

\* The inverse of the inverse is the quote.
LEMMA InverseOfInverse ==
  ASSUME NEW e \in Quote
  PROVE  Inverted(e) \in Quote /\ Inverted(Inverted(e)) = e /\ (Inverted(e).rate = -e.rate)
         /\ Inverted(e).from = e.to /\ Inverted(e).to = e.from
<1>2. Inverted(e) \in Quote /\ -(-e.rate) = e.rate
  BY DEF Inverted, Quote
<1>3. Inverted(Inverted(e)) = [from |-> e.from, to |-> e.to, rate |-> e.rate,
                               source |-> e.source, time |-> e.time]
  BY <1>2 DEF Inverted
<1>4. e = [from |-> e.from, to |-> e.to, rate |-> e.rate, source |-> e.source, time |-> e.time]
  BY DEF Quote
<1> QED BY <1>2, <1>3, <1>4 DEF Inverted

\* adjacency admits only what is usable both ways.
LEMMA AdjacencyAdmits ==
  ASSUME NEW g \in Graphs
  PROVE  /\ Adjacency(g) \subseteq Quote
         /\ \A e \in Adjacency(g) : Usable(e.rate) /\ Inverted(e) \in Adjacency(g)
<1>1. g \subseteq Quote
  BY FxGraphAssumption
<1> QED BY <1>1, InverseOfInverse DEF Adjacency

\* A search begins with its start alone, and waiting.
LEMMA SearchBegins ==
  ASSUME adj \subseteq Quote, NEW a \in Currencies(adj), NEW r, NEW q,
         r = Put(Nothing, a, Self(a)), q = <<a>>
  PROVE  /\ DOMAIN r = {a} /\ r[a] = Self(a)
         /\ Within(r) /\ Explained(a, r) /\ Direct(a, r)
         /\ Members(q) = {a} /\ q \in Seq(DOMAIN r)
<1>1. DOMAIN r = {a} /\ r[a] = Self(a)
  BY DEF Put, Nothing
<1>2. a \in Currency
  BY DEF Currencies, Quote
<1>3. Self(a) \in Pairs /\ ProvenanceOf(a, a, Self(a)) /\ Visits(Self(a)) = {a}
  BY <1>2, SelfExplained
<1>4. Members(q) = {a} /\ q \in Seq({a})
  BY DEF Members
<1> QED BY <1>1, <1>3, <1>4 DEF Within, Explained, Direct

\* The invariant holds as Materialize begins.
LEMMA InitGraphInv ==
  ASSUME Init
  PROVE  GraphInv
<1>1. PICK g \in Graphs : adj = Adjacency(g)
  BY DEF Init
<1>2. adj \subseteq Quote /\ Admitted
  BY <1>1, AdjacencyAdmits DEF Admitted
<1>3. /\ left = Currencies(adj) /\ left # {} /\ cur = First(left)
      /\ row = Put(Nothing, cur, Self(cur)) /\ queue = <<cur>>
      /\ todo = {} /\ matrix = Nothing /\ skipped = {}
  BY DEF Init
<1>4. Currencies(adj) \subseteq Currency /\ Currency \subseteq Nat
  BY <1>2, FxGraphAssumption DEF Currencies, Quote
<1>5. cur \in left
  BY <1>3, <1>4, FirstIsLeast
<1>6. /\ DOMAIN row = {cur} /\ row[cur] = Self(cur)
      /\ Within(row) /\ Explained(cur, row) /\ Direct(cur, row)
      /\ Members(queue) = {cur} /\ queue \in Seq(DOMAIN row)
  BY <1>2, <1>3, <1>5, SearchBegins
<1>7. Searching
  BY <1>3, <1>6 DEF Searching, LeadsOut
<1>8. DOMAIN matrix = {}
  BY <1>3 DEF Nothing
<1>9. TypeOK
  BY <1>2, <1>3, <1>4, <1>5, <1>6, <1>8 DEF TypeOK, Within
<1> QED BY <1>2, <1>3, <1>7, <1>8, <1>9 DEF GraphInv

\* The edges do not change, so what holds of a pair or a row goes on to hold.
LEMMA ProvenanceStays ==
  ASSUME adj' = adj, NEW a, NEW b, NEW p, ProvenanceOf(a, b, p)
  PROVE  ProvenanceOf(a, b, p)'
BY DEF ProvenanceOf

LEMMA RowsStay ==
  ASSUME adj' = adj, NEW a, NEW r
  PROVE  /\ Within(r) => Within(r)'
         /\ Explained(a, r) => Explained(a, r)'
         /\ Direct(a, r) => Direct(a, r)'
         /\ Finished(a, r) => Finished(a, r)'
<1>1. Within(r) => Within(r)'
  BY DEF Within, Currencies
<1>2. Explained(a, r) => Explained(a, r)'
  BY ProvenanceStays DEF Explained
<1>3. Direct(a, r) => Direct(a, r)'
  BY DEF Direct, Joining
<1>4. Finished(a, r) => Finished(a, r)'
  BY <1>1, <1>2, <1>3 DEF Finished
<1> QED BY <1>1, <1>2, <1>3, <1>4

LEMMA MatrixStays ==
  ASSUME GraphInv, UNCHANGED <<adj, matrix>>
  PROVE  \A a \in DOMAIN matrix' : Finished(a, matrix[a])'
BY RowsStay DEF GraphInv

\* What Head, Tail and Append do to what the queue holds.
LEMMA QueueMembers ==
  ASSUME NEW T, NEW q \in Seq(T)
  PROVE  /\ Members(q) \subseteq T
         /\ q # <<>> => /\ Head(q) \in T /\ Tail(q) \in Seq(T)
                        /\ Members(Tail(q)) \subseteq Members(q)
                        /\ Members(q) = Members(Tail(q)) \cup {Head(q)}
         /\ \A x \in T : /\ Append(q, x) \in Seq(T)
                         /\ Members(Append(q, x)) = Members(q) \cup {x}
<1>1. Members(q) \subseteq T
  BY DEF Members
<1>2. ASSUME q # <<>>
      PROVE  /\ Head(q) \in T /\ Tail(q) \in Seq(T)
             /\ Members(Tail(q)) \subseteq Members(q)
             /\ Members(q) = Members(Tail(q)) \cup {Head(q)}
  <2> DEFINE n == Len(q)   w == Tail(q)
  <2>1. /\ n \in Nat \ {0} /\ DOMAIN q = 1..n /\ DOMAIN w = 1..n - 1 /\ Head(q) = q[1]
        /\ \A i \in 1..n - 1 : w[i] = q[i + 1]
        /\ w \in Seq(T) /\ q[1] \in T
    BY <1>2
  <2> HIDE DEF n, w
  <2>2. \A i \in 1..n : i = 1 \/ i - 1 \in 1..n - 1
    BY <2>1
  <2>3. \A i \in 1..n - 1 : i + 1 \in 1..n /\ (i + 1) - 1 = i
    BY <2>1
  <2>4. \A x : x \in Members(w) => x \in Members(q)
    BY <2>1, <2>3 DEF Members
  <2>5. \A x : x \in Members(q) => x \in Members(w) \cup {q[1]}
    <3> TAKE x
    <3> HAVE x \in Members(q)
    <3>1. PICK i \in 1..n : q[i] = x
      BY <2>1 DEF Members
    <3>2. i = 1 \/ w[i - 1] = x
      BY <2>1, <2>2, <3>1
    <3> QED BY <2>1, <2>2, <3>1, <3>2 DEF Members
  <2>6. q[1] \in Members(q)
    BY <2>1 DEF Members
  <2> QED BY <2>1, <2>4, <2>5, <2>6 DEF w
<1>3. ASSUME NEW x \in T
      PROVE  Append(q, x) \in Seq(T) /\ Members(Append(q, x)) = Members(q) \cup {x}
  <2> DEFINE n == Len(q)   w == Append(q, x)
  <2>1. /\ n \in Nat /\ w \in Seq(T) /\ DOMAIN q = 1..n /\ DOMAIN w = DOMAIN q \cup {n + 1}
        /\ n + 1 \notin DOMAIN q /\ w[n + 1] = x /\ \A i \in DOMAIN q : w[i] = q[i]
    BY Appended
  <2> HIDE DEF n, w
  <2>2. Members(w) = Members(q) \cup {x}
    BY <2>1 DEF Members
  <2> QED BY <2>1, <2>2 DEF w
<1> QED BY <1>1, <1>2, <1>3

\* Expanding a currency takes it from the queue, and all its edges up.
LEMMA ExpandKeeps ==
  ASSUME GraphInv, Expand
  PROVE  GraphInv'
<1> DEFINE a == First(left)   c == Head(queue)
<1>1. /\ todo = {} /\ queue # <<>> /\ cur' = c /\ queue' = Tail(queue)
      /\ todo' = {e \in adj : e.from = c}
      /\ UNCHANGED <<adj, left, row, matrix, skipped>>
  BY DEF Expand
<1>2. left # {} /\ Searching /\ TypeOK /\ Admitted
  BY <1>1 DEF GraphInv
<1>3. queue \in Seq(DOMAIN row) /\ DOMAIN row \subseteq Currency
  BY <1>2 DEF TypeOK
<1>4. /\ c \in DOMAIN row /\ queue' \in Seq(DOMAIN row)
      /\ Members(queue') \subseteq Members(queue)
      /\ Members(queue) = Members(queue') \cup {c}
  BY <1>1, <1>3, QueueMembers
<1>5. TypeOK'
  BY <1>1, <1>2, <1>3, <1>4 DEF TypeOK, Currencies
<1>6. Admitted'
  BY <1>1, <1>2 DEF Admitted
<1>7. a \notin Members(queue')
  <2>1. ASSUME a \in Members(queue') PROVE FALSE
    <3>1. queue = <<a>>
      BY <1>2, <1>4, <2>1 DEF Searching
    <3>2. queue' = <<>>
      BY <1>1, <3>1
    <3> QED BY <2>1, <3>2 DEF Members
  <2> QED BY <2>1
<1>8. ASSUME NEW e \in adj', LeadsOut(row', e)
      PROVE  e.from \in Members(queue') \/ e \in todo' \/ Skipped(row', e)
  <2>1. LeadsOut(row, e) /\ e \in adj
    BY <1>1, <1>8
  <2>2. e.from \in Members(queue) \/ Skipped(row, e)
    BY <1>1, <1>2, <2>1 DEF Searching
  <2> QED BY <1>1, <1>4, <2>1, <2>2
<1>9. Searching'
  <2>1. (Within(row) /\ Explained(a, row) /\ Direct(a, row))'
    BY <1>1, <1>2, RowsStay DEF Searching
  <2> QED BY <1>1, <1>4, <1>7, <1>8, <2>1 DEF Searching, LeadsOut, Skipped
<1> QED BY <1>1, <1>2, <1>5, <1>6, <1>9, MatrixStays DEF GraphInv

\* What one look at an edge changes, and what it leaves alone.
LEMMA ConsiderFacts ==
  ASSUME GraphInv, Consider
  PROVE  /\ left # {} /\ Searching /\ TypeOK /\ Admitted
         /\ First(left) \in left /\ First(left) \notin Members(queue)
         /\ UNCHANGED <<adj, left, cur, matrix>>
         /\ \E e \in Freshest(todo) :
              /\ todo' = todo \ {e}
              /\ e \in todo /\ e \in adj /\ e \in Quote /\ e.from = cur /\ cur \in DOMAIN row
              /\ AlreadyReached(e) \/ OutOfBand(e) \/ Reach(e)
<1>1. PICK e \in Freshest(todo) :
        /\ AlreadyReached(e) \/ OutOfBand(e) \/ Reach(e)
        /\ todo' = todo \ {e}
        /\ UNCHANGED <<adj, left, cur, matrix>>
  BY DEF Consider, Rest
<1>2. e \in todo
  BY DEF Freshest
<1>3. left # {} /\ Searching /\ TypeOK /\ Admitted
  BY <1>2 DEF GraphInv
<1>4. e \in adj /\ e \in Quote /\ e.from = cur /\ cur \in DOMAIN row
  BY <1>2, <1>3 DEF TypeOK, Searching
<1>5. First(left) \notin Members(queue)
  BY <1>2, <1>3 DEF Searching
<1> QED BY <1>1, <1>2, <1>3, <1>4, <1>5, AdjFacts

\* An edge that adds nothing to the row.
LEMMA PassKeeps ==
  ASSUME GraphInv, Consider, UNCHANGED row
  PROVE  GraphInv'
<1> DEFINE a == First(left)
<1>1. /\ left # {} /\ Searching /\ TypeOK /\ Admitted /\ a \in left /\ a \notin Members(queue)
      /\ UNCHANGED <<adj, left, cur, matrix>>
  BY ConsiderFacts
<1>2. PICK e \in Freshest(todo) :
        /\ todo' = todo \ {e}
        /\ e \in todo /\ e \in adj /\ e \in Quote /\ e.from = cur /\ cur \in DOMAIN row
        /\ AlreadyReached(e) \/ OutOfBand(e) \/ Reach(e)
  BY ConsiderFacts
<1>3. queue' = queue /\ (e.to \in DOMAIN row \/ Skipped(row, e))
      /\ (skipped' = skipped \/ skipped' = skipped \cup {a})
  <2>1. ASSUME Reach(e) PROVE FALSE
    <3>1. e.to \in DOMAIN row' /\ e.to \notin DOMAIN row
      BY <2>1 DEF Reach, Put
    <3> QED BY <3>1
  <2> QED BY <1>2, <2>1 DEF AlreadyReached, OutOfBand, Skipped
<1>4. TypeOK'
  BY <1>1, <1>2, <1>3 DEF TypeOK, Currencies
<1>5. Admitted'
  BY <1>1 DEF Admitted
<1>6. (Within(row) /\ Explained(a, row) /\ Direct(a, row))'
  BY <1>1, RowsStay DEF Searching
<1>7. ASSUME NEW f \in adj', LeadsOut(row', f)
      PROVE  f.from \in Members(queue') \/ f \in todo' \/ Skipped(row', f)
  <2>1. f \in adj /\ LeadsOut(row, f)
    BY <1>1, <1>7
  <2>2. f.from \in Members(queue) \/ f \in todo \/ Skipped(row, f)
    BY <1>1, <2>1 DEF Searching
  <2> QED BY <1>2, <1>3, <2>1, <2>2 DEF LeadsOut
<1>8. Searching'
  BY <1>1, <1>2, <1>3, <1>6, <1>7 DEF Searching, LeadsOut, Skipped
<1> QED BY <1>1, <1>4, <1>5, <1>8, MatrixStays DEF GraphInv

\* The edge that a start's search takes to a currency it joins is the freshest.
LEMMA ReachKeepsDirect ==
  ASSUME GraphInv, Consider, NEW e \in Freshest(todo), e \in adj, e.from = cur, Reach(e)
  PROVE  Direct(First(left), row')
<1> DEFINE a == First(left)
<1>1. /\ Searching /\ TypeOK /\ Admitted /\ a \in left /\ a \notin Members(queue)
  BY ConsiderFacts
<1>2. /\ e.to \notin DOMAIN row /\ DOMAIN row' = DOMAIN row \cup {e.to}
      /\ row'[e.to] = Extended(row[cur], e)
      /\ \A c \in DOMAIN row : row'[c] = row[c]
  BY DEF Reach, Put
<1>3. a \in DOMAIN row /\ row[a] = Self(a) /\ Direct(a, row) /\ row[a].rate = 0
  BY <1>1 DEF Searching, Explained, Self
<1>4. \A f \in todo : f.from = cur
  BY <1>1 DEF TypeOK
<1>5. ASSUME NEW f \in Joining(a, e.to)
      PROVE  f \in todo /\ cur = a
  <2>1. f \in adj /\ LeadsOut(row, f) /\ f.from = a
    BY <1>2, <1>3, <1>5 DEF Joining, LeadsOut
  <2>2. f.rate \in Int /\ Usable(f.rate)
    BY <2>1, AdjFacts
  <2>3. ~Skipped(row, f)
    <3>1. 0 + f.rate = f.rate
      BY <2>2
    <3> QED BY <1>3, <2>1, <2>2, <3>1 DEF Skipped
  <2>4. f \in todo
    BY <1>1, <2>1, <2>3 DEF Searching
  <2> QED BY <1>4, <2>1, <2>4
<1>6. ASSUME Joining(a, e.to) # {}
      PROVE  /\ e \in Joining(a, e.to) /\ row'[e.to].legs = <<e>>
             /\ \A f \in Joining(a, e.to) : f.time <= e.time
  <2>1. cur = a
    BY <1>5, <1>6
  <2>2. row'[e.to].legs = <<e>>
    <3>1. row'[e.to].legs = Append(row[a].legs, e) /\ row[a].legs = <<>>
      BY <1>2, <1>3, <2>1 DEF Extended, Self
    <3> QED BY <3>1
  <2> QED BY <1>5, <2>1, <2>2 DEF Joining, Freshest
<1> QED BY <1>2, <1>3, <1>6 DEF Direct

\* A currency is reached.
LEMMA ReachKeeps ==
  ASSUME GraphInv, Consider, NEW e \in Freshest(todo), e \in todo, e \in adj, e \in Quote,
         e.from = cur, cur \in DOMAIN row, todo' = todo \ {e}, Reach(e)
  PROVE  GraphInv'
<1> DEFINE a == First(left)   q == Extended(row[cur], e)
<1>1. /\ left # {} /\ Searching /\ TypeOK /\ Admitted /\ a \in left /\ a \notin Members(queue)
      /\ UNCHANGED <<adj, left, cur, matrix>>
  BY ConsiderFacts
<1>2. /\ e.to \notin DOMAIN row /\ DOMAIN row' = DOMAIN row \cup {e.to}
      /\ row'[e.to] = q
      /\ \A c \in DOMAIN row : row'[c] = row[c]
      /\ Usable(row[cur].rate + e.rate)
      /\ queue' = Append(queue, e.to) /\ skipped' = skipped
  BY DEF Reach, Queued, Put
<1>3. /\ a \in DOMAIN row /\ row[a] = Self(a) /\ Within(row) /\ Explained(a, row)
      /\ \A c \in DOMAIN row : ProvenanceOf(a, c, row[c]) /\ Visits(row[c]) \subseteq DOMAIN row
      /\ \A c \in DOMAIN row : row[c] \in Pairs
  BY <1>1 DEF Searching, Explained, Within
<1>4. /\ q \in Pairs /\ ProvenanceOf(a, e.to, q) /\ Visits(q) = Visits(row[cur]) \cup {e.to}
  <2>1. adj \subseteq Quote /\ e.to \notin Visits(row[cur])
    BY <1>2, <1>3, AdjFacts
  <2>2. row[cur] \in Pairs /\ ProvenanceOf(a, e.from, row[cur]) /\ Usable(row[cur].rate + e.rate)
    BY <1>2, <1>3
  <2> QED BY <2>1, <2>2, ExtendedExplained
<1> HIDE DEF q
<1>5. queue' \in Seq(DOMAIN row') /\ Members(queue') = Members(queue) \cup {e.to}
  <2>1. queue \in Seq(DOMAIN row')
    <3>1. queue \in Seq(DOMAIN row) /\ DOMAIN row \subseteq DOMAIN row'
      BY <1>1, <1>2 DEF TypeOK
    <3> QED BY <3>1, SeqMonotonic
  <2>2. e.to \in DOMAIN row'
    BY <1>2
  <2> QED BY <1>2, <2>1, <2>2, QueueMembers
<1>6. e.to \in Currency /\ e.to \in Currencies(adj)
  BY AdjFacts
<1>7. TypeOK'
  BY <1>1, <1>2, <1>3, <1>4, <1>5, <1>6 DEF TypeOK, Currencies
<1>8. Admitted'
  BY <1>1 DEF Admitted
<1>9. Within(row)'
  BY <1>1, <1>2, <1>3, <1>4, <1>6 DEF Within, Currencies
<1>10. Explained(a, row')
  BY <1>2, <1>3, <1>4 DEF Explained
<1>11. Direct(a, row')
  BY ReachKeepsDirect
<1>12. Explained(a, row)' /\ Direct(a, row)'
  <2>1. \A r : (Explained(a, r) => Explained(a, r)') /\ (Direct(a, r) => Direct(a, r)')
    BY <1>1, RowsStay
  <2> QED BY <1>1, <1>10, <1>11, <2>1
<1>13. a \notin Members(queue')
  BY <1>1, <1>2, <1>3, <1>5
<1>14. ASSUME NEW f \in adj', LeadsOut(row', f)
       PROVE  f.from \in Members(queue') \/ f \in todo' \/ Skipped(row', f)
  <2>1. CASE f.from = e.to
    BY <1>5, <2>1
  <2>2. CASE f.from # e.to
    <3>1. f \in adj /\ LeadsOut(row, f) /\ f # e
      BY <1>1, <1>2, <1>14, <2>2 DEF LeadsOut
    <3>2. f.from \in Members(queue) \/ f \in todo \/ Skipped(row, f)
      BY <1>1, <3>1 DEF Searching
    <3> QED BY <1>2, <1>5, <3>1, <3>2 DEF LeadsOut, Skipped
  <2> QED BY <2>1, <2>2
<1>15. Searching'
  BY <1>1, <1>2, <1>9, <1>12, <1>13, <1>14 DEF Searching, LeadsOut, Skipped
<1> QED BY <1>1, <1>7, <1>8, <1>15, MatrixStays DEF GraphInv

\* One round of the loop over a currency's edges.
LEMMA ConsiderKeeps ==
  ASSUME GraphInv, Consider
  PROVE  GraphInv'
<1>1. PICK e \in Freshest(todo) :
        /\ todo' = todo \ {e}
        /\ e \in todo /\ e \in adj /\ e \in Quote /\ e.from = cur /\ cur \in DOMAIN row
        /\ AlreadyReached(e) \/ OutOfBand(e) \/ Reach(e)
  BY ConsiderFacts
<1>2. CASE Reach(e)
  BY <1>1, <1>2, ReachKeeps
<1>3. CASE AlreadyReached(e) \/ OutOfBand(e)
  BY <1>3, PassKeeps DEF AlreadyReached, OutOfBand
<1> QED BY <1>1, <1>2, <1>3

\* A finished row goes to the matrix, and the next search begins.
LEMMA PublishKeeps ==
  ASSUME GraphInv, Publish
  PROVE  GraphInv'
<1> DEFINE a == First(left)
<1>1. /\ todo = {} /\ queue = <<>> /\ left # {} /\ matrix' = Put(matrix, a, row)
      /\ left' = left \ {a} /\ Search(left') /\ UNCHANGED <<adj, skipped>>
  BY DEF Publish
<1>2. Searching /\ TypeOK /\ Admitted /\ a \in left
  BY <1>1, AdjFacts DEF GraphInv
<1>3. Finished(a, row)
  BY <1>1, <1>2 DEF Searching, Finished, Members
<1>4. /\ a \notin DOMAIN matrix /\ DOMAIN matrix' = DOMAIN matrix \cup {a}
      /\ matrix'[a] = row /\ \A b \in DOMAIN matrix : matrix'[b] = matrix[b]
  BY <1>1, <1>2 DEF TypeOK, Put
<1>5. \A b \in DOMAIN matrix' : Finished(b, matrix'[b])
  BY <1>3, <1>4 DEF GraphInv
<1>6. \A b \in DOMAIN matrix' : Finished(b, matrix[b])'
  <2>1. \A b, r : Finished(b, r) => Finished(b, r)'
    BY <1>1, RowsStay
  <2> QED BY <1>5, <2>1
<1>7. /\ DOMAIN matrix' = Currencies(adj) \ left' /\ left' \in SUBSET Currencies(adj)
      /\ \A b \in DOMAIN matrix' : Within(matrix'[b])
  BY <1>1, <1>2, <1>4, <1>5 DEF TypeOK, Finished
<1>8. Admitted'
  BY <1>1, <1>2 DEF Admitted
<1>9. CASE left' = {}
  <2>1. row' = Nothing /\ queue' = <<>> /\ cur' = 0 /\ todo' = {}
    BY <1>1, <1>9 DEF Search
  <2>2. DOMAIN row' = {}
    BY <2>1 DEF Nothing
  <2>3. TypeOK'
    BY <1>1, <1>2, <1>7, <2>1, <2>2 DEF TypeOK, Within, Currencies
  <2> QED BY <1>6, <1>8, <1>9, <2>1, <2>3 DEF GraphInv
<1>10. CASE left' # {}
  <2>0. PICK c : c = First(left')
    OBVIOUS
  <2>1. row' = Put(Nothing, c, Self(c)) /\ queue' = <<c>> /\ cur' = c /\ todo' = {}
    BY <1>1, <1>10, <2>0 DEF Search
  <2>2. c \in left' /\ c \in Currencies(adj) /\ c \in Currency
    <3>1. left' \subseteq Nat
      BY <1>1, AdjFacts
    <3>2. c \in left'
      BY <1>10, <2>0, <3>1, FirstIsLeast
    <3> QED BY <1>1, <3>2, AdjFacts
  <2>3. /\ DOMAIN row' = {c} /\ row'[c] = Self(c)
        /\ Within(row') /\ Explained(c, row') /\ Direct(c, row')
        /\ Members(queue') = {c} /\ queue' \in Seq(DOMAIN row')
    BY <2>1, <2>2, SearchBegins, AdjFacts
  <2>4. TypeOK'
    BY <1>1, <1>2, <1>7, <2>1, <2>2, <2>3 DEF TypeOK, Within, Currencies
  <2>5. (Within(row) /\ Explained(c, row) /\ Direct(c, row))'
    <3>1. \A r : /\ (Explained(c, r) => Explained(c, r)') /\ (Direct(c, r) => Direct(c, r)')
                 /\ (Within(r) => Within(r)')
      BY <1>1, RowsStay
    <3> QED BY <2>3, <3>1
  <2>6. Searching'
    <3>1. c = First(left)'
      BY <2>0
    <3>2. \A e : LeadsOut(row', e) => e.from \in Members(queue')
      BY <2>3 DEF LeadsOut
    <3> QED BY <2>1, <2>3, <2>5, <3>1, <3>2 DEF Searching
  <2> QED BY <1>6, <1>8, <1>10, <2>4, <2>6 DEF GraphInv
<1> QED BY <1>9, <1>10

LEMMA GraphInvStays ==
  ASSUME GraphInv, UNCHANGED vars
  PROVE  GraphInv'
BY MatrixStays, RowsStay
   DEF GraphInv, vars, TypeOK, Currencies, Admitted, Searching, LeadsOut, Skipped

(***************************************************************************)
(* The properties.                                                         *)
(***************************************************************************)
\* The pair of currencies that a quote joins.
LEMMA DirectlyJoined ==
  ASSUME GraphInv, Built, NEW a \in DOMAIN matrix, NEW b \in Currency \ {a}, Joining(a, b) # {}
  PROVE  /\ b \in DOMAIN matrix[a] /\ Lookup(a, b).ok /\ Lookup(a, b).pair = matrix[a][b]
         /\ matrix[a][b] \in Pairs /\ ProvenanceOf(a, b, matrix[a][b])
         /\ \E e \in Joining(a, b) : /\ matrix[a][b].legs = <<e>>
                                     /\ \A f \in Joining(a, b) : f.time <= e.time
<1>1. Finished(a, matrix[a])
  BY DEF GraphInv
<1>2. PICK f \in adj : f.from = a /\ f.to = b
  BY DEF Joining
<1>3. b \in DOMAIN matrix[a]
  <2>1. ASSUME b \notin DOMAIN matrix[a] PROVE FALSE
    <3>1. Skipped(matrix[a], f)
      BY <1>1, <1>2, <2>1 DEF Finished, Explained, LeadsOut
    <3>2. matrix[a][a].rate = 0
      BY <1>1 DEF Finished, Explained, Self
    <3>3. f.rate \in Int /\ Usable(f.rate)
      BY AdjFacts
    <3>4. 0 + f.rate = f.rate
      BY <3>3
    <3> QED BY <1>2, <3>1, <3>2, <3>3, <3>4 DEF Skipped
  <2> QED BY <2>1
<1>4. matrix[a][b] \in Pairs /\ ProvenanceOf(a, b, matrix[a][b])
  BY <1>1, <1>3 DEF Finished, Within, Explained
<1> QED BY <1>1, <1>3, <1>4 DEF Finished, Direct, Lookup, Has

\* A pair of one leg repeats that leg.
LEMMA OneLeg ==
  ASSUME NEW p \in Pairs, NEW a, NEW b, ProvenanceOf(a, b, p), NEW e \in Quote, p.legs = <<e>>
  PROVE  p.rate = e.rate /\ p.asOf = Older(Now, e.time) /\ p.sources = <<e.source>>
<1>1. p.rate = e.rate
  <2>1. <<e>> = Append(<<>>, e) /\ <<>> \in Seq(Quote) /\ e.rate \in Int
    BY DEF Quote
  <2>2. Product(<<e>>) = Product(<<>>) + e.rate
    BY <2>1, ProductAppend
  <2> QED BY <2>1, <2>2, ProductOfNone DEF ProvenanceOf
<1>2. DOMAIN p.legs = {1} /\ p.legs[1] = e
  OBVIOUS
<1>3. p.asOf = Older(Now, e.time)
  <2>1. {p.legs[i].time : i \in DOMAIN p.legs} \cup {Now} = {e.time, Now}
    BY <1>2
  <2>2. p.asOf \in {e.time, Now} /\ p.asOf <= e.time /\ p.asOf <= Now
    BY <2>1 DEF ProvenanceOf
  <2> QED BY <2>2, FxGraphAssumption DEF Older, Quote
<1>4. p.sources = <<e.source>>
  <2> DEFINE s == p.sources
  <2>1. s \in Seq(Source)
    BY DEF Pairs
  <2>2. {p.legs[i].source : i \in DOMAIN p.legs} = {e.source}
    BY <1>2
  <2>3. {s[i] : i \in DOMAIN s} = {e.source} /\ \A i, j \in DOMAIN s : s[i] = s[j] => i = j
    BY <2>2 DEF ProvenanceOf
  <2>4. DOMAIN s = 1..Len(s) /\ Len(s) \in Nat
    BY <2>1
  <2> HIDE DEF s
  <2>5. \A i \in DOMAIN s : s[i] = e.source
    BY <2>3
  <2>6. Len(s) = 1 /\ s[1] = e.source
    <3>1. 1 \in DOMAIN s
      <4>1. PICK i \in DOMAIN s : s[i] = e.source
        BY <2>3
      <4> QED BY <2>4, <4>1
    <3>2. \A i \in DOMAIN s : i = 1
      BY <2>3, <2>5, <3>1
    <3> QED BY <2>4, <2>5, <3>1, <3>2
  <2> QED BY <2>1, <2>6 DEF s
<1> QED BY <1>1, <1>3, <1>4

\* The inverse of a quote leads the other way.
LEMMA Reversed ==
  ASSUME GraphInv, NEW a, NEW b, NEW e \in Joining(a, b)
  PROVE  Inverted(e) \in Joining(b, a) /\ Inverted(Inverted(e)) = e /\ e \in Quote
         /\ Inverted(e).rate = -e.rate /\ Inverted(e).time = e.time
         /\ Inverted(e).source = e.source
BY AdjFacts, InverseOfInverse DEF GraphInv, Admitted, Joining, Inverted

\* Materialize keeps the invariant, from the first search to the last row.
THEOREM GraphInvariant == Spec => []GraphInv
<1>1. GraphInv /\ [Next]_vars => GraphInv'
  BY ExpandKeeps, ConsiderKeeps, PublishKeeps, GraphInvStays DEF Next
<1> QED BY InitGraphInv, <1>1, PTL DEF Spec

\* The state of Materialize is well typed: every rate it holds is within the band.
THEOREM GraphTypes == Spec => []TypeOK
<1>1. GraphInv => TypeOK
  BY DEF GraphInv
<1> QED BY GraphInvariant, <1>1, PTL

\* Every pair of the matrix is explained by its legs: a chain of admitted quotes that
\* visits no currency twice, with the product of their rates, the oldest time, their
\* number and their sources.
THEOREM LegsExplainEveryPair == Spec => []PairsAreTheirLegs
<1>1. GraphInv => PairsAreTheirLegs
  BY DEF GraphInv, Finished, Explained, PairsAreTheirLegs
<1> QED BY GraphInvariant, <1>1, PTL

\* A directly quoted pair is answered by a freshest direct quote, inverses included.
THEOREM DirectQuotesWin == Spec => []FreshestDirectWins
<1>1. ASSUME GraphInv PROVE FreshestDirectWins
  BY <1>1, DirectlyJoined DEF FreshestDirectWins, Joining
<1> QED BY GraphInvariant, <1>1, PTL

\* What a finished row leaves out, it leaves out because a product was out of the band.
THEOREM OnlyTheBandLeavesOut == Spec => []NothingElseLeftOut
<1>1. ASSUME GraphInv PROVE NothingElseLeftOut
  BY <1>1 DEF GraphInv, Finished, LeadsOut, Skipped, NothingElseLeftOut
<1> QED BY GraphInvariant, <1>1, PTL

\* A pair that one freshest quote decides and its reverse are each other's inverse.
THEOREM PairsReverse == Spec => []Reciprocal
<1>1. ASSUME GraphInv, Built, NEW a \in DOMAIN matrix, NEW b \in DOMAIN matrix,
             NEW e \in Joining(a, b), \A f \in Joining(a, b) \ {e} : f.time < e.time
      PROVE  LET p == Lookup(a, b).pair   q == Lookup(b, a).pair IN
             p.rate = -q.rate /\ p.asOf = q.asOf /\ p.sources = q.sources
  <2>1. CASE a = b
    BY <2>1 DEF Lookup, Self
  <2>2. CASE a # b
    <3> DEFINE p == Lookup(a, b).pair   q == Lookup(b, a).pair
    <3>1. a \in Currency /\ b \in Currency
      BY <1>1, AdjFacts DEF GraphInv, TypeOK
    <3>2. Inverted(e) \in Joining(b, a)
      BY <1>1, Reversed
    <3>3. p \in Pairs /\ ProvenanceOf(a, b, p) /\ p.legs = <<e>>
      <4>1. PICK f \in Joining(a, b) : p.legs = <<f>> /\ \A g \in Joining(a, b) : g.time <= f.time
        BY <1>1, <2>2, <3>1, DirectlyJoined
      <4>2. f = e
        <5>1. e.time \in Int /\ f.time \in Int
          BY <1>1, AdjFacts DEF Joining
        <5> QED BY <1>1, <4>1, <5>1
      <4> QED BY <1>1, <2>2, <3>1, <4>1, <4>2, DirectlyJoined
    <3>4. q \in Pairs /\ ProvenanceOf(b, a, q) /\ q.legs = <<Inverted(e)>>
      <4>1. PICK f \in Joining(b, a) : q.legs = <<f>> /\ \A g \in Joining(b, a) : g.time <= f.time
        BY <1>1, <2>2, <3>1, <3>2, DirectlyJoined
      <4>2. f = Inverted(e)
        <5>1. /\ Inverted(f) \in Joining(a, b) /\ Inverted(f).time = f.time
              /\ Inverted(Inverted(f)) = f
          BY <1>1, Reversed
        <5>2. e.time <= f.time
          BY <1>1, <3>2, <4>1, Reversed
        <5>3. e.time \in Int /\ f.time \in Int
          BY <1>1, AdjFacts DEF Joining
        <5>4. Inverted(f) = e
          BY <1>1, <5>1, <5>2, <5>3
        <5> QED BY <5>1, <5>4
      <4> QED BY <1>1, <2>2, <3>1, <3>2, <4>1, <4>2, DirectlyJoined
    <3>5. /\ e \in Quote /\ Inverted(e) \in Quote /\ e.rate \in Int
          /\ Inverted(e).rate = -e.rate /\ Inverted(e).time = e.time
          /\ Inverted(e).source = e.source
      BY <1>1, <3>2, Reversed DEF Quote
    <3> HIDE DEF p, q
    <3>6. p.rate = e.rate /\ p.asOf = Older(Now, e.time) /\ p.sources = <<e.source>>
      BY <3>3, <3>5, OneLeg
    <3>7. q.rate = -e.rate /\ q.asOf = Older(Now, e.time) /\ q.sources = <<e.source>>
      BY <3>4, <3>5, OneLeg
    <3> QED BY <3>5, <3>6, <3>7 DEF p, q
  <2> QED BY <2>1, <2>2
<1>2. GraphInv => Reciprocal
  BY <1>1 DEF Reciprocal, Joining
<1> QED BY GraphInvariant, <1>2, PTL

(***************************************************************************)
(* Hops: a search expands currencies ring by ring.                         *)
(***************************************************************************)
\* How many currencies there are.
Count == Cardinality(Currency)

\* A path visits no currency twice, so it is shorter than the currencies are many.
LEMMA PathFits ==
  ASSUME NEW p \in Pairs, NEW a, NEW b, ProvenanceOf(a, b, p)
  PROVE  p.hops \in Nat /\ Count \in Nat /\ p.hops + 1 <= Count
<1> DEFINE n == p.hops + 1
<1>1. /\ p.hops \in Nat /\ p.path \in Seq(Currency) /\ Len(p.path) = n
      /\ \A i, j \in DOMAIN p.path : p.path[i] = p.path[j] => i = j
  BY DEF Pairs, ProvenanceOf
<1>2. p.path \in Injection(1..n, Currency)
  BY <1>1 DEF Injection, IsInjective
<1>3. Cardinality(1..n) = n
  BY <1>1, FS_Interval
<1>4. IsFiniteSet(Currency) /\ Count \in Nat
  BY FxGraphAssumption, FS_CardinalityType DEF Count
<1>5. Cardinality(1..n) <= Count
  BY <1>2, <1>4, FS_Injection DEF Count
<1> QED BY <1>1, <1>3, <1>4, <1>5

\* A pair's hops name the first ring its currency is in.
Layered(a, r) ==
  \A b \in DOMAIN r : /\ r[b].hops \in 0..Count
                      /\ b \in Ball(a)[r[b].hops]
                      /\ r[b].hops > 0 => b \notin Ball(a)[r[b].hops - 1]

\* The queue holds currencies in the order of their hops, at most one apart.
Ordered ==
  /\ \A i, j \in DOMAIN queue : i <= j => row[queue[i]].hops <= row[queue[j]].hops
  /\ \A i \in DOMAIN queue : /\ row[cur].hops <= row[queue[i]].hops
                             /\ row[queue[i]].hops <= row[cur].hops + 1

\* A search that skipped nothing: all that leads out of its row is still to come.
Breadth ==
  LET a == First(left) IN
  /\ Ordered
  /\ a \notin skipped =>
       /\ Layered(a, row)
       /\ \A e \in adj : LeadsOut(row, e) => e.from \in Members(queue) \/ e \in todo

\* What such a search ends with.
Whole(a, r) == Layered(a, r) /\ \A e \in adj : ~LeadsOut(r, e)

\* The inductive invariant of the search's order.
BreadthInv ==
  /\ GraphInv
  /\ left # {} => Breadth
  /\ \A a \in DOMAIN matrix \ skipped : Whole(a, matrix[a])

\* A row that no edge leads out of has the whole of every ring.
LEMMA ClosedHoldsBall ==
  ASSUME NEW r, NEW a \in DOMAIN r, \A e \in adj : ~LeadsOut(r, e), NEW n \in 0..Count
  PROVE  Ball(a)[n] \subseteq DOMAIN r
<1> DEFINE out == {m \in 0..Count : ~(Ball(a)[m] \subseteq DOMAIN r)}
<1>1. Count \in Nat /\ Ball(a)[0] = {a} /\ \A m \in 1..Count : Ball(a)[m] = Hop(Ball(a)[m - 1])
  BY BallIs DEF Count
<1>2. ASSUME out # {} PROVE FALSE
  <2>1. PICK m \in out : \A k \in out : m <= k
    <3>1. out \subseteq Nat
      OBVIOUS
    <3> HIDE DEF out
    <3> QED BY <1>2, <3>1, Least
  <2>2. m \in 1..Count /\ m - 1 \in 0..Count /\ m - 1 \notin out
    BY <1>1, <2>1
  <2>3. Ball(a)[m - 1] \subseteq DOMAIN r
    BY <2>2
  <2>4. Hop(Ball(a)[m - 1]) \subseteq DOMAIN r
    BY <2>3 DEF Hop, LeadsOut
  <2> QED BY <1>1, <2>1, <2>2, <2>4
<1> QED BY <1>2

\* While a search without a skip expands a currency, its row has every ring up to there.
LEMMA RowHoldsBall ==
  ASSUME GraphInv, left # {}, Breadth, First(left) \notin skipped, NEW n \in 0..row[cur].hops
  PROVE  Ball(First(left))[n] \subseteq DOMAIN row
<1> DEFINE a == First(left)   d == row[cur].hops
           out == {m \in 0..d : ~(Ball(a)[m] \subseteq DOMAIN row)}
<1>1. Count \in Nat /\ Ball(a)[0] = {a} /\ \A m \in 1..Count : Ball(a)[m] = Hop(Ball(a)[m - 1])
  BY BallIs DEF Count
<1>2. /\ Searching /\ a \in DOMAIN row /\ cur \in DOMAIN row /\ Layered(a, row)
      /\ \A e \in adj : LeadsOut(row, e) => e.from \in Members(queue) \/ e \in todo
      /\ \A e \in todo : e.from = cur
  BY DEF GraphInv, Searching, Explained, Breadth, TypeOK
<1>3. d \in 0..Count /\ d \in Nat /\ \A c \in Members(queue) : d <= row[c].hops
  BY <1>1, <1>2 DEF Layered, Breadth, Ordered, Members
<1>4. ASSUME out # {} PROVE FALSE
  <2>1. PICK m \in out : \A k \in out : m <= k
    <3>1. out \subseteq Nat
      BY <1>3
    <3> HIDE DEF out
    <3> QED BY <1>4, <3>1, Least
  <2>2. m \in 1..d /\ m \in 1..Count /\ m - 1 \in 0..d /\ m - 1 \in 0..Count /\ m - 1 \notin out
    BY <1>1, <1>2, <1>3, <2>1
  <2>3. Ball(a)[m - 1] \subseteq DOMAIN row
    BY <2>2
  <2>4. ASSUME NEW e \in adj, e.from \in Ball(a)[m - 1], e.to \notin DOMAIN row PROVE FALSE
    <3> DEFINE c == e.from   k == row[c].hops
    <3>1. c \in DOMAIN row /\ LeadsOut(row, e)
      BY <2>3, <2>4 DEF LeadsOut
    <3>2. k \in 0..Count /\ (k > 0 => c \notin Ball(a)[k - 1])
      BY <1>2, <3>1 DEF Layered
    <3>3. k < m
      <4>1. ASSUME k >= m PROVE FALSE
        <5>1. k > 0 /\ m - 1 \in 0..Count /\ k - 1 \in (m - 1)..Count
          BY <1>1, <2>2, <3>2, <4>1
        <5>2. Ball(a)[m - 1] \subseteq Ball(a)[k - 1]
          BY <5>1, BallGrows DEF Count
        <5> QED BY <2>4, <3>2, <5>1, <5>2
      <4> QED BY <2>2, <3>2, <4>1
    <3>4. c \notin Members(queue) /\ c # cur
      BY <1>3, <2>2, <3>2, <3>3
    <3> QED BY <1>2, <2>4, <3>1, <3>4
  <2>5. Hop(Ball(a)[m - 1]) \subseteq DOMAIN row
    BY <2>3, <2>4 DEF Hop
  <2> QED BY <1>1, <2>1, <2>2, <2>5
<1> QED BY <1>4

\* The edges do not change, so neither do the rings.
LEMMA WholeStays ==
  ASSUME adj' = adj, NEW a, NEW r
  PROVE  /\ Layered(a, r) => Layered(a, r)'
         /\ Whole(a, r) => Whole(a, r)'
<1>1. Ball(a)' = Ball(a)
  BY DEF Ball
<1>2. Layered(a, r) => Layered(a, r)'
  BY <1>1 DEF Layered
<1> QED BY <1>2 DEF Whole, LeadsOut

\* A start is its own only ring until its first edge.
LEMMA StartLayered ==
  ASSUME NEW a, NEW r, DOMAIN r = {a}, r[a] = Self(a)
  PROVE  Layered(a, r)
<1>1. Count \in Nat /\ Ball(a)[0] = {a} /\ r[a].hops = 0
  BY BallIs DEF Count, Self
<1> QED BY <1>1 DEF Layered

\* The first search begins.
LEMMA InitBreadthInv ==
  ASSUME Init
  PROVE  BreadthInv
<1>1. GraphInv
  BY InitGraphInv
<1>2. /\ left # {} /\ cur = First(left) /\ row = Put(Nothing, cur, Self(cur)) /\ queue = <<cur>>
      /\ matrix = Nothing
  BY DEF Init
<1>3. DOMAIN row = {cur} /\ row[cur] = Self(cur) /\ row[cur].hops = 0
  BY <1>2 DEF Put, Nothing, Self
<1>4. Members(queue) = {cur} /\ DOMAIN queue = {1} /\ queue[1] = cur
  BY <1>2 DEF Members
<1>5. Ordered
  BY <1>3, <1>4 DEF Ordered
<1>6. Breadth
  BY <1>2, <1>3, <1>4, <1>5, StartLayered DEF Breadth, LeadsOut
<1>7. DOMAIN matrix = {}
  BY <1>2 DEF Nothing
<1> QED BY <1>1, <1>6, <1>7 DEF BreadthInv

\* Finished rows stay.
LEMMA WholesStay ==
  ASSUME BreadthInv, UNCHANGED <<adj, matrix>>, skipped \subseteq skipped'
  PROVE  \A a \in DOMAIN matrix' \ skipped' : Whole(a, matrix[a])'
BY WholeStays DEF BreadthInv

\* Expanding the currency at the head of the queue.
LEMMA ExpandBreadth ==
  ASSUME BreadthInv, Expand
  PROVE  BreadthInv'
<1> DEFINE a == First(left)   c == Head(queue)
<1>1. /\ todo = {} /\ queue # <<>> /\ cur' = c /\ queue' = Tail(queue)
      /\ todo' = {e \in adj : e.from = c}
      /\ UNCHANGED <<adj, left, row, matrix, skipped>>
  BY DEF Expand
<1>2. GraphInv /\ GraphInv' /\ left # {} /\ Breadth /\ Searching /\ queue \in Seq(DOMAIN row)
  BY <1>1, ExpandKeeps DEF BreadthInv, GraphInv, TypeOK
<1>3. /\ Len(queue) \in Nat \ {0} /\ DOMAIN queue = 1..Len(queue) /\ c = queue[1]
      /\ DOMAIN queue' = 1..Len(queue) - 1
      /\ \A i \in 1..Len(queue) - 1 : queue'[i] = queue[i + 1]
  BY <1>1, <1>2
<1>4. \A i \in DOMAIN queue' : i + 1 \in DOMAIN queue /\ 1 <= i + 1
  BY <1>3
<1>5. \A i \in DOMAIN queue : row[queue[i]].hops \in Nat /\ row[cur].hops \in Nat
  BY <1>2, ElementOfSeq DEF Searching, Within, Pairs, Breadth, Ordered
<1>6. Ordered'
  <2>1. ASSUME NEW i \in DOMAIN queue', NEW j \in DOMAIN queue', i <= j
        PROVE  row[queue'[i]].hops <= row[queue'[j]].hops
    <3>1. i + 1 <= j + 1 /\ i + 1 \in DOMAIN queue /\ j + 1 \in DOMAIN queue
      BY <1>3, <1>4, <2>1
    <3> QED BY <1>2, <1>3, <3>1 DEF Breadth, Ordered
  <2>2. ASSUME NEW i \in DOMAIN queue'
        PROVE  row[c].hops <= row[queue'[i]].hops /\ row[queue'[i]].hops <= row[c].hops + 1
    <3>1. i + 1 \in DOMAIN queue /\ 1 \in DOMAIN queue /\ 1 <= i + 1 /\ queue'[i] = queue[i + 1]
      BY <1>3, <1>4
    <3>2. /\ row[queue[1]].hops <= row[queue[i + 1]].hops
          /\ row[queue[i + 1]].hops <= row[cur].hops + 1
          /\ row[cur].hops <= row[queue[1]].hops
      BY <1>2, <3>1 DEF Breadth, Ordered
    <3> QED BY <1>3, <1>5, <3>1, <3>2
  <2> QED BY <1>1, <2>1, <2>2 DEF Ordered
<1>7. Members(queue) = Members(queue') \cup {c}
  BY <1>1, <1>2, QueueMembers
<1>8. ASSUME a \notin skipped, NEW e \in adj', LeadsOut(row', e)
      PROVE  e.from \in Members(queue') \/ e \in todo'
  <2>1. e \in adj /\ e.from \in Members(queue)
    BY <1>1, <1>2, <1>8 DEF Breadth
  <2> QED BY <1>1, <1>7, <2>1
<1>9. a \notin skipped => Layered(a, row)'
  BY <1>1, <1>2, WholeStays DEF Breadth
<1>10. Breadth'
  BY <1>1, <1>6, <1>8, <1>9 DEF Breadth, LeadsOut
<1> QED BY <1>1, <1>2, <1>10, WholesStay DEF BreadthInv

\* An edge that adds nothing to the row.
LEMMA PassBreadth ==
  ASSUME BreadthInv, Consider, UNCHANGED row
  PROVE  BreadthInv'
<1> DEFINE a == First(left)
<1>1. GraphInv /\ GraphInv' /\ Breadth
  BY ConsiderKeeps, ConsiderFacts DEF BreadthInv
<1>2. left # {} /\ UNCHANGED <<adj, left, cur, matrix>>
  BY <1>1, ConsiderFacts
<1>3. PICK e \in Freshest(todo) :
        /\ todo' = todo \ {e}
        /\ e \in todo /\ e \in adj /\ e \in Quote /\ e.from = cur /\ cur \in DOMAIN row
        /\ AlreadyReached(e) \/ OutOfBand(e) \/ Reach(e)
  BY <1>1, ConsiderFacts
<1>4. /\ queue' = queue /\ skipped \subseteq skipped'
      /\ a \notin skipped' => a \notin skipped /\ e.to \in DOMAIN row
  <2>1. ASSUME Reach(e) PROVE FALSE
    <3>1. e.to \in DOMAIN row' /\ e.to \notin DOMAIN row
      BY <2>1 DEF Reach, Put
    <3> QED BY <3>1
  <2> QED BY <1>3, <2>1 DEF AlreadyReached, OutOfBand
<1>5. Ordered'
  BY <1>1, <1>2, <1>4 DEF Breadth, Ordered
<1>6. ASSUME a \notin skipped', NEW f \in adj', LeadsOut(row', f)
      PROVE  f.from \in Members(queue') \/ f \in todo'
  <2>1. f \in adj /\ LeadsOut(row, f) /\ f # e
    BY <1>2, <1>4, <1>6 DEF LeadsOut
  <2>2. f.from \in Members(queue) \/ f \in todo
    BY <1>1, <1>4, <1>6, <2>1 DEF Breadth
  <2> QED BY <1>3, <1>4, <2>1, <2>2
<1>7. a \notin skipped' => Layered(a, row)'
  BY <1>1, <1>2, <1>4, WholeStays DEF Breadth
<1>8. Breadth'
  BY <1>2, <1>5, <1>6, <1>7 DEF Breadth, LeadsOut
<1> QED BY <1>1, <1>2, <1>4, <1>8, WholesStay DEF BreadthInv

\* A newly reached currency is one ring out from the one that is expanded.
LEMMA ReachLayered ==
  ASSUME BreadthInv, Consider, NEW e \in Freshest(todo), e \in adj, e \in Quote, e.from = cur,
         cur \in DOMAIN row, Reach(e), First(left) \notin skipped
  PROVE  Layered(First(left), row')
<1> DEFINE a == First(left)   d == row[cur].hops   q == Extended(row[cur], e)
<1>1. GraphInv /\ left # {} /\ Breadth /\ Searching /\ adj \subseteq Quote
  BY ConsiderFacts, AdjFacts DEF BreadthInv
<1>2. /\ e.to \notin DOMAIN row /\ DOMAIN row' = DOMAIN row \cup {e.to} /\ row'[e.to] = q
      /\ \A c \in DOMAIN row : row'[c] = row[c]
      /\ Usable(row[cur].rate + e.rate) /\ q.hops = d + 1
  BY DEF Reach, Put, Extended
<1>3. row[cur] \in Pairs /\ ProvenanceOf(a, e.from, row[cur]) /\ e.to \notin Visits(row[cur])
  BY <1>1, <1>2 DEF Searching, Explained, Within
<1>4. q \in Pairs /\ ProvenanceOf(a, e.to, q)
  BY <1>1, <1>2, <1>3, ExtendedExplained
<1>5. d \in Nat /\ Count \in Nat /\ d + 1 \in 1..Count
  <2>1. q.hops \in Nat /\ Count \in Nat /\ q.hops + 1 <= Count
    BY <1>4, PathFits
  <2>2. d \in Nat
    BY <1>3, PathFits
  <2> QED BY <1>2, <2>1, <2>2
<1>6. cur \in Ball(a)[d] /\ Layered(a, row)
  BY <1>1 DEF Breadth, Layered
<1>7. Ball(a)[d + 1] = Hop(Ball(a)[d])
  <2>1. (d + 1) - 1 = d
    BY <1>5
  <2> QED BY <1>5, <2>1, BallIs DEF Count
<1>8. e.to \in Ball(a)[d + 1]
  BY <1>6, <1>7 DEF Hop
<1>9. e.to \notin Ball(a)[d]
  BY <1>1, <1>2, <1>5, RowHoldsBall
<1>10. q.hops \in 0..Count /\ q.hops - 1 = d
  BY <1>2, <1>5
<1> HIDE DEF q, d
<1> QED BY <1>2, <1>6, <1>8, <1>9, <1>10 DEF Layered

\* A currency is reached and goes to the end of the queue.
LEMMA ReachBreadth ==
  ASSUME BreadthInv, Consider, NEW e \in Freshest(todo), e \in todo, e \in adj, e \in Quote,
         e.from = cur, cur \in DOMAIN row, todo' = todo \ {e}, Reach(e)
  PROVE  BreadthInv'
<1> DEFINE a == First(left)   d == row[cur].hops
<1>1. GraphInv /\ GraphInv' /\ left # {} /\ Breadth /\ Searching /\ queue \in Seq(DOMAIN row)
  BY ConsiderKeeps, ConsiderFacts DEF BreadthInv, TypeOK
<1>2. UNCHANGED <<adj, left, cur, matrix>>
  BY <1>1, ConsiderFacts
<1>3. /\ e.to \notin DOMAIN row /\ DOMAIN row' = DOMAIN row \cup {e.to}
      /\ row'[e.to].hops = d + 1
      /\ \A c \in DOMAIN row : row'[c] = row[c]
      /\ queue' = Append(queue, e.to) /\ skipped' = skipped
  BY DEF Reach, Queued, Put, Extended
<1>4. /\ Len(queue) \in Nat /\ DOMAIN queue = 1..Len(queue)
      /\ DOMAIN queue' = DOMAIN queue \cup {Len(queue) + 1}
      /\ queue'[Len(queue) + 1] = e.to
      /\ \A i \in DOMAIN queue : queue'[i] = queue[i] /\ queue[i] \in DOMAIN row
  BY <1>1, <1>3, ElementOfSeq
<1>5. Members(queue') = Members(queue) \cup {e.to}
  BY <1>4 DEF Members
<1>6. d \in Nat /\ \A c \in DOMAIN row : row[c].hops \in Nat
  BY <1>1 DEF Searching, Within, Pairs
<1>7. Ordered'
  <2>1. /\ \A i, j \in DOMAIN queue : i <= j => row[queue[i]].hops <= row[queue[j]].hops
        /\ \A i \in DOMAIN queue : d <= row[queue[i]].hops /\ row[queue[i]].hops <= d + 1
    BY <1>1 DEF Breadth, Ordered
  <2>2. row'[cur'].hops = d
    BY <1>2, <1>3
  <2>3. \A i \in DOMAIN queue : row'[queue'[i]].hops = row[queue[i]].hops
    BY <1>3, <1>4
  <2>4. row'[queue'[Len(queue) + 1]].hops = d + 1
    BY <1>3, <1>4
  <2>5. \A i \in DOMAIN queue : i < Len(queue) + 1
    BY <1>4
  <2> HIDE DEF d
  <2>6. \A i \in DOMAIN queue' : d <= row'[queue'[i]].hops /\ row'[queue'[i]].hops <= d + 1
    BY <1>4, <1>6, <2>1, <2>3, <2>4
  <2>7. ASSUME NEW i \in DOMAIN queue', NEW j \in DOMAIN queue', i <= j
        PROVE  row'[queue'[i]].hops <= row'[queue'[j]].hops
    <3>1. CASE j \in DOMAIN queue
      <4>1. i \in DOMAIN queue
        BY <1>4, <2>7, <3>1
      <4> QED BY <2>1, <2>3, <2>7, <3>1, <4>1
    <3>2. CASE j = Len(queue) + 1
      BY <2>4, <2>6, <3>2
    <3> QED BY <1>4, <3>1, <3>2
  <2> QED BY <2>2, <2>6, <2>7 DEF Ordered
<1>8. a \notin skipped => Layered(a, row)'
  <2>1. a \notin skipped => Layered(a, row')
    BY ReachLayered
  <2>2. \A r : Layered(a, r) => Layered(a, r)'
    BY <1>2, WholeStays
  <2> QED BY <1>2, <2>1, <2>2
<1>9. ASSUME a \notin skipped, NEW f \in adj', LeadsOut(row', f)
      PROVE  f.from \in Members(queue') \/ f \in todo'
  <2>1. CASE f.from = e.to
    BY <1>5, <2>1
  <2>2. CASE f.from # e.to
    <3>1. f \in adj /\ LeadsOut(row, f) /\ f # e
      BY <1>2, <1>3, <1>9, <2>2 DEF LeadsOut
    <3>2. f.from \in Members(queue) \/ f \in todo
      BY <1>1, <1>9, <3>1 DEF Breadth
    <3> QED BY <1>5, <3>1, <3>2
  <2> QED BY <2>1, <2>2
<1>10. Breadth'
  BY <1>2, <1>3, <1>7, <1>8, <1>9 DEF Breadth, LeadsOut
<1> QED BY <1>1, <1>2, <1>3, <1>10, WholesStay DEF BreadthInv

\* One round of the loop over a currency's edges.
LEMMA ConsiderBreadth ==
  ASSUME BreadthInv, Consider
  PROVE  BreadthInv'
<1>1. PICK e \in Freshest(todo) :
        /\ todo' = todo \ {e}
        /\ e \in todo /\ e \in adj /\ e \in Quote /\ e.from = cur /\ cur \in DOMAIN row
        /\ AlreadyReached(e) \/ OutOfBand(e) \/ Reach(e)
  BY ConsiderFacts DEF BreadthInv
<1>2. CASE Reach(e)
  BY <1>1, <1>2, ReachBreadth
<1>3. CASE AlreadyReached(e) \/ OutOfBand(e)
  BY <1>3, PassBreadth DEF AlreadyReached, OutOfBand
<1> QED BY <1>1, <1>2, <1>3

\* A finished row, and the next search.
LEMMA PublishBreadth ==
  ASSUME BreadthInv, Publish
  PROVE  BreadthInv'
<1> DEFINE a == First(left)
<1>1. /\ todo = {} /\ queue = <<>> /\ left # {} /\ matrix' = Put(matrix, a, row)
      /\ left' = left \ {a} /\ Search(left') /\ UNCHANGED <<adj, skipped>>
  BY DEF Publish
<1>2. GraphInv /\ GraphInv' /\ Breadth /\ TypeOK /\ a \in left
  BY <1>1, PublishKeeps, AdjFacts DEF BreadthInv, GraphInv
<1>3. /\ DOMAIN matrix' = DOMAIN matrix \cup {a} /\ a \notin DOMAIN matrix
      /\ matrix'[a] = row /\ \A b \in DOMAIN matrix : matrix'[b] = matrix[b]
  BY <1>1, <1>2 DEF TypeOK, Put
<1>4. a \notin skipped => Whole(a, row)
  BY <1>1, <1>2 DEF Breadth, Whole, Members
<1>5. \A b \in DOMAIN matrix' \ skipped' : Whole(b, matrix'[b])
  BY <1>1, <1>3, <1>4 DEF BreadthInv
<1>6. \A b \in DOMAIN matrix' \ skipped' : Whole(b, matrix[b])'
  <2>1. \A b, r : Whole(b, r) => Whole(b, r)'
    BY <1>1, WholeStays
  <2> QED BY <1>5, <2>1
<1>7. ASSUME left' # {} PROVE Breadth'
  <2>1. PICK c : c = First(left')
    OBVIOUS
  <2>2. row' = Put(Nothing, c, Self(c)) /\ queue' = <<c>> /\ cur' = c /\ todo' = {}
    BY <1>1, <1>7, <2>1 DEF Search
  <2>3. DOMAIN row' = {c} /\ row'[c] = Self(c) /\ row'[c].hops = 0
    BY <2>2 DEF Put, Nothing, Self
  <2>4. Members(queue') = {c} /\ DOMAIN queue' = {1} /\ queue'[1] = c
    BY <2>2 DEF Members
  <2>5. Ordered'
    BY <2>2, <2>3, <2>4 DEF Ordered
  <2>6. Layered(c, row')
    BY <2>3, StartLayered
  <2>7. Layered(c, row)'
    <3>1. \A r : Layered(c, r) => Layered(c, r)'
      BY <1>1, WholeStays
    <3> QED BY <2>6, <3>1
  <2>8. c = First(left)'
    BY <2>1
  <2>9. \A e : LeadsOut(row', e) => e.from \in Members(queue')
    BY <2>3, <2>4 DEF LeadsOut
  <2> QED BY <2>5, <2>7, <2>8, <2>9 DEF Breadth, LeadsOut
<1> QED BY <1>2, <1>6, <1>7 DEF BreadthInv

LEMMA BreadthStays ==
  ASSUME BreadthInv, UNCHANGED vars
  PROVE  BreadthInv'
<1>1. GraphInv'
  BY GraphInvStays DEF BreadthInv
<1> USE DEF vars
<1>2. \A a \in DOMAIN matrix' \ skipped' : Whole(a, matrix[a])'
  BY WholesStay
<1>3. left # {} => Breadth'
  BY WholeStays DEF BreadthInv, Breadth, Ordered, LeadsOut
<1> QED BY <1>1, <1>2, <1>3 DEF BreadthInv

\* Unless it had to skip a product, a search reached all that edges join to its start,
\* each over as few hops as any path has.
THEOREM ShortestPaths == Spec => []ShortestUnlessSkipped
<1>1. BreadthInv /\ [Next]_vars => BreadthInv'
  BY ExpandBreadth, ConsiderBreadth, PublishBreadth, BreadthStays DEF Next
<1>2. ASSUME BreadthInv PROVE ShortestUnlessSkipped
  <2> SUFFICES ASSUME Built, NEW a \in DOMAIN matrix \ skipped
               PROVE  /\ DOMAIN Rebase(a) = Ball(a)[Count] \ {a}
                      /\ \A b \in DOMAIN Rebase(a) :
                           LET n == Rebase(a)[b].hops IN b \in Ball(a)[n] \ Ball(a)[n - 1]
    BY DEF ShortestUnlessSkipped, Count
  <2> DEFINE r == matrix[a]
  <2>1. GraphInv /\ Whole(a, r) /\ Finished(a, r) /\ DOMAIN r \subseteq Currencies(adj)
    BY <1>2 DEF BreadthInv, GraphInv, Finished, Within
  <2>2. DOMAIN Rebase(a) = DOMAIN r \ {a} /\ \A b \in DOMAIN r \ {a} : Rebase(a)[b] = r[b]
    BY <2>1 DEF Rebase, Lookup, Has
  <2>3. a \in DOMAIN r /\ Count \in Nat
    BY <2>1, BallIs DEF Finished, Explained, Count
  <2>4. Ball(a)[Count] \subseteq DOMAIN r
    BY <2>1, <2>3, ClosedHoldsBall DEF Whole
  <2>5. DOMAIN r \subseteq Ball(a)[Count]
    <3> SUFFICES ASSUME NEW b \in DOMAIN r PROVE b \in Ball(a)[Count]
      OBVIOUS
    <3>1. r[b].hops \in 0..Count /\ b \in Ball(a)[r[b].hops]
      BY <2>1 DEF Whole, Layered
    <3>2. Count \in r[b].hops..Count
      BY <2>3, <3>1
    <3>3. Ball(a)[r[b].hops] \subseteq Ball(a)[Count]
      BY <3>1, <3>2, BallGrows DEF Count
    <3> QED BY <3>1, <3>3
  <2>6. ASSUME NEW b \in DOMAIN r \ {a}
        PROVE  b \in Ball(a)[r[b].hops] \ Ball(a)[r[b].hops - 1]
    <3>1. r[b].hops \in 0..Count /\ ProvenanceOf(a, b, r[b])
      BY <2>1 DEF Whole, Layered, Finished, Explained
    <3>2. r[b].hops # 0
      BY <3>1 DEF ProvenanceOf
    <3> QED BY <2>1, <3>1, <3>2 DEF Whole, Layered
  <2> QED BY <2>2, <2>4, <2>5, <2>6
<1> QED BY InitBreadthInv, <1>1, <1>2, PTL DEF Spec

(***************************************************************************)
(* What Serving assumes of Materialize (MaterializeAssumption, IsSnapshot).*)
(***************************************************************************)
\* A pair of the matrix: of two currencies of the graph, a hop or more apart, with a
\* usable rate, an AsOf not after the build and no source but the graph's.
Servable(a, b, p) ==
  /\ {a, b} \subseteq Currencies(adj)
  /\ p.hops \in Nat \ {0} /\ Usable(p.rate)
  /\ p.asOf \in Int /\ p.asOf <= Now
  /\ Members(p.sources) \subseteq {e.source : e \in adj}

\* A snapshot as Serving takes it: each of its pairs is servable, and it has one if any
\* quote joins two currencies.
ServableSnapshot ==
  Built =>
    /\ \A a \in DOMAIN matrix : \A b \in DOMAIN matrix[a] \ {a} : Servable(a, b, matrix[a][b])
    /\ (\E e \in adj : e.from # e.to)
         => \E a \in DOMAIN matrix : DOMAIN matrix[a] \ {a} # {}

\* A pair that its legs explain is servable.
LEMMA ExplainedIsServable ==
  ASSUME GraphInv, NEW a \in DOMAIN matrix, NEW b \in DOMAIN matrix[a] \ {a}
  PROVE  Servable(a, b, matrix[a][b])
<1> DEFINE p == matrix[a][b]
<1>1. /\ Within(matrix[a]) /\ a \in DOMAIN matrix[a]
      /\ p \in Pairs /\ ProvenanceOf(a, b, p)
  BY DEF GraphInv, Finished, Within, Explained
<1>2. {a, b} \subseteq Currencies(adj)
  BY <1>1 DEF Within
<1> HIDE DEF p
<1>3. p.hops \in Nat \ {0}
  <2>1. p.hops # 0
    BY <1>1 DEF ProvenanceOf
  <2> QED BY <1>1, <2>1 DEF Pairs
<1>4. Usable(p.rate)
  BY <1>1, FxGraphAssumption DEF Pairs, Usable
<1>5. p.asOf \in Int /\ p.asOf <= Now
  BY <1>1 DEF Pairs, ProvenanceOf
<1>6. Members(p.sources) \subseteq {e.source : e \in adj}
  <2>1. /\ Members(p.sources) = {p.legs[i].source : i \in DOMAIN p.legs}
        /\ \A i \in DOMAIN p.legs : p.legs[i] \in adj
    BY <1>1 DEF ProvenanceOf, Members
  <2> QED BY <2>1
<1> QED BY <1>2, <1>3, <1>4, <1>5, <1>6 DEF Servable, p

\* Every snapshot Materialize returns has what Serving assumes of one.
THEOREM SnapshotsAreServable == Spec => []ServableSnapshot
<1>1. ASSUME GraphInv, Built, NEW e \in adj, e.from # e.to
      PROVE  \E a \in DOMAIN matrix : DOMAIN matrix[a] \ {a} # {}
  <2>1. e.from \in DOMAIN matrix
    BY <1>1, AdjFacts DEF GraphInv, TypeOK, Built
  <2>2. e.to \in Currency \ {e.from} /\ Joining(e.from, e.to) # {}
    BY <1>1, AdjFacts DEF Joining
  <2>3. e.to \in DOMAIN matrix[e.from]
    BY <1>1, <2>1, <2>2, DirectlyJoined
  <2> QED BY <1>1, <2>1, <2>3
<1>2. GraphInv => ServableSnapshot
  BY <1>1, ExplainedIsServable DEF ServableSnapshot
<1> QED BY GraphInvariant, <1>2, PTL
=============================================================================
