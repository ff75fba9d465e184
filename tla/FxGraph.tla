------------------------------ MODULE FxGraph ------------------------------
(***************************************************************************)
(* Graph.Materialize (fx/graph.go): the all-pairs matrix of a currency     *)
(* graph, one breadth-first search per currency.                           *)
(*                                                                         *)
(* A rate is its logarithm, an integer: the product along a path is a sum, *)
(* the inverse of a quote its negation, and the band minRate..maxRate,     *)
(* symmetric in log space, is -Band..Band.  What float64 rounds away is    *)
(* not modelled.  A rate that is no number at all is one outside the band. *)
(*                                                                         *)
(* Go gives no order to the edges of the sources map, and sort.Slice keeps *)
(* none among equal timestamps: of the edges a node has left, any freshest *)
(* one may be next.                                                        *)
(***************************************************************************)
EXTENDS Integers, Sequences, FiniteSets

CONSTANTS
  Currency,   \* the currencies, numbered in the order sort.Strings gives them
  Source,     \* the sources
  Band,       \* the largest usable exponent
  Now,        \* the instant the snapshot is built at; a feed's clock may be ahead
  Graphs      \* the quotes a graph may hold when it is materialized

Quote == [from : Currency, to : Currency, rate : Int, source : Source, time : Int]

ASSUME FxGraphAssumption ==
  /\ Currency \subseteq Nat /\ IsFiniteSet(Currency)
  /\ Band \in Nat
  /\ Now \in Int
  /\ Graphs \subseteq SUBSET Quote

VARIABLES
  adj,       \* every admitted edge and its inverse
  left,      \* the currencies whose row is not yet in the matrix
  row,       \* the row being searched: a pair for each currency reached
  queue,     \* reached, not yet expanded
  cur,       \* the currency being expanded
  todo,      \* its edges not yet looked at
  matrix,    \* the finished rows
  skipped    \* history: the starts whose search met a product out of the band

vars == <<adj, left, row, queue, cur, todo, matrix, skipped>>

Put(f, k, v) == [x \in DOMAIN f \cup {k} |-> IF x = k THEN v ELSE f[x]]

Nothing == [x \in {} |-> 0]

(***************************************************************************)
(* adjacency.                                                              *)
(***************************************************************************)
\* A mutant of Usable: only what is too large is refused.
NotTooLarge(r) == r <= Band

Usable(r) == -Band <= r /\ r <= Band

\* A mutant of Inverted: the rate of the inverse is the rate.
InverseSameRate(e) ==
  [from |-> e.to, to |-> e.from, rate |-> e.rate, source |-> e.source, time |-> e.time]

Inverted(e) ==
  [from |-> e.to, to |-> e.from, rate |-> -e.rate, source |-> e.source, time |-> e.time]

Adjacency(g) ==
  LET kept == {e \in g : Usable(e.rate) /\ Usable(Inverted(e).rate)}
  IN  kept \cup {Inverted(e) : e \in kept}

\* The currencies adjacency returns; the same for a graph and for its adj.
Currencies(edges) == {e.from : e \in edges} \cup {e.to : e \in edges}

\* A mutant of Freshest: the edges of a node are not sorted.
Unsorted(edges) == edges

\* The edges that may come first when edges are sorted newest first.
Freshest(edges) == {e \in edges : \A f \in edges : f.time <= e.time}

(***************************************************************************)
(* Materialize.                                                            *)
(***************************************************************************)
\* Pair{Rate: 1, Hops: 0, AsOf: now, Path: {c}}, of a search's start and of
\* Lookup's identity.
Self(c) == [rate |-> 0, hops |-> 0, asOf |-> Now, path |-> <<c>>,
            sources |-> <<>>, legs |-> <<>>]

\* A mutant of AddDistinct: a source may appear twice.
AddAlways(xs, x) == Append(xs, x)

AddDistinct(xs, x) == IF \E i \in DOMAIN xs : xs[i] = x THEN xs ELSE Append(xs, x)

\* A mutant of Older: a path is as fresh as its last leg.
LastLeg(asOf, time) == time

Older(asOf, time) == IF time < asOf THEN time ELSE asOf

\* The pair of e.to, reached over e from the currency whose pair is base.
Extended(base, e) ==
  [rate    |-> base.rate + e.rate,
   hops    |-> base.hops + 1,
   asOf    |-> Older(base.asOf, e.time),
   path    |-> Append(base.path, e.to),
   sources |-> AddDistinct(base.sources, e.source),
   legs    |-> Append(base.legs, e)]

First(s) == CHOOSE c \in s : \A d \in s : c <= d

\* The search from the first currency of s, before its first step.
Search(s) ==
  /\ todo' = {}
  /\ IF s = {} THEN row' = Nothing /\ queue' = <<>> /\ cur' = 0
     ELSE LET c == First(s) IN
          row' = Put(Nothing, c, Self(c)) /\ queue' = <<c>> /\ cur' = c

Init ==
  /\ \E g \in Graphs : adj = Adjacency(g)
  /\ left = Currencies(adj)
  /\ left # {}
  /\ cur = First(left)
  /\ row = Put(Nothing, cur, Self(cur))
  /\ queue = <<cur>>
  /\ todo = {}
  /\ matrix = Nothing
  /\ skipped = {}

\* cur := queue[0], and its edges.
Expand ==
  /\ todo = {} /\ queue # <<>>
  /\ cur' = Head(queue)
  /\ queue' = Tail(queue)
  /\ todo' = {e \in adj : e.from = Head(queue)}
  /\ UNCHANGED <<adj, left, row, matrix, skipped>>

\* "First (shortest/freshest) wins."
AlreadyReached(e) ==
  /\ e.to \in DOMAIN row
  /\ UNCHANGED <<row, queue, skipped>>

\* "Such a path is not a rate": the target stays open for another path.
OutOfBand(e) ==
  /\ e.to \notin DOMAIN row
  /\ ~Usable(row[cur].rate + e.rate)
  /\ skipped' = skipped \cup {First(left)}
  /\ UNCHANGED <<row, queue>>

\* A mutant of Queued: the search goes depth first.
Stacked(q, c) == <<c>> \o q

Queued(q, c) == Append(q, c)

Reach(e) ==
  /\ e.to \notin DOMAIN row
  /\ Usable(row[cur].rate + e.rate)
  /\ row' = Put(row, e.to, Extended(row[cur], e))
  /\ queue' = Queued(queue, e.to)
  /\ UNCHANGED skipped

\* A mutant of Rest: a product out of the band ends the loop over the edges.
RestIfUsable(e) == IF e.to \in DOMAIN row \/ Usable(row[cur].rate + e.rate)
                   THEN todo \ {e} ELSE {}

Rest(e) == todo \ {e}

\* One round of the loop over adj[cur].
Consider ==
  \E e \in Freshest(todo) :
    /\ AlreadyReached(e) \/ OutOfBand(e) \/ Reach(e)
    /\ todo' = Rest(e)
    /\ UNCHANGED <<adj, left, cur, matrix>>

\* matrix[start] = row, and the next start.
Publish ==
  /\ todo = {} /\ queue = <<>> /\ left # {}
  /\ matrix' = Put(matrix, First(left), row)
  /\ left' = left \ {First(left)}
  /\ Search(left')
  /\ UNCHANGED <<adj, skipped>>

Next == Expand \/ Consider \/ Publish

Spec == Init /\ [][Next]_vars

(***************************************************************************)
(* The Snapshot's operations, once Materialize has returned it.            *)
(***************************************************************************)
\* Materialize has returned.
Built == left = {}

Has(c) == c \in DOMAIN matrix

Lookup(from, to) ==
  IF from = to THEN [ok |-> TRUE, pair |-> Self(from)]
  ELSE IF Has(from) /\ to \in DOMAIN matrix[from]
       THEN [ok |-> TRUE, pair |-> matrix[from][to]]
       ELSE [ok |-> FALSE]

Rebase(base) ==
  [c \in {c \in Currencies(adj) \ {base} : Lookup(base, c).ok} |-> Lookup(base, c).pair]

(***************************************************************************)
(* Properties.                                                             *)
(***************************************************************************)
Pairs == [rate : -Band..Band, hops : Nat, asOf : Int, path : Seq(Currency),
          sources : Seq(Source), legs : Seq(Quote)]

TypeOK ==
  /\ adj \in SUBSET Quote
  /\ left \in SUBSET Currencies(adj)
  /\ DOMAIN row \in SUBSET Currency /\ \A c \in DOMAIN row : row[c] \in Pairs
  /\ queue \in Seq(DOMAIN row)
  /\ cur \in Currency \cup {0}
  /\ todo \in SUBSET {e \in adj : e.from = cur}
  /\ DOMAIN matrix = Currencies(adj) \ left
  /\ \A a \in DOMAIN matrix : /\ DOMAIN matrix[a] \in SUBSET Currencies(adj)
                              /\ \A b \in DOMAIN matrix[a] : matrix[a][b] \in Pairs
  /\ skipped \in SUBSET Currencies(adj)

\* The rate of a chain of quotes: the product, here a sum, of theirs.
Product(legs) ==
  LET upTo[i \in 0..Len(legs)] == IF i = 0 THEN 0 ELSE upTo[i - 1] + legs[i].rate
  IN  upTo[Len(legs)]

\* What a pair says of itself: its legs are admitted edges that chain from one
\* currency to the other without visiting one twice, and the pair is what the legs
\* make it: Rate their product, AsOf the oldest of them (or now), Hops their number,
\* Sources the distinct sources.
ProvenanceOf(a, b, p) ==
  /\ Len(p.legs) = p.hops /\ Len(p.path) = p.hops + 1
  /\ p.path[1] = a /\ p.path[p.hops + 1] = b
  /\ \A i, j \in DOMAIN p.path : p.path[i] = p.path[j] => i = j
  /\ \A i \in DOMAIN p.legs : /\ p.legs[i] \in adj
                              /\ p.legs[i].from = p.path[i]
                              /\ p.legs[i].to = p.path[i + 1]
  /\ p.rate = Product(p.legs)
  /\ LET times == {p.legs[i].time : i \in DOMAIN p.legs} \cup {Now} IN
     p.asOf \in times /\ \A t \in times : p.asOf <= t
  /\ {p.sources[i] : i \in DOMAIN p.sources} = {p.legs[i].source : i \in DOMAIN p.legs}
  /\ \A i, j \in DOMAIN p.sources : p.sources[i] = p.sources[j] => i = j

\* Every pair of the matrix is explained by its legs, the ones reached after a skip
\* or over tied quotes included.
PairsAreTheirLegs ==
  Built => \A a \in DOMAIN matrix : \A b \in DOMAIN matrix[a] : ProvenanceOf(a, b, matrix[a][b])

\* A directly quoted pair is answered by a direct quote, and by a freshest one,
\* inverse quotes included, whatever else the graph holds ("Directly quoted pairs
\* win", docs/graph-model.md).
FreshestDirectWins ==
  Built => \A a \in DOMAIN matrix : \A b \in Currency \ {a} :
    LET quoted == {e \in adj : e.from = a /\ e.to = b} IN
    quoted # {} => /\ Lookup(a, b).ok
                   /\ \E e \in quoted : /\ Lookup(a, b).pair.legs = <<e>>
                                          /\ \A f \in quoted : f.time <= e.time

\* The currencies within n hops of a.
Ball(a) ==
  LET f[n \in 0..Cardinality(Currency)] ==
        IF n = 0 THEN {a}
        ELSE LET near == f[n - 1] IN
             near \cup {e.to : e \in {d \in adj : d.from \in near}}
  IN  f

\* Unless a search had to skip a product, it reached all that edges join to its
\* start, each over as few hops as any path has, and the snapshot knows nothing else.
ShortestUnlessSkipped ==
  Built => \A a \in DOMAIN matrix \ skipped :
    LET ball == Ball(a) IN
    /\ DOMAIN Rebase(a) = ball[Cardinality(Currency)] \ {a}
    /\ \A b \in DOMAIN Rebase(a) :
         LET n == Rebase(a)[b].hops IN b \in ball[n] \ ball[n - 1]

\* A product out of the band costs no more than that path: in a finished row, an
\* edge that leads from a currency it has to one it has not is an edge whose product
\* with the pair the row holds is itself out of the band.
NothingElseLeftOut ==
  Built => \A a \in DOMAIN matrix : \A e \in adj :
    (e.from \in DOMAIN matrix[a] /\ e.to \notin DOMAIN matrix[a])
      => ~Usable(matrix[a][e.from].rate + e.rate)

\* A pair and its reverse agree where one quote decides both: if a single quote
\* between two currencies is the freshest, the two rates are each other's inverse
\* and carry the same AsOf and source.
Reciprocal ==
  Built => \A a, b \in DOMAIN matrix :
    LET quoted == {e \in adj : e.from = a /\ e.to = b} IN
    (\E e \in quoted : \A f \in quoted \ {e} : f.time < e.time) =>
      LET p == Lookup(a, b).pair   q == Lookup(b, a).pair IN
      p.rate = -q.rate /\ p.asOf = q.asOf /\ p.sources = q.sources

\* "Exactly the `prefer direct, else shortest path, else freshest' rule"
\* (fx/graph.go, Materialize): of two paths with as few hops, both within the band,
\* the pair is not the one whose oldest leg is older.
FreshestOfTheShortest ==
  Built => \A a \in DOMAIN matrix \ skipped : \A b \in DOMAIN matrix[a] :
    \A e, f \in adj :
      (/\ matrix[a][b].hops = 2
       /\ e.from = a /\ e.to = f.from /\ f.to = b
       /\ Usable(e.rate + f.rate))
        => Older(Older(Now, e.time), f.time) <= matrix[a][b].asOf
=============================================================================
