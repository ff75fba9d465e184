----------------------------- MODULE MCFxGraph -----------------------------
(***************************************************************************)
(* Small graphs for TLC: every choice among a pool of quotes over five     *)
(* currencies.  The pool has routes of one to three hops from 1 to 4,      *)
(* parallel quotes that agree and that tie, one dated after Now, products  *)
(* beyond the band and a quote that is itself beyond it.                   *)
(***************************************************************************)
EXTENDS FxGraph

CONSTANT MaxQuotes

Q(a, b, r, s, t) == [from |-> a, to |-> b, rate |-> r, source |-> s, time |-> t]

Pool ==
  {Q(1, 2, 2, "ecb", 3), Q(1, 2, 1, "sarb", 3), Q(2, 1, 0, "boc", 1),
   Q(1, 3, 0, "ecb", 2), Q(1, 3, 3, "sarb", 3),
   Q(2, 4, 1, "boc", 1), Q(4, 2, 1, "ecb", 2),
   Q(3, 4, -2, "sarb", 2), Q(2, 3, 2, "boc", 2),
   Q(1, 4, 0, "boc", 1), Q(1, 4, 2, "sarb", 4),
   Q(3, 5, 1, "ecb", 1), Q(5, 4, -1, "boc", 3)}

SmallGraphs == {g \in SUBSET Pool : Cardinality(g) <= MaxQuotes}
=============================================================================
