------------------------------ MODULE MCLimiter ------------------------------
(***************************************************************************)
(* A small instance of Limiter for TLC: three clients, two of which fit in *)
(* the map, two thirds of a token a second and a burst of two.             *)
(***************************************************************************)
EXTENDS Limiter, TLC

CONSTANTS k1, k2, k3

Clients == {k1, k2, k3}

\* Nothing in the limiter or in its properties tells one client from another.
Alike == Permutations(Clients)
=============================================================================
