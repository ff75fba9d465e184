----------------------------- MODULE MCBoundary -----------------------------
(***************************************************************************)
(* A small instance of Boundary for TLC: that of each of its parts.        *)
(***************************************************************************)
EXTENDS Boundary, MCFetch, MCClients, MCAnswers
=============================================================================
