----------------------------- MODULE MCRefresher -----------------------------
(***************************************************************************)
(* Small instances of Refresher for TLC.                                   *)
(***************************************************************************)
EXTENDS Refresher, TLC

CONSTANTS ecb, sarb, run, call, host

\* Three positions, of which two name the same source.
TwiceNamed == 1 :> ecb @@ 2 :> sarb @@ 3 :> ecb

\* A host's own snapshots: an empty one, and one with rates.
EmptyOrNot == {{}, {<<ecb, 1>>}}

\* Every position and a Run by itself; or one source, a Run and another caller, with a
\* host or with a source that may answer with nothing usable.
MCSetups ==
  {[slots |-> {1, 2, 3}, published |-> {0, 1}, users |-> {run}],
   [slots |-> {1}, published |-> {1}, users |-> {run, call, host}],
   [slots |-> {1}, published |-> {0, 1}, users |-> {run, call}]}

\* Two sources and two callers.
TwoCallers == {[slots |-> {1, 2}, published |-> {1}, users |-> {run, call}]}
=============================================================================
