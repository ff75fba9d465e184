---------------------------- MODULE TokenBuckets ----------------------------
(***************************************************************************)
(* What the rate limiter of serve/ratelimit promises, with all the memory  *)
(* in the world: every client has a bucket of its own for ever, and it     *)
(* refills with time and with nothing else.  A client whose bucket is full *)
(* may be charged to one bucket that all clients share; a client that has  *)
(* used any of its allowance is always charged to its own.                 *)
(*                                                                         *)
(* Levels are integers: a request costs Cost units, a second brings Rate,  *)
(* and a bucket holds at most Cap.                                         *)
(***************************************************************************)
EXTENDS Integers

CONSTANTS Keys, Cost, Rate, Cap, MaxNow

VARIABLES now, level, shared, spent, lent, answer

vars == <<now, level, shared, spent, lent, answer>>

Least(a, b) == IF a <= b THEN a ELSE b

Told(k, yes) == [answer EXCEPT ![k] = [ok |-> yes, at |-> now]]

Init ==
  /\ now = 0
  /\ level = [k \in Keys |-> Cap]
  /\ shared = Cap
  /\ spent = [k \in Keys |-> 0]
  /\ lent = 0
  /\ answer = [k \in Keys |-> [ok |-> TRUE, at |-> 0]]

\* A second passes.
Tick ==
  /\ now < MaxNow
  /\ now' = now + 1
  /\ level' = [k \in Keys |-> Least(level[k] + Rate, Cap)]
  /\ shared' = Least(shared + Rate, Cap)
  /\ UNCHANGED <<spent, lent, answer>>

Grant(k) ==
  /\ level[k] >= Cost
  /\ level' = [level EXCEPT ![k] = @ - Cost]
  /\ spent' = [spent EXCEPT ![k] = @ + Cost]
  /\ answer' = Told(k, TRUE)
  /\ UNCHANGED <<now, shared, lent>>

Deny(k) ==
  /\ level[k] < Cost
  /\ answer' = Told(k, FALSE)
  /\ UNCHANGED <<now, level, shared, spent, lent>>

GrantShared(k) ==
  /\ level[k] = Cap
  /\ shared >= Cost
  /\ shared' = shared - Cost
  /\ lent' = lent + Cost
  /\ answer' = Told(k, TRUE)
  /\ UNCHANGED <<now, level, spent>>

DenyShared(k) ==
  /\ level[k] = Cap
  /\ shared < Cost
  /\ answer' = Told(k, FALSE)
  /\ UNCHANGED <<now, level, shared, spent, lent>>

Next ==
  \/ Tick
  \/ \E k \in Keys : Grant(k) \/ Deny(k) \/ GrantShared(k) \/ DenyShared(k)

Spec == Init /\ [][Next]_vars
=============================================================================
