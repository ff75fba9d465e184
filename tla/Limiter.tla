------------------------------- MODULE Limiter -------------------------------
(***************************************************************************)
(* The limiter of serve/ratelimit/ratelimit.go: a map of at most           *)
(* maxBuckets token buckets, refilled lazily when they are looked at.      *)
(* Allow makes room for a new client by evicting a bucket of a random      *)
(* sample that has refilled to full, and charges the request to a shared   *)
(* overflow bucket when the sample has none; a background goroutine sweeps *)
(* out full buckets that have long been idle.  Every operation holds l.mu  *)
(* throughout, but for the clock reading gc takes before it sweeps.  Stop  *)
(* and the end of gc are in Local: nothing here obliges gc to take a tick. *)
(*                                                                         *)
(* Keys are what bucketKey returns.  Time is in seconds and tokens are     *)
(* integers: a request costs Cost units (one token), a second brings Rate. *)
(***************************************************************************)
EXTENDS Integers, FiniteSets

CONSTANTS
  Keys,
  Cost, Rate,     \* one token, and l.rate, in the same unit
  Cap,            \* l.burst
  MaxBuckets,     \* l.maxBuckets
  Sample,         \* evictionSample
  Idle,           \* the sweep's 15 minutes
  MaxNow          \* bound: the clock stops here

ASSUME LimiterAssumption ==
  /\ Cost \in Nat \ {0} /\ Rate \in Nat \ {0}   \* rpm is clamped to at least 1
  /\ Cap \in Nat /\ Cap >= Cost                 \* burst is clamped to at least 1
  /\ MaxBuckets \in Nat \ {0} /\ Sample \in Nat \ {0}
  /\ Idle \in Nat /\ MaxNow \in Nat
  /\ IsFiniteSet(Keys)

VARIABLES
  now,        \* what l.now() answers
  buckets,    \* l.buckets: the keys in the map -> bucket
  overflow,   \* l.overflow
  gcNow,      \* the time gc has read for the sweep it is about to make, or -1
  spent,      \* history: units granted to each key from buckets of its own
  lent,       \* history: units granted to all keys together from l.overflow
  answer      \* history: what each key was last told, and when

vars == <<now, buckets, overflow, gcNow, spent, lent, answer>>

Bucket == [tokens : 0..Cap, last : 0..MaxNow]

\* l.overflow == nil.
NoBucket == [tokens |-> -1, last |-> -1]

Told(k, yes) == [answer EXCEPT ![k] = [ok |-> yes, at |-> now]]

(***************************************************************************)
(* The bucket arithmetic.                                                  *)
(***************************************************************************)

\* tokensAt: refilled to time t, capped at burst.
TokensAt(b, t) ==
  LET n == b.tokens + (t - b.last) * Rate IN IF n > Cap THEN Cap ELSE n

\* A mutant of Full: eviction goes by use alone, as a plain LRU would.
FullAlways(b, t) == TRUE

Full(b, t) == TokensAt(b, t) >= Cap

\* A mutant of Enough: any token at all will do.
EnoughAny(n) == n >= 0

Enough(n) == n >= Cost

\* take: what it leaves in b.
Taken(b, t) ==
  LET n == TokensAt(b, t)
  IN [tokens |-> IF Enough(n) THEN n - Cost ELSE n, last |-> t]

\* A mutant of Fresh: the request that creates a bucket is not charged to it.
FreshFull(t) == [tokens |-> Cap, last |-> t]

\* The bucket Allow makes for a new key, its first request already paid for.
Fresh(t) == [tokens |-> Cap - Cost, last |-> t]

\* A mutant of RetryAfter: rounded down.
RetryAfterFloor == Cost \div Rate

\* The seconds a 429 tells the client to wait: int(1/l.rate)+1.
RetryAfter == (Cost \div Rate) + 1

(***************************************************************************)
(* evictOne: the least recently used of the full buckets in a sample.      *)
(***************************************************************************)
Samples ==
  {S \in SUBSET DOMAIN buckets :
     Cardinality(S) = IF Cardinality(DOMAIN buckets) < Sample
                      THEN Cardinality(DOMAIN buckets) ELSE Sample}

FullIn(S) == {k \in S : Full(buckets[k], now)}

Victims(S) ==
  {k \in FullIn(S) : \A j \in FullIn(S) : buckets[k].last <= buckets[j].last}

\* A mutant of AtCap: off by one.
AtCapLate == Cardinality(DOMAIN buckets) > MaxBuckets

AtCap == Cardinality(DOMAIN buckets) >= MaxBuckets

Without(K) == [k \in DOMAIN buckets \ K |-> buckets[k]]

With(f, k, b) == [j \in DOMAIN f \cup {k} |-> IF j = k THEN b ELSE f[j]]

(***************************************************************************)
(* Actions.                                                                *)
(***************************************************************************)
Init ==
  /\ now = 0
  /\ buckets = [k \in {} |-> NoBucket]
  /\ overflow = NoBucket
  /\ gcNow = -1
  /\ spent = [k \in Keys |-> 0]
  /\ lent = 0
  /\ answer = [k \in Keys |-> [ok |-> TRUE, at |-> 0]]

Tick ==
  /\ now < MaxNow
  /\ now' = now + 1
  /\ UNCHANGED <<buckets, overflow, gcNow, spent, lent, answer>>

\* Allow, for a key that has a bucket.
AllowKnown(k) ==
  /\ k \in DOMAIN buckets
  /\ LET yes == Enough(TokensAt(buckets[k], now))
     IN /\ answer' = Told(k, yes)
        /\ spent' = [spent EXCEPT ![k] = IF yes THEN @ + Cost ELSE @]
  /\ buckets' = [buckets EXCEPT ![k] = Taken(@, now)]
  /\ UNCHANGED <<now, overflow, gcNow, lent>>

\* Allow, for a new key: there is room, or evictOne makes some.
AllowNew(k) ==
  /\ k \in Keys \ DOMAIN buckets
  /\ \/ /\ ~AtCap
        /\ buckets' = With(buckets, k, Fresh(now))
     \/ /\ AtCap
        /\ \E S \in Samples : \E v \in Victims(S) :
             buckets' = With(Without({v}), k, Fresh(now))
  /\ answer' = Told(k, TRUE)
  /\ spent' = [spent EXCEPT ![k] = @ + Cost]
  /\ UNCHANGED <<now, overflow, gcNow, lent>>

\* Allow, for a new key with the map at its cap and no full bucket sampled.
AllowOverflow(k) ==
  /\ k \in Keys \ DOMAIN buckets
  /\ AtCap
  /\ \E S \in Samples : FullIn(S) = {}
  /\ LET b == IF overflow = NoBucket THEN [tokens |-> Cap, last |-> now] ELSE overflow
         yes == Enough(TokensAt(b, now))
     IN /\ overflow' = Taken(b, now)
        /\ answer' = Told(k, yes)
        /\ lent' = IF yes THEN lent + Cost ELSE lent
  /\ UNCHANGED <<now, buckets, gcNow, spent>>

\* gc takes a tick and reads the clock: l.sweep(l.now()) evaluates its argument
\* before sweep locks l.mu.
GcTick ==
  /\ gcNow = -1
  /\ gcNow' = now
  /\ UNCHANGED <<now, buckets, overflow, spent, lent, answer>>

\* sweep, at a time that may be past by the time it has l.mu.
Swept == {k \in DOMAIN buckets : /\ buckets[k].last < gcNow - Idle
                                 /\ Full(buckets[k], gcNow)}

Sweep ==
  /\ gcNow # -1
  /\ buckets' = Without(Swept)
  /\ gcNow' = -1
  /\ UNCHANGED <<now, overflow, spent, lent, answer>>

Next ==
  \/ Tick \/ GcTick \/ Sweep
  \/ \E k \in Keys : AllowKnown(k) \/ AllowNew(k) \/ AllowOverflow(k)

Spec == Init /\ [][Next]_vars

(***************************************************************************)
(* Properties.                                                             *)
(***************************************************************************)
TypeOK ==
  /\ now \in 0..MaxNow
  /\ DOMAIN buckets \subseteq Keys
  /\ buckets \in [DOMAIN buckets -> Bucket]
  /\ overflow \in Bucket \cup {NoBucket}
  /\ gcNow \in -1..MaxNow
  /\ spent \in [Keys -> Nat]
  /\ lent \in Nat
  /\ answer \in [Keys -> [ok : BOOLEAN, at : 0..MaxNow]]

\* No clock reading is ahead of the clock, so no bucket is refilled backwards.
ClocksBehind ==
  /\ \A k \in DOMAIN buckets : buckets[k].last <= now
  /\ overflow.last <= now
  /\ gcNow <= now

\* "The bucket map is capped at maxBuckets" (ratelimit.go, Allow).
MapCapped == Cardinality(DOMAIN buckets) <= MaxBuckets

\* The tokens a key has for its next request: those of its bucket, or of the
\* bucket Allow would make for it.
Level(k) == IF k \in DOMAIN buckets THEN TokensAt(buckets[k], now) ELSE Cap

Shared == IF overflow = NoBucket THEN Cap ELSE TokensAt(overflow, now)

Unbounded == INSTANCE TokenBuckets
               WITH level <- [k \in Keys |-> Level(k)], shared <- Shared

\* The bounded map answers as if every client had had a bucket of its own from
\* the start: neither eviction nor the sweep ever hands anyone a fresh allowance
\* ("that is the whole eviction policy and the reason for it", Allow), and only a
\* client with its full allowance is ever charged to the shared bucket.
ImplementsUnboundedBuckets == Unbounded!Spec

\* The allowance: whatever evictions and sweeps happened, the tokens a key has and
\* all it was granted from buckets of its own come to at most a burst and the refill
\* since the start; and so do the tokens of the overflow bucket and all that it has
\* granted, to all keys together.  Every grant is from one or the other.  So a key may
\* get twice its allowance, no more (spent[k] + lent), and n keys n + 1 times.
Allowance == Cap + Rate * now

WithinBudget ==
  /\ \A k \in Keys : Level(k) + spent[k] <= Allowance
  /\ Shared + lent <= Allowance

\* Allow, if k called it now, would be certain to answer yes.
Welcome(k) ==
  IF k \in DOMAIN buckets THEN Enough(Level(k))
  ELSE \/ ~AtCap
       \/ \A S \in Samples : FullIn(S) # {}
       \/ Enough(Shared)

\* It has been refused, and has waited as long as the 429 said.
HasWaited(k) == ~answer[k].ok /\ now >= answer[k].at + RetryAfter

\* Whichever bucket refused it, a client that then waits the Retry-After seconds it was
\* told is not refused again, unless it has no bucket of its own, can get none, and
\* others have been at the overflow bucket during its last Retry-After seconds.
\* Against them waiting is no help: nothing is reserved in that bucket, and it may be
\* charged to it though it was its own bucket that refused it, when that has filled up
\* and been evicted in the meantime.
RetryAfterSuffices ==
  \A k \in Keys :
    HasWaited(k) => \/ Welcome(k)
                    \/ k \notin DOMAIN buckets /\ now < overflow.last + RetryAfter
=============================================================================
