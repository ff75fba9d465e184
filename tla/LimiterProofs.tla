---------------------------- MODULE LimiterProofs ----------------------------
(***************************************************************************)
(* Theorems about Limiter, for any set of clients, rate, burst and cap.    *)
(***************************************************************************)
EXTENDS Limiter, FiniteSetTheorems, TLAPS

(***************************************************************************)
(* The bucket arithmetic.                                                  *)
(***************************************************************************)
LEMMA ProductMonotone ==
  ASSUME NEW a \in Int, NEW b \in Int, a <= b
  PROVE  a * Rate <= b * Rate /\ a * Rate \in Int
  BY LimiterAssumption

LEMMA ProductNat ==
  ASSUME NEW a \in Nat PROVE a * Rate \in Nat
  BY LimiterAssumption

LEMMA ProductSuccessor ==
  ASSUME NEW a \in Int PROVE (a + 1) * Rate = a * Rate + Rate
  BY LimiterAssumption

\* Refilled at a time not before it was last used, a bucket is a bucket.
LEMMA TokensAtType ==
  ASSUME NEW b \in Bucket, NEW t \in 0..MaxNow, b.last <= t
  PROVE  TokensAt(b, t) \in 0..Cap /\ TokensAt(b, t) >= b.tokens
<1>1. b.tokens \in 0..Cap /\ b.last \in Nat /\ t - b.last \in Nat
  BY LimiterAssumption DEF Bucket
<1>2. (t - b.last) * Rate \in Nat
  BY <1>1, ProductNat
<1> QED
  BY <1>1, <1>2, LimiterAssumption DEF TokensAt

\* A second's refill is the same whether it is added now or found later.
LEMMA TokensAtTick ==
  ASSUME NEW b \in Bucket, NEW t \in 0..MaxNow, b.last <= t
  PROVE  TokensAt(b, t + 1) =
           IF TokensAt(b, t) + Rate <= Cap THEN TokensAt(b, t) + Rate ELSE Cap
<1>1. b.tokens \in 0..Cap /\ t - b.last \in Nat /\ (t + 1) - b.last = (t - b.last) + 1
  BY LimiterAssumption DEF Bucket
<1>2. (t - b.last) * Rate \in Nat
  BY <1>1, ProductNat
<1>3. ((t + 1) - b.last) * Rate = (t - b.last) * Rate + Rate
  BY <1>1, ProductSuccessor
<1> QED
  BY <1>1, <1>2, <1>3, LimiterAssumption DEF TokensAt

\* A bucket once full stays full until it is used.
LEMMA FullStays ==
  ASSUME NEW b \in Bucket, NEW s \in 0..MaxNow, NEW t \in 0..MaxNow,
         b.last <= s, s <= t, Full(b, s)
  PROVE  TokensAt(b, t) = Cap
<1>1. b.tokens \in 0..Cap /\ s - b.last \in Int /\ t - b.last \in Int
      /\ s - b.last <= t - b.last
  BY LimiterAssumption DEF Bucket
<1>2. /\ (s - b.last) * Rate <= (t - b.last) * Rate
      /\ (s - b.last) * Rate \in Int /\ (t - b.last) * Rate \in Int
  BY <1>1, ProductMonotone
<1> QED
  BY <1>1, <1>2, LimiterAssumption DEF TokensAt, Full

\* Just used, a bucket has what take left in it.
LEMMA TokensAtLast ==
  ASSUME NEW b, NEW t \in 0..MaxNow, b.last = t, b.tokens \in 0..Cap
  PROVE  TokensAt(b, t) = b.tokens
<1>1. t - b.last = 0 /\ 0 * Rate = 0
  BY LimiterAssumption
<1> QED
  BY <1>1, LimiterAssumption DEF TokensAt

LEMMA TakenBucket ==
  ASSUME NEW b \in Bucket, NEW t \in 0..MaxNow, b.last <= t
  PROVE  /\ Taken(b, t) \in Bucket /\ Taken(b, t).last = t
         /\ TokensAt(Taken(b, t), t) =
              IF Enough(TokensAt(b, t)) THEN TokensAt(b, t) - Cost ELSE TokensAt(b, t)
<1>1. TokensAt(b, t) \in 0..Cap
  BY TokensAtType
<1>2. Taken(b, t).last = t /\ Taken(b, t).tokens \in 0..Cap /\ Taken(b, t) \in Bucket
      /\ Taken(b, t).tokens =
           IF Enough(TokensAt(b, t)) THEN TokensAt(b, t) - Cost ELSE TokensAt(b, t)
  BY <1>1, LimiterAssumption DEF Taken, Enough, Bucket
<1> QED
  BY <1>2, TokensAtLast

LEMMA FreshBucket ==
  ASSUME NEW t \in 0..MaxNow
  PROVE  /\ Fresh(t) \in Bucket /\ Fresh(t).last = t
         /\ TokensAt(Fresh(t), t) = Cap - Cost
<1>1. Fresh(t) \in Bucket /\ Fresh(t).last = t /\ Fresh(t).tokens = Cap - Cost
      /\ Cap - Cost \in 0..Cap
  BY LimiterAssumption DEF Fresh, Bucket
<1> QED
  BY <1>1, TokensAtLast

(***************************************************************************)
(* Types, and clocks that never run ahead.                                 *)
(***************************************************************************)
LInv == TypeOK /\ ClocksBehind

\* The map after Allow has made a bucket for k, v having been evicted or not.
LEMMA WithType ==
  ASSUME LInv, NEW K \in SUBSET Keys, NEW k \in Keys \ DOMAIN buckets,
         buckets' = With(Without(K), k, Fresh(now))
  PROVE  /\ DOMAIN buckets' = (DOMAIN buckets \ K) \cup {k}
         /\ buckets' \in [DOMAIN buckets' -> Bucket]
         /\ \A j \in DOMAIN buckets' : buckets'[j].last <= now
         /\ buckets'[k] = Fresh(now)
         /\ \A j \in DOMAIN buckets' \ {k} : j \in DOMAIN buckets /\ buckets'[j] = buckets[j]
<1>1. now \in 0..MaxNow /\ Fresh(now) \in Bucket /\ Fresh(now).last = now
  BY FreshBucket DEF LInv, TypeOK
<1>2. DOMAIN buckets' = (DOMAIN buckets \ K) \cup {k} /\ buckets'[k] = Fresh(now)
      /\ \A j \in DOMAIN buckets' \ {k} : j \in DOMAIN buckets /\ buckets'[j] = buckets[j]
  BY DEF With, Without
<1>3. \A j \in DOMAIN buckets' : buckets'[j] \in Bucket /\ buckets'[j].last <= now
  BY <1>1, <1>2 DEF LInv, TypeOK, ClocksBehind
<1>4. buckets' = [j \in DOMAIN buckets' |-> buckets'[j]]
  BY DEF With
<1> QED
  BY <1>2, <1>3, <1>4

\* Every case of AllowNew is one of With(Without(K), ...): K is empty, or a
\* single bucket that is full.
LEMMA AllowNewCases ==
  ASSUME LInv, NEW k \in Keys, AllowNew(k)
  PROVE  \E K \in SUBSET DOMAIN buckets :
           /\ buckets' = With(Without(K), k, Fresh(now))
           /\ \A v \in K : Full(buckets[v], now)
           /\ AtCap => \E v \in DOMAIN buckets : K = {v}
<1>1. CASE ~AtCap
  <2>1. Without({}) = buckets
    BY DEF Without, LInv, TypeOK
  <2> QED
    BY <1>1, <2>1 DEF AllowNew
<1>2. CASE AtCap
  <2>1. PICK S \in Samples : \E v \in Victims(S) :
          buckets' = With(Without({v}), k, Fresh(now))
    BY <1>2 DEF AllowNew
  <2>2. PICK v \in Victims(S) : buckets' = With(Without({v}), k, Fresh(now))
    BY <2>1
  <2>3. v \in DOMAIN buckets /\ Full(buckets[v], now)
    BY <2>1, <2>2 DEF Victims, FullIn, Samples
  <2> QED
    BY <2>2, <2>3
<1> QED
  BY <1>1, <1>2

LEMMA ToldType ==
  ASSUME NEW k \in Keys, NEW yes \in BOOLEAN, now \in 0..MaxNow,
         answer \in [Keys -> [ok : BOOLEAN, at : 0..MaxNow]]
  PROVE  Told(k, yes) \in [Keys -> [ok : BOOLEAN, at : 0..MaxNow]]
  BY DEF Told

LEMMA LInvInit == Init => LInv
<1> SUFFICES ASSUME Init PROVE LInv
  OBVIOUS
<1>1. 0 \in 0..MaxNow /\ -1 \in -1..MaxNow
  BY LimiterAssumption
<1>2. NoBucket.last = -1
  BY DEF NoBucket
<1>3. DOMAIN buckets = {} /\ buckets \in [DOMAIN buckets -> Bucket]
  BY DEF Init
<1>4. spent \in [Keys -> Nat] /\ lent \in Nat /\ answer \in [Keys -> [ok : BOOLEAN, at : 0..MaxNow]]
  BY <1>1 DEF Init
<1>5. TypeOK
  BY <1>1, <1>3, <1>4 DEF Init, TypeOK
<1>6. ClocksBehind
  BY <1>1, <1>2, <1>3 DEF Init, ClocksBehind
<1> QED
  BY <1>5, <1>6 DEF LInv

LEMMA LInvStep == LInv /\ [Next]_vars => LInv'
<1> SUFFICES ASSUME LInv, [Next]_vars PROVE LInv'
  OBVIOUS
<1> USE DEF LInv
<1>1. CASE Tick
  <2>1. now' = now + 1 /\ now' \in 0..MaxNow
    BY <1>1, LimiterAssumption DEF Tick, TypeOK
  <2>2. TypeOK'
    BY <1>1, <2>1 DEF Tick, TypeOK
  <2>3. ClocksBehind'
    BY <1>1, <2>1, LimiterAssumption DEF Tick, TypeOK, ClocksBehind, Bucket, NoBucket
  <2> QED
    BY <2>2, <2>3
<1>2. ASSUME NEW k \in Keys, AllowKnown(k) PROVE LInv'
  <2>1. buckets[k] \in Bucket /\ buckets[k].last <= now /\ now \in 0..MaxNow
        /\ k \in DOMAIN buckets
    BY <1>2 DEF AllowKnown, TypeOK, ClocksBehind
  <2>2. Taken(buckets[k], now) \in Bucket /\ Taken(buckets[k], now).last = now
    BY <2>1, TakenBucket
  <2>3. DOMAIN buckets' = DOMAIN buckets /\ buckets' \in [DOMAIN buckets -> Bucket]
    BY <1>2, <2>2 DEF AllowKnown, TypeOK
  <2>4. \A j \in DOMAIN buckets' : buckets'[j].last <= now
    BY <1>2, <2>1, <2>2, <2>3 DEF AllowKnown, TypeOK, ClocksBehind
  <2>5. spent' \in [Keys -> Nat]
    BY <1>2, LimiterAssumption DEF AllowKnown, TypeOK
  <2>6. answer' \in [Keys -> [ok : BOOLEAN, at : 0..MaxNow]]
    <3>1. answer' = Told(k, Enough(TokensAt(buckets[k], now)))
      BY <1>2 DEF AllowKnown
    <3>2. Enough(TokensAt(buckets[k], now)) \in BOOLEAN
      BY DEF Enough
    <3> QED
      BY <2>1, <3>1, <3>2, ToldType DEF TypeOK
  <2> QED
    BY <1>2, <2>1, <2>3, <2>4, <2>5, <2>6 DEF AllowKnown, TypeOK, ClocksBehind
<1>3. ASSUME NEW k \in Keys, AllowNew(k) PROVE LInv'
  <2>1. k \in Keys \ DOMAIN buckets
    BY <1>3 DEF AllowNew
  <2>2. PICK K \in SUBSET DOMAIN buckets : buckets' = With(Without(K), k, Fresh(now))
    BY <1>3, AllowNewCases
  <2>3. /\ DOMAIN buckets' \subseteq Keys
        /\ buckets' \in [DOMAIN buckets' -> Bucket]
        /\ \A j \in DOMAIN buckets' : buckets'[j].last <= now
    BY ZenonT(60), <2>1, <2>2, WithType DEF TypeOK
  <2>4. spent' \in [Keys -> Nat]
    BY <1>3, LimiterAssumption DEF AllowNew, TypeOK
  <2>5. answer' \in [Keys -> [ok : BOOLEAN, at : 0..MaxNow]]
    BY <1>3, ToldType DEF AllowNew, TypeOK
  <2> QED
    BY <1>3, <2>3, <2>4, <2>5 DEF AllowNew, TypeOK, ClocksBehind
<1>4. ASSUME NEW k \in Keys, AllowOverflow(k) PROVE LInv'
  <2> DEFINE b == IF overflow = NoBucket THEN [tokens |-> Cap, last |-> now] ELSE overflow
  <2>1. b \in Bucket /\ b.last <= now /\ now \in 0..MaxNow
    BY LimiterAssumption DEF TypeOK, ClocksBehind, Bucket
  <2>2. Taken(b, now) \in Bucket /\ Taken(b, now).last = now
    BY <2>1, TakenBucket
  <2>3. /\ overflow' = Taken(b, now)
        /\ answer' = Told(k, Enough(TokensAt(b, now)))
        /\ lent' = IF Enough(TokensAt(b, now)) THEN lent + Cost ELSE lent
    BY <1>4 DEF AllowOverflow
  <2>4. answer' \in [Keys -> [ok : BOOLEAN, at : 0..MaxNow]]
    <3>1. Enough(TokensAt(b, now)) \in BOOLEAN
      BY DEF Enough
    <3> QED
      BY <2>1, <2>3, <3>1, ToldType DEF TypeOK
  <2>5. lent' \in Nat
    BY <2>3, LimiterAssumption DEF TypeOK
  <2> QED
    BY <1>4, <2>1, <2>2, <2>3, <2>4, <2>5 DEF AllowOverflow, TypeOK, ClocksBehind
<1>5. CASE GcTick
  BY <1>5, LimiterAssumption DEF GcTick, TypeOK, ClocksBehind
<1>6. CASE Sweep
  <2>1. DOMAIN buckets' \subseteq DOMAIN buckets
        /\ \A j \in DOMAIN buckets' : buckets'[j] = buckets[j]
    BY <1>6 DEF Sweep, Without
  <2>2. -1 \in -1..MaxNow /\ -1 <= now
    BY LimiterAssumption DEF TypeOK
  <2>3. buckets' \in [DOMAIN buckets' -> Bucket]
    <3>1. \A j \in DOMAIN buckets' : buckets'[j] \in Bucket
      BY <2>1 DEF TypeOK
    <3>2. buckets' = [j \in DOMAIN buckets' |-> buckets'[j]]
      BY <1>6 DEF Sweep, Without
    <3> QED
      BY <3>1, <3>2
  <2>4. TypeOK'
    BY <1>6, <2>1, <2>2, <2>3 DEF Sweep, TypeOK
  <2>5. ClocksBehind'
    BY <1>6, <2>1, <2>2 DEF Sweep, ClocksBehind
  <2> QED
    BY <2>4, <2>5
<1>7. CASE UNCHANGED vars
  BY <1>7 DEF vars, TypeOK, ClocksBehind
<1> QED
  BY <1>1, <1>2, <1>3, <1>4, <1>5, <1>6, <1>7 DEF Next

\* Every bucket always holds between nothing and a burst, and no clock reading
\* is ahead of the clock.
THEOREM LimiterTypeCorrect == Spec => [](TypeOK /\ ClocksBehind)
<1>1. Init => LInv
  BY LInvInit
<1>2. LInv /\ [Next]_vars => LInv'
  BY LInvStep
<1> QED
  BY <1>1, <1>2, PTL DEF Spec, LInv

(***************************************************************************)
(* The map never outgrows its cap.                                         *)
(***************************************************************************)
LEMMA MapCappedStep ==
  ASSUME LInv, MapCapped, [Next]_vars
  PROVE  MapCapped'
<1> USE DEF MapCapped
<1>1. IsFiniteSet(DOMAIN buckets) /\ Cardinality(DOMAIN buckets) \in Nat
  BY LimiterAssumption, FS_Subset, FS_CardinalityType DEF LInv, TypeOK
<1>2. ASSUME NEW k \in Keys, AllowNew(k) PROVE MapCapped'
  <2>1. k \in Keys \ DOMAIN buckets
    BY <1>2 DEF AllowNew
  <2>2. PICK K \in SUBSET DOMAIN buckets :
          /\ buckets' = With(Without(K), k, Fresh(now))
          /\ AtCap => \E v \in DOMAIN buckets : K = {v}
    BY <1>2, AllowNewCases
  <2>3. DOMAIN buckets' = (DOMAIN buckets \ K) \cup {k}
    BY <2>2 DEF With, Without
  <2>4. CASE ~AtCap
    <3>1. IsFiniteSet(DOMAIN buckets \cup {k})
          /\ Cardinality(DOMAIN buckets \cup {k}) = Cardinality(DOMAIN buckets) + 1
      BY <1>1, <2>1, FS_AddElement
    <3>2. Cardinality(DOMAIN buckets') <= Cardinality(DOMAIN buckets \cup {k})
      BY <2>3, <3>1, FS_Subset
    <3>3. Cardinality(DOMAIN buckets') \in Nat
      BY <2>3, <3>1, FS_Subset, FS_CardinalityType
    <3> QED
      BY <1>1, <2>4, <3>1, <3>2, <3>3, LimiterAssumption DEF AtCap
  <2>5. CASE AtCap
    <3>1. PICK v \in DOMAIN buckets : K = {v}
      BY <2>2, <2>5
    <3>2. IsFiniteSet(DOMAIN buckets \ {v})
          /\ Cardinality(DOMAIN buckets \ {v}) = Cardinality(DOMAIN buckets) - 1
      BY <1>1, FS_RemoveElement
    <3>3. k \notin DOMAIN buckets \ {v}
      BY <2>1
    <3>4. Cardinality(DOMAIN buckets') = Cardinality(DOMAIN buckets \ {v}) + 1
      BY <2>3, <3>1, <3>2, <3>3, FS_AddElement
    <3> QED
      BY <1>1, <3>2, <3>4
  <2> QED
    BY <2>4, <2>5
<1>3. CASE Sweep
  <2>1. DOMAIN buckets' \subseteq DOMAIN buckets
    BY <1>3 DEF Sweep, Without
  <2>2. Cardinality(DOMAIN buckets') <= Cardinality(DOMAIN buckets)
        /\ IsFiniteSet(DOMAIN buckets')
    BY <1>1, <2>1, FS_Subset
  <2>3. Cardinality(DOMAIN buckets') \in Nat
    BY <2>2, FS_CardinalityType
  <2> QED
    BY <1>1, <2>2, <2>3, LimiterAssumption
<1>4. ASSUME NEW k \in Keys, AllowKnown(k) PROVE MapCapped'
  <2>1. DOMAIN buckets' = DOMAIN buckets
    BY <1>4 DEF AllowKnown
  <2> QED
    BY <2>1
<1>5. CASE buckets' = buckets
  BY <1>5
<1> QED
  BY <1>2, <1>3, <1>4, <1>5 DEF Next, vars, Tick, AllowOverflow, GcTick

\* "The bucket map is capped at maxBuckets": under any flood of new keys.
THEOREM MapStaysCapped == Spec => []MapCapped
<1>1. Init => MapCapped
  BY FS_EmptySet, LimiterAssumption DEF Init, MapCapped
<1>2. LInv /\ MapCapped /\ [Next]_vars => MapCapped'
  BY MapCappedStep
<1> QED
  BY <1>1, <1>2, LimiterTypeCorrect, PTL DEF Spec, LInv

(***************************************************************************)
(* What each operation does to the tokens each key has for its next        *)
(* request.  Eviction and sweeping do nothing to them: a deleted bucket is *)
(* full, and full is what its owner's next bucket starts as.               *)
(***************************************************************************)
LEMMA LevelType ==
  ASSUME LInv, NEW k \in Keys
  PROVE  Level(k) \in 0..Cap
  BY TokensAtType, LimiterAssumption DEF LInv, TypeOK, ClocksBehind, Level

LEMMA SharedType ==
  ASSUME LInv
  PROVE  Shared \in 0..Cap
  BY TokensAtType, LimiterAssumption DEF LInv, TypeOK, ClocksBehind, Shared

LEMMA TickLevels ==
  ASSUME LInv, Tick
  PROVE  /\ \A k \in Keys : Level(k)' = Unbounded!Least(Level(k) + Rate, Cap)
         /\ Shared' = Unbounded!Least(Shared + Rate, Cap)
<1> USE DEF LInv
<1>1. now' = now + 1 /\ now \in 0..MaxNow /\ Rate \in Nat /\ Cap \in Nat
      /\ buckets' = buckets /\ overflow' = overflow
  BY LimiterAssumption DEF Tick, TypeOK
<1>2. ASSUME NEW k \in Keys PROVE Level(k)' = Unbounded!Least(Level(k) + Rate, Cap)
  <2>1. CASE k \in DOMAIN buckets
    <3>1. buckets[k] \in Bucket /\ buckets[k].last <= now
      BY <2>1 DEF TypeOK, ClocksBehind
    <3>2. Level(k) = TokensAt(buckets[k], now) /\ Level(k)' = TokensAt(buckets[k], now + 1)
      BY <1>1, <2>1 DEF Level
    <3> QED
      BY <1>1, <3>1, <3>2, TokensAtTick DEF Unbounded!Least
  <2>2. CASE k \notin DOMAIN buckets
    BY <1>1, <2>2 DEF Level, Unbounded!Least
  <2> QED
    BY <2>1, <2>2
<1>3. Shared' = Unbounded!Least(Shared + Rate, Cap)
  <2>1. CASE overflow = NoBucket
    BY <1>1, <2>1 DEF Shared, Unbounded!Least
  <2>2. CASE overflow # NoBucket
    <3>1. overflow \in Bucket /\ overflow.last <= now
      BY <2>2 DEF TypeOK, ClocksBehind
    <3>2. Shared = TokensAt(overflow, now) /\ Shared' = TokensAt(overflow, now + 1)
      BY <1>1, <2>2 DEF Shared
    <3> QED
      BY <1>1, <3>1, <3>2, TokensAtTick DEF Unbounded!Least
  <2> QED
    BY <2>1, <2>2
<1> QED
  BY <1>2, <1>3

LEMMA AllowKnownLevels ==
  ASSUME LInv, NEW k \in Keys, AllowKnown(k)
  PROVE  /\ \A j \in Keys \ {k} : Level(j)' = Level(j)
         /\ Level(k)' = IF Enough(Level(k)) THEN Level(k) - Cost ELSE Level(k)
         /\ Shared' = Shared
<1>1. buckets[k] \in Bucket /\ buckets[k].last <= now /\ now \in 0..MaxNow
      /\ k \in DOMAIN buckets
  BY DEF AllowKnown, LInv, TypeOK, ClocksBehind
<1>2. /\ DOMAIN buckets' = DOMAIN buckets /\ now' = now /\ overflow' = overflow
      /\ buckets'[k] = Taken(buckets[k], now)
      /\ \A j \in DOMAIN buckets \ {k} : buckets'[j] = buckets[j]
  BY <1>1 DEF AllowKnown
<1>3. Level(k)' = TokensAt(Taken(buckets[k], now), now) /\ Level(k) = TokensAt(buckets[k], now)
  BY <1>1, <1>2 DEF Level
<1>4. Level(k)' = IF Enough(Level(k)) THEN Level(k) - Cost ELSE Level(k)
  BY <1>1, <1>3, TakenBucket
<1>5. \A j \in Keys \ {k} : Level(j)' = Level(j)
  BY <1>2 DEF Level
<1>6. Shared' = Shared
  BY <1>2 DEF Shared
<1> QED
  BY <1>4, <1>5, <1>6

LEMMA AllowNewLevels ==
  ASSUME LInv, NEW k \in Keys, AllowNew(k)
  PROVE  /\ \A j \in Keys \ {k} : Level(j)' = Level(j)
         /\ Level(k) = Cap /\ Level(k)' = Cap - Cost
         /\ Shared' = Shared
<1>1. k \in Keys \ DOMAIN buckets /\ now' = now /\ overflow' = overflow
      /\ now \in 0..MaxNow
  BY DEF AllowNew, LInv, TypeOK
<1>2. PICK K \in SUBSET DOMAIN buckets :
        buckets' = With(Without(K), k, Fresh(now)) /\ \A v \in K : Full(buckets[v], now)
  BY AllowNewCases
<1>3. /\ DOMAIN buckets' = (DOMAIN buckets \ K) \cup {k}
      /\ buckets'[k] = Fresh(now)
      /\ \A j \in DOMAIN buckets' \ {k} : j \in DOMAIN buckets /\ buckets'[j] = buckets[j]
  BY <1>1, <1>2, WithType DEF LInv, TypeOK
<1>4. ASSUME NEW v \in K PROVE Level(v) = Cap
  <2>1. buckets[v] \in Bucket /\ buckets[v].last <= now
    BY <1>4 DEF LInv, TypeOK, ClocksBehind
  <2>2. TokensAt(buckets[v], now) = Cap
    BY <1>1, <1>2, <1>4, <2>1, FullStays, LimiterAssumption
  <2> QED
    BY <2>2, <1>4 DEF Level
<1>5. Level(k) = Cap /\ Level(k)' = Cap - Cost
  BY <1>1, <1>3, FreshBucket DEF Level
<1>6. ASSUME NEW j \in Keys \ {k} PROVE Level(j)' = Level(j)
  BY <1>1, <1>3, <1>4, <1>6 DEF Level
<1>7. Shared' = Shared
  BY <1>1 DEF Shared
<1> QED
  BY <1>5, <1>6, <1>7

LEMMA AllowOverflowLevels ==
  ASSUME LInv, NEW k \in Keys, AllowOverflow(k)
  PROVE  /\ \A j \in Keys : Level(j)' = Level(j)
         /\ Level(k) = Cap
         /\ Shared' = IF Enough(Shared) THEN Shared - Cost ELSE Shared
         /\ answer' = Told(k, Enough(Shared))
         /\ lent' = IF Enough(Shared) THEN lent + Cost ELSE lent
<1> DEFINE b == IF overflow = NoBucket THEN [tokens |-> Cap, last |-> now] ELSE overflow
<1>1. b \in Bucket /\ b.last <= now /\ now \in 0..MaxNow
  BY LimiterAssumption DEF LInv, TypeOK, ClocksBehind, Bucket
<1>2. /\ overflow' = Taken(b, now) /\ answer' = Told(k, Enough(TokensAt(b, now)))
      /\ lent' = IF Enough(TokensAt(b, now)) THEN lent + Cost ELSE lent
      /\ now' = now /\ buckets' = buckets /\ k \notin DOMAIN buckets
  BY DEF AllowOverflow
<1>3. TokensAt(b, now) = Shared
  <2>1. CASE overflow = NoBucket
    <3>1. b.tokens = Cap /\ b.last = now /\ Cap \in 0..Cap
      BY <2>1, LimiterAssumption
    <3>2. TokensAt(b, now) = Cap
      BY <1>1, <3>1, TokensAtLast
    <3> QED
      BY <2>1, <3>2 DEF Shared
  <2>2. CASE overflow # NoBucket
    BY <2>2 DEF Shared
  <2> QED
    BY <2>1, <2>2
<1>4. overflow' # NoBucket
  BY <1>1, <1>2, TakenBucket, LimiterAssumption DEF NoBucket, Bucket
<1>5. Shared' = TokensAt(Taken(b, now), now)
  BY <1>2, <1>4 DEF Shared
<1>6. Shared' = IF Enough(Shared) THEN Shared - Cost ELSE Shared
  BY <1>1, <1>3, <1>5, TakenBucket
<1>7. Level(k) = Cap /\ \A j \in Keys : Level(j)' = Level(j)
  BY <1>2 DEF Level
<1> QED
  BY <1>2, <1>3, <1>6, <1>7

LEMMA SweepLevels ==
  ASSUME LInv, Sweep
  PROVE  (\A k \in Keys : Level(k)' = Level(k)) /\ Shared' = Shared
<1>1. /\ DOMAIN buckets' = DOMAIN buckets \ Swept
      /\ \A j \in DOMAIN buckets' : buckets'[j] = buckets[j]
      /\ now' = now /\ overflow' = overflow
  BY DEF Sweep, Without
<1>2. ASSUME NEW k \in Swept PROVE Level(k) = Cap
  <2>1. k \in DOMAIN buckets /\ buckets[k] \in Bucket /\ buckets[k].last < gcNow - Idle
        /\ Full(buckets[k], gcNow)
    BY <1>2 DEF Swept, LInv, TypeOK
  <2>2. gcNow \in 0..MaxNow /\ gcNow <= now /\ now \in 0..MaxNow /\ buckets[k].last <= gcNow
    BY <2>1, LimiterAssumption DEF Sweep, LInv, TypeOK, ClocksBehind, Bucket
  <2>3. TokensAt(buckets[k], now) = Cap
    BY <2>1, <2>2, FullStays
  <2> QED
    BY <2>1, <2>3 DEF Level
<1>3. \A k \in Keys : Level(k)' = Level(k)
  BY <1>1, <1>2 DEF Level
<1> QED
  BY <1>1, <1>3 DEF Shared

(***************************************************************************)
(* The allowance.                                                          *)
(***************************************************************************)
LEMMA BudgetStep ==
  ASSUME LInv, WithinBudget, [Next]_vars
  PROVE  WithinBudget'
<1>1. /\ now \in Nat /\ Rate \in Nat /\ Cap \in Nat /\ Cost \in Nat
      /\ \A k \in Keys : Level(k) \in Int /\ spent[k] \in Nat
      /\ Shared \in Int /\ lent \in Nat
      /\ Allowance \in Int
  BY LevelType, SharedType, LimiterAssumption, ProductNat DEF LInv, TypeOK, Allowance
<1>2. CASE Tick
  <2>1. now' = now + 1 /\ spent' = spent /\ lent' = lent
    BY <1>2 DEF Tick
  <2>2. Allowance' = Allowance + Rate
    BY <1>1, <2>1 DEF Allowance
  <2>3. /\ \A k \in Keys : Level(k)' <= Level(k) + Rate /\ Level(k)' \in Int
        /\ Shared' <= Shared + Rate /\ Shared' \in Int
    BY <1>1, <1>2, TickLevels DEF Unbounded!Least
  <2>4. \A k \in Keys : Level(k)' + spent'[k] <= Allowance'
    BY <1>1, <2>1, <2>2, <2>3 DEF WithinBudget
  <2>5. Shared' + lent' <= Allowance'
    <3>1. Shared + lent <= Allowance
      BY DEF WithinBudget
    <3>2. Shared' <= Shared + Rate /\ Shared' \in Int
      BY <2>3
    <3>3. Shared \in Int /\ lent \in Int /\ Allowance \in Int /\ Rate \in Int
      BY <1>1
    <3>4. \A s \in Int : s <= Shared + Rate => s + lent <= Allowance + Rate
      BY <3>1, <3>3
    <3> QED
      BY <2>1, <2>2, <3>2, <3>4
  <2> QED
    BY <2>4, <2>5 DEF WithinBudget
<1>3. ASSUME NEW k \in Keys, AllowKnown(k) PROVE WithinBudget'
  <2>1. /\ \A j \in Keys \ {k} : Level(j)' = Level(j)
        /\ Level(k)' = IF Enough(Level(k)) THEN Level(k) - Cost ELSE Level(k)
        /\ Shared' = Shared
    BY <1>3, AllowKnownLevels
  <2>2. /\ now' = now /\ lent' = lent
        /\ spent' = [spent EXCEPT ![k] = IF Enough(Level(k)) THEN @ + Cost ELSE @]
    BY <1>3 DEF AllowKnown, Level
  <2>3. /\ \A j \in Keys \ {k} : spent'[j] = spent[j]
        /\ spent'[k] = IF Enough(Level(k)) THEN spent[k] + Cost ELSE spent[k]
    BY <2>2 DEF LInv, TypeOK
  <2>4. Level(k)' + spent'[k] = Level(k) + spent[k]
    BY <1>1, <2>1, <2>3
  <2> QED
    BY <2>1, <2>2, <2>3, <2>4 DEF WithinBudget, Allowance
<1>4. ASSUME NEW k \in Keys, AllowNew(k) PROVE WithinBudget'
  <2>1. /\ \A j \in Keys \ {k} : Level(j)' = Level(j)
        /\ Level(k) = Cap /\ Level(k)' = Cap - Cost
        /\ Shared' = Shared
    BY <1>4, AllowNewLevels
  <2>2. /\ \A j \in Keys \ {k} : spent'[j] = spent[j]
        /\ spent'[k] = spent[k] + Cost /\ now' = now /\ lent' = lent
    BY <1>4 DEF AllowNew, LInv, TypeOK
  <2>3. Level(k)' + spent'[k] = Level(k) + spent[k]
    BY <1>1, <2>1, <2>2
  <2> QED
    BY <2>1, <2>2, <2>3 DEF WithinBudget, Allowance
<1>5. ASSUME NEW k \in Keys, AllowOverflow(k) PROVE WithinBudget'
  <2>1. /\ \A j \in Keys : Level(j)' = Level(j)
        /\ Shared' = IF Enough(Shared) THEN Shared - Cost ELSE Shared
        /\ lent' = IF Enough(Shared) THEN lent + Cost ELSE lent
        /\ now' = now /\ spent' = spent
    BY <1>5, AllowOverflowLevels DEF AllowOverflow
  <2>2. Shared' + lent' = Shared + lent
    BY <1>1, <2>1
  <2> QED
    BY <2>1, <2>2 DEF WithinBudget, Allowance
<1>6. CASE Sweep
  BY <1>6, SweepLevels DEF Sweep, WithinBudget, Allowance
<1>7. CASE UNCHANGED <<now, buckets, overflow, spent, lent>>
  BY <1>7 DEF WithinBudget, Level, Shared, Allowance
<1> QED
  BY <1>2, <1>3, <1>4, <1>5, <1>6, <1>7 DEF Next, vars, GcTick

\* Whatever is evicted and swept, and whenever: what a client is granted from all the
\* buckets that were ever its own comes to at most one burst and the refill since the
\* start, and what the overflow bucket grants, to everyone together, to as much again.
THEOREM AllowanceIsBounded == Spec => []WithinBudget
<1>1. Init => WithinBudget
  <2> SUFFICES ASSUME Init PROVE WithinBudget
    OBVIOUS
  <2>1. Allowance = Cap /\ Cap \in Nat
    BY LimiterAssumption DEF Init, Allowance
  <2>2. (\A k \in Keys : Level(k) = Cap /\ spent[k] = 0) /\ Shared = Cap /\ lent = 0
    BY DEF Init, Level, Shared
  <2> QED
    BY <2>1, <2>2 DEF WithinBudget
<1>2. LInv /\ WithinBudget /\ [Next]_vars => WithinBudget'
  BY BudgetStep
<1> QED
  BY <1>1, <1>2, LimiterTypeCorrect, PTL DEF Spec, LInv

(***************************************************************************)
(* Refinement.                                                             *)
(***************************************************************************)
LEMMA RefinementInit == Init => Unbounded!Init
  BY DEF Init, Unbounded!Init, Level, Shared, Unbounded!Told

LEMMA RefinementStep ==
  ASSUME LInv, [Next]_vars
  PROVE  [Unbounded!Next]_(Unbounded!vars)
<1> DEFINE L == [k \in Keys |-> Level(k)]
<1> USE DEF Unbounded!Next, Unbounded!Told, Told
<1>1. CASE Tick
  <2>1. L' = [k \in Keys |-> Unbounded!Least(L[k] + Rate, Cap)]
    BY <1>1, TickLevels
  <2>2. Unbounded!Tick
    BY <1>1, <2>1, TickLevels DEF Tick, Unbounded!Tick
  <2> QED
    BY <2>2
<1>2. ASSUME NEW k \in Keys, AllowKnown(k) PROVE [Unbounded!Next]_(Unbounded!vars)
  <2>1. Level(k) \in Int /\ Cost \in Int
    BY LevelType, LimiterAssumption
  <2>2. /\ now' = now /\ lent' = lent
        /\ answer' = Told(k, Enough(Level(k)))
        /\ spent' = [spent EXCEPT ![k] = IF Enough(Level(k)) THEN @ + Cost ELSE @]
    BY <1>2 DEF AllowKnown, Level
  <2>3. CASE Enough(Level(k))
    <3>1. L' = [L EXCEPT ![k] = @ - Cost]
      BY <1>2, <2>3, AllowKnownLevels
    <3>2. Unbounded!Grant(k)
      BY <1>2, <2>1, <2>2, <2>3, <3>1, AllowKnownLevels DEF Unbounded!Grant, Enough
    <3> QED
      BY <3>2
  <2>4. CASE ~Enough(Level(k))
    <3>1. L' = L
      BY <1>2, <2>4, AllowKnownLevels
    <3>2. spent' = spent
      BY <2>2, <2>4 DEF LInv, TypeOK
    <3>3. Level(k) < Cost /\ answer' = Told(k, FALSE)
      <4>1. Enough(Level(k)) = FALSE
        BY <2>4 DEF Enough
      <4>2. Level(k) < Cost
        BY <2>1, <2>4 DEF Enough
      <4> QED
        BY <2>2, <4>1, <4>2
    <3>4. Unbounded!Deny(k)
      BY <1>2, <2>1, <2>2, <3>1, <3>2, <3>3, AllowKnownLevels DEF Unbounded!Deny
    <3> QED
      BY <3>4
  <2> QED
    BY <2>3, <2>4
<1>3. ASSUME NEW k \in Keys, AllowNew(k) PROVE [Unbounded!Next]_(Unbounded!vars)
  <2>1. L' = [L EXCEPT ![k] = @ - Cost]
    BY <1>3, AllowNewLevels
  <2>2. Unbounded!Grant(k)
    BY <1>3, <2>1, AllowNewLevels, LimiterAssumption DEF AllowNew, Unbounded!Grant
  <2> QED
    BY <2>2
<1>4. ASSUME NEW k \in Keys, AllowOverflow(k) PROVE [Unbounded!Next]_(Unbounded!vars)
  <2>1. Shared \in Int /\ Cost \in Int
    BY SharedType, LimiterAssumption
  <2>2. /\ L' = L /\ now' = now /\ spent' = spent
        /\ lent' = IF Enough(Shared) THEN lent + Cost ELSE lent
    BY <1>4, AllowOverflowLevels DEF AllowOverflow
  <2>3. CASE Enough(Shared)
    BY <1>4, <2>1, <2>2, <2>3, AllowOverflowLevels DEF Unbounded!GrantShared, Enough
  <2>4. CASE ~Enough(Shared)
    <3>1. Enough(Shared) = FALSE
      BY <2>4 DEF Enough
    <3>2. Shared < Cost
      BY <2>1, <2>4 DEF Enough
    <3>3. answer' = Told(k, FALSE)
      BY <1>4, <3>1, AllowOverflowLevels
    <3>4. Shared' = Shared /\ lent' = lent
      BY <1>4, <2>2, <2>4, AllowOverflowLevels
    <3>5. Unbounded!DenyShared(k)
      BY <1>4, <2>2, <3>2, <3>3, <3>4, AllowOverflowLevels DEF Unbounded!DenyShared
    <3> QED
      BY <3>5
  <2> QED
    BY <2>3, <2>4
<1>5. CASE Sweep
  <2>1. L' = L
    BY <1>5, SweepLevels
  <2> QED
    BY <1>5, <2>1, SweepLevels DEF Sweep, Unbounded!vars
<1>6. CASE UNCHANGED <<now, buckets, overflow, spent, lent, answer>>
  <2>1. L' = L /\ Shared' = Shared
    BY <1>6 DEF Level, Shared
  <2> QED
    BY <1>6, <2>1 DEF Unbounded!vars
<1> QED
  BY <1>1, <1>2, <1>3, <1>4, <1>5, <1>6 DEF Next, vars, GcTick

\* The capped map of lazily refilled buckets implements one bucket per client
\* for ever: no answer it gives differs because of an eviction or a sweep.
THEOREM LimiterImplementsUnboundedBuckets == Spec => ImplementsUnboundedBuckets
<1>1. Init => Unbounded!Init
  BY RefinementInit
<1>2. LInv /\ [Next]_vars => [Unbounded!Next]_(Unbounded!vars)
  BY RefinementStep
<1> QED
  BY <1>1, <1>2, LimiterTypeCorrect, PTL
     DEF Spec, LInv, ImplementsUnboundedBuckets, Unbounded!Spec

(***************************************************************************)
(* Retry-After.                                                            *)
(***************************************************************************)
\* A quotient plus one times the divisor is more than the dividend.
LEMMA QuotientIsBelow ==
  ASSUME NEW a \in Nat, NEW b \in Nat, b # 0
  PROVE  a \div b \in Nat /\ a < (a \div b + 1) * b
OBVIOUS

\* The refill of RetryAfter seconds is a token at least.
LEMMA RetryAfterBringsAToken ==
  RetryAfter \in Nat /\ RetryAfter * Rate >= Cost
<1>1. Cost \in Nat /\ Rate \in Nat /\ Rate # 0
  BY LimiterAssumption
<1> DEFINE q == Cost \div Rate
<1>2. q \in Nat /\ Cost < (q + 1) * Rate
  BY <1>1, QuotientIsBelow
<1> HIDE DEF q
<1>3. RetryAfter = q + 1
  BY DEF RetryAfter, q
<1> QED BY <1>1, <1>2, <1>3

\* A key that has a bucket was last answered from it.
Dated == \A k \in DOMAIN buckets : buckets[k].last = answer[k].at

LEMMA DatedStep ==
  ASSUME LInv, Dated, [Next]_vars
  PROVE  Dated'
<1>1. ASSUME NEW k \in Keys, AllowKnown(k) PROVE Dated'
  <2>1. DOMAIN buckets' = DOMAIN buckets /\ DOMAIN buckets \subseteq Keys /\ now' = now
    BY <1>1 DEF AllowKnown, LInv, TypeOK
  <2>2. buckets'[k].last = now /\ answer'[k].at = now
    BY <1>1 DEF AllowKnown, LInv, TypeOK, Told, Taken
  <2>3. \A j \in DOMAIN buckets \ {k} : buckets'[j] = buckets[j] /\ answer'[j] = answer[j]
    BY <1>1, <2>1 DEF AllowKnown, LInv, TypeOK, Told
  <2> QED
    BY <2>1, <2>2, <2>3 DEF Dated
<1>2. ASSUME NEW k \in Keys, AllowNew(k) PROVE Dated'
  <2>1. k \in Keys \ DOMAIN buckets /\ now' = now /\ now \in 0..MaxNow
    BY <1>2 DEF AllowNew, LInv, TypeOK
  <2>2. PICK K \in SUBSET DOMAIN buckets : buckets' = With(Without(K), k, Fresh(now))
    BY <1>2, AllowNewCases
  <2>3. /\ buckets'[k] = Fresh(now)
        /\ \A j \in DOMAIN buckets' \ {k} : j \in DOMAIN buckets /\ buckets'[j] = buckets[j]
    BY <2>1, <2>2, WithType DEF LInv, TypeOK
  <2>4. answer'[k].at = now /\ \A j \in Keys \ {k} : answer'[j] = answer[j]
    BY <1>2 DEF AllowNew, LInv, TypeOK, Told
  <2>5. Fresh(now).last = now
    BY DEF Fresh
  <2> QED
    BY <2>3, <2>4, <2>5 DEF Dated, LInv, TypeOK
<1>3. ASSUME NEW k \in Keys, AllowOverflow(k) PROVE Dated'
  <2>1. k \notin DOMAIN buckets /\ buckets' = buckets
        /\ \A j \in Keys \ {k} : answer'[j] = answer[j]
    BY <1>3 DEF AllowOverflow, LInv, TypeOK, Told
  <2> QED
    BY <2>1 DEF Dated, LInv, TypeOK
<1>4. CASE Sweep
  <2>1. answer' = answer /\ DOMAIN buckets' \subseteq DOMAIN buckets
        /\ \A j \in DOMAIN buckets' : buckets'[j] = buckets[j]
    BY <1>4 DEF Sweep, Without
  <2> QED
    BY <2>1 DEF Dated
<1>5. CASE UNCHANGED <<buckets, answer>>
  BY <1>5 DEF Dated
<1> QED
  BY <1>1, <1>2, <1>3, <1>4, <1>5 DEF Next, vars, Tick, GcTick

\* After RetryAfter seconds any bucket has a token in it.
LEMMA WaitedFor ==
  ASSUME NEW b \in Bucket, NEW t \in 0..MaxNow, t >= b.last + RetryAfter
  PROVE  Enough(TokensAt(b, t))
<1>1. /\ b.tokens \in Nat /\ b.last \in Nat /\ t \in Nat
      /\ Cost \in Nat /\ Cap \in Nat /\ Cap >= Cost
  BY LimiterAssumption DEF Bucket
<1>2. RetryAfter \in Int /\ t - b.last \in Int /\ RetryAfter <= t - b.last
  BY <1>1, RetryAfterBringsAToken
<1>3. /\ RetryAfter * Rate <= (t - b.last) * Rate
      /\ RetryAfter * Rate \in Int /\ (t - b.last) * Rate \in Int
  BY <1>2, ProductMonotone
<1>4. RetryAfter * Rate >= Cost
  BY RetryAfterBringsAToken
<1> QED
  BY <1>1, <1>3, <1>4 DEF TokensAt, Enough

\* Whoever waits as long as a 429 says is let in, whichever bucket refused it: the
\* division rounds down and the one added makes up for it, whatever the rate.  The one
\* exception is a client without a bucket that can get none and finds that others have
\* been at the overflow bucket for less than that long (RetryAfterSuffices).
THEOREM WaitingIsEnough == Spec => []RetryAfterSuffices
<1>1. Init => Dated
  BY DEF Init, Dated
<1>2. LInv /\ Dated /\ [Next]_vars => Dated'
  BY DatedStep
<1>3. LInv /\ Dated => RetryAfterSuffices
  <2> SUFFICES ASSUME LInv, Dated, NEW k \in Keys, HasWaited(k),
                      k \in DOMAIN buckets \/ ~(now < overflow.last + RetryAfter)
               PROVE  Welcome(k)
    BY DEF RetryAfterSuffices
  <2>1. CASE k \in DOMAIN buckets
    <3>1. buckets[k] \in Bucket /\ now \in 0..MaxNow /\ now >= buckets[k].last + RetryAfter
      BY <2>1 DEF LInv, TypeOK, Dated, HasWaited
    <3>2. Enough(TokensAt(buckets[k], now))
      BY <3>1, WaitedFor
    <3> QED
      BY <2>1, <3>2 DEF Welcome, Level
  <2>2. CASE k \notin DOMAIN buckets
    <3>1. CASE overflow = NoBucket
      <4>1. Enough(Shared)
        BY <3>1, LimiterAssumption DEF Shared, Enough
      <4> QED
        BY <2>2, <4>1 DEF Welcome
    <3>2. CASE overflow # NoBucket
      <4>1. overflow \in Bucket /\ now \in 0..MaxNow
        BY <3>2 DEF LInv, TypeOK
      <4>2. now >= overflow.last + RetryAfter
        BY <2>2, <4>1, RetryAfterBringsAToken, LimiterAssumption DEF Bucket
      <4>3. Enough(Shared)
        BY <3>2, <4>1, <4>2, WaitedFor DEF Shared
      <4> QED
        BY <2>2, <4>3 DEF Welcome
    <3> QED
      BY <3>1, <3>2
  <2> QED
    BY <2>1, <2>2
<1> QED BY <1>1, <1>2, <1>3, LimiterTypeCorrect, PTL DEF LInv, Spec
=============================================================================
