-------------------------- MODULE RateLimiterProofs --------------------------
(***************************************************************************)
(* The rate limiter's table is bounded and keeps the per-sender promise of *)
(* Throttle, for any number of senders, any table size and any rates for   *)
(* which a pruned bucket would have been full.                             *)
(***************************************************************************)
EXTENDS RateLimiter, FiniteSetTheorems, TLAPS

\* No bucket lies in the future, nor does the instant the maintenance task read.
ClockAhead ==
    /\ \A k \in Tracked : buckets[k].last <= clock
    /\ pruneNow # None => pruneNow <= clock

IInv == TypeOK /\ ClockAhead /\ TableBounded

-----------------------------------------------------------------------------
\* The table of buckets is finite, so that its size is a number.
LEMMA TrackedFinite == IsFiniteSet(Tracked)
BY KeysAssumption, FS_Subset DEF Tracked

\* Multiplication distributes over addition: what two spans of time refill.
LEMMA Distributes == \A a, b, c \in Nat : (a + b) * c = a * c + b * c
OBVIOUS

\* A longer time refills no less.
LEMMA ProductMonotone == \A a, b, c \in Nat : a <= b => a * c <= b * c
<1> SUFFICES ASSUME NEW a \in Nat, NEW b \in Nat, NEW c \in Nat, a <= b
             PROVE  a * c <= b * c
    OBVIOUS
<1>1. PICK e \in Nat : b = a + e
  <2>1. b - a \in Nat /\ b = a + (b - a)
      OBVIOUS
  <2> QED
      BY <2>1
<1>2. b * c = a * c + e * c
    BY <1>1, Distributes
<1>3. a * c \in Nat /\ e * c \in Nat
    OBVIOUS
<1> QED
    BY <1>2, <1>3

\* The refill of allow_at leaves a number of units between zero and the burst.
LEMMA RefilledType ==
    ASSUME TypeOK, NEW k \in Keys
    PROVE  Refilled(k) \in Nat /\ Refilled(k) <= Burst
<1>1. buckets[k] \in Bucket \/ buckets[k] = None
    BY DEF TypeOK
<1>2. CASE buckets[k] = None
    BY <1>2, UnitsAssumption DEF Refilled
<1>3. CASE buckets[k] # None
  <2>1. buckets[k].tokens \in Nat /\ Since(clock, buckets[k].last) \in Nat
      BY <1>1, <1>3 DEF TypeOK, Bucket, Since
  <2>2. Since(clock, buckets[k].last) * Rate \in Nat
      BY <2>1, UnitsAssumption
  <2> QED
      BY <1>3, <2>1, <2>2, UnitsAssumption DEF Refilled, AtMostBurst
<1> QED
    BY <1>2, <1>3

\* The bucket allow_at writes back is well formed, for it takes a token only
\* where there is one.
LEMMA ChargedType ==
    ASSUME TypeOK, NEW k \in Keys
    PROVE  /\ Charged(k) \in Bucket /\ Charged(k) # None
           /\ Charged(k).last = clock
           /\ Charged(k).tokens =
                IF Refilled(k) >= Cost THEN Refilled(k) - Cost ELSE Refilled(k)
<1>1. Refilled(k) \in Nat /\ clock \in Nat
    BY RefilledType DEF TypeOK
<1>2. (IF Refilled(k) >= Cost THEN Refilled(k) - Cost ELSE Refilled(k)) \in Nat
    BY <1>1, UnitsAssumption
<1>3. Charged(k) \in Bucket
    BY <1>1, <1>2 DEF Charged, Bucket
<1> QED
    BY <1>3, BucketAssumption DEF Charged

\* The number of tracked senders once k has been served.
LEMMA AllowKeepsTableBounded ==
    ASSUME IInv, NEW k \in Keys, NEW victim, Allow(k, victim)
    PROVE  TableBounded'
<1>1. Charged(k) # None
    BY ChargedType DEF IInv
<1>2. Cardinality(Tracked) \in Nat /\ Cardinality(Tracked) <= MaxKeys
    BY TrackedFinite, FS_CardinalityType DEF IInv, TableBounded
<1>3. CASE buckets[k] # None
  <2>1. victim \notin Tracked
      BY <1>3, KeysAssumption DEF Allow, Victims, Full, Tracked
  <2>2. Tracked' = Tracked
      BY <1>1, <1>3, <2>1 DEF Allow, Tracked
  <2> QED
      BY <1>2, <2>2 DEF TableBounded
<1>4. CASE buckets[k] = None /\ Cardinality(Tracked) < MaxKeys
  <2>1. victim = None
      BY <1>2, <1>4, TableAssumption DEF Allow, Victims, Full
  <2>2. Tracked' = Tracked \cup {k}
      BY <1>1, <1>4, <2>1, KeysAssumption DEF Allow, Tracked
  <2>3. Cardinality(Tracked \cup {k}) <= Cardinality(Tracked) + 1
      BY <1>2, TrackedFinite, FS_AddElement
  <2>4. Cardinality(Tracked \cup {k}) \in Nat
      BY TrackedFinite, FS_AddElement, FS_CardinalityType
  <2> QED
      BY <1>2, <1>4, <2>2, <2>3, <2>4, TableAssumption DEF TableBounded
<1>5. CASE buckets[k] = None /\ ~ (Cardinality(Tracked) < MaxKeys)
  <2>1. victim \in Tracked /\ victim # k /\ k \notin Tracked
      BY <1>2, <1>5, TableAssumption
         DEF Allow, Victims, Full, LeastRecentlySeen, Tracked
  <2>2. Tracked' = (Tracked \ {victim}) \cup {k}
      BY <1>1, <2>1 DEF Allow, Tracked
  <2>3. IsFiniteSet(Tracked \ {victim}) /\ Cardinality(Tracked \ {victim}) = Cardinality(Tracked) - 1
      BY <2>1, TrackedFinite, FS_RemoveElement
  <2>4. Cardinality((Tracked \ {victim}) \cup {k}) = Cardinality(Tracked)
    <3>1. k \notin Tracked \ {victim}
        BY <2>1
    <3>2. Cardinality((Tracked \ {victim}) \cup {k}) = Cardinality(Tracked \ {victim}) + 1
        BY <2>3, <3>1, FS_AddElement
    <3> QED
        BY <1>2, <2>3, <3>2
  <2> QED
      BY <1>2, <2>2, <2>4 DEF TableBounded
<1> QED
    BY <1>3, <1>4, <1>5

\* RateLimiter::new establishes the inductive invariant.
LEMMA InitEstablishes == Init => IInv
<1> SUFFICES ASSUME Init PROVE IInv
    OBVIOUS
<1>1. Tracked = {}
    BY DEF Init, Tracked
<1>2. TypeOK
    BY DEF Init, TypeOK
<1> QED
    BY <1>1, <1>2, FS_EmptySet, TableAssumption DEF Init, IInv, ClockAhead, TableBounded

\* allow_at, the maintenance task and the clock preserve the inductive invariant.
LEMMA NextPreserves == IInv /\ [Next]_vars => IInv'
<1> SUFFICES ASSUME IInv, [Next]_vars PROVE IInv'
    OBVIOUS
<1>1. ASSUME NEW k \in Keys, NEW victim \in Keys \cup {None}, Allow(k, victim)
      PROVE  IInv'
  <2>1. /\ Charged(k) \in Bucket /\ Charged(k).last = clock
      BY ChargedType DEF IInv
  <2>2. TypeOK'
    <3>1. buckets' \in [Keys -> Bucket \cup {None}]
        BY <1>1, <2>1 DEF Allow, IInv, TypeOK
    <3>2. granted' \in [Keys -> Nat]
        BY <1>1 DEF Allow, IInv, TypeOK
    <3> QED
        BY <1>1, <3>1, <3>2 DEF Allow, IInv, TypeOK
  <2>3. ClockAhead'
    <3>1. ASSUME NEW j \in Tracked' PROVE buckets'[j].last <= clock'
      <4>1. CASE j = k
          BY <1>1, <2>1, <4>1 DEF Allow, IInv, TypeOK
      <4>2. CASE j # k
        <5>1. buckets'[j] = buckets[j] /\ j \in Tracked
            BY <1>1, <3>1, <4>2 DEF Allow, Tracked
        <5> QED
            BY <1>1, <5>1 DEF Allow, IInv, ClockAhead
      <4> QED
          BY <4>1, <4>2
    <3> QED
        BY <1>1, <3>1 DEF Allow, IInv, ClockAhead
  <2>4. TableBounded'
      BY <1>1, AllowKeepsTableBounded
  <2> QED
      BY <2>2, <2>3, <2>4 DEF IInv
<1>2. CASE ReadPruneClock
    BY <1>2 DEF ReadPruneClock, IInv, TypeOK, ClockAhead, TableBounded, Tracked
<1>3. CASE PruneOlderThan
  <2>1. Tracked' \subseteq Tracked /\ \A k \in Tracked' : buckets'[k] = buckets[k]
      BY <1>3 DEF PruneOlderThan, Tracked
  <2>2. Cardinality(Tracked') <= Cardinality(Tracked) /\ Cardinality(Tracked') \in Nat
        /\ Cardinality(Tracked) \in Nat
      BY <2>1, TrackedFinite, FS_Subset, FS_CardinalityType
  <2>3. TypeOK'
      BY <1>3 DEF PruneOlderThan, IInv, TypeOK
  <2>4. ClockAhead' /\ TableBounded'
      BY <1>3, <2>1, <2>2, TableAssumption DEF PruneOlderThan, IInv, ClockAhead, TableBounded
  <2> QED
      BY <2>3, <2>4 DEF IInv
<1>4. CASE Tick
  <2>1. TypeOK' /\ Tracked' = Tracked /\ clock \in Nat
      BY <1>4 DEF Tick, IInv, TypeOK, Tracked
  <2>2. \A k \in Tracked : buckets[k].last \in Nat
      BY DEF IInv, TypeOK, Tracked, Bucket
  <2>3. pruneNow # None => pruneNow \in Nat
      BY DEF IInv, TypeOK
  <2> QED
      BY <1>4, <2>1, <2>2, <2>3 DEF Tick, IInv, ClockAhead, TableBounded
<1>5. CASE UNCHANGED vars
    BY <1>5 DEF vars, IInv, TypeOK, ClockAhead, TableBounded, Tracked
<1> QED
    BY <1>1, <1>2, <1>3, <1>4, <1>5 DEF Next

\* The inductive invariant holds of every reachable limiter.
LEMMA InductiveInvariant == Spec => []IInv
BY InitEstablishes, NextPreserves, PTL DEF Spec

\* The limiter's state always has the type of its Rust fields.
THEOREM TypeCorrect == Spec => []TypeOK
<1>1. IInv => TypeOK
    BY DEF IInv
<1> QED
    BY <1>1, InductiveInvariant, PTL

\* The table never holds more than max_tracked_keys senders.
THEOREM TableStaysBounded == Spec => []TableBounded
<1>1. IInv => TableBounded
    BY DEF IInv
<1> QED
    BY <1>1, InductiveInvariant, PTL

-----------------------------------------------------------------------------
(* Refinement                                                              *)

\* What one tick adds to a sender's level.
LEMMA TickRefills ==
    ASSUME IInv, Tick, NEW k \in Keys
    PROVE  Refilled(k)' = AtMostBurst(Refilled(k) + Rate)
<1>1. CASE buckets[k] = None
    BY <1>1, UnitsAssumption DEF Tick, Refilled, AtMostBurst
<1>2. CASE buckets[k] # None
  <2> DEFINE b == buckets[k]
             n == clock - b.last
  <2>1. b \in Bucket /\ b.last <= clock /\ clock \in Nat
      BY <1>2 DEF IInv, TypeOK, ClockAhead, Tracked
  <2>2. b.tokens \in Nat /\ b.last \in Nat /\ n \in Nat
      BY <2>1 DEF Bucket
  <2>3. Since(clock, b.last) = n /\ Since(clock', b.last) = n + 1
      BY <2>1, <2>2 DEF Since, Tick
  <2>4. (n + 1) * Rate = n * Rate + Rate /\ n * Rate \in Nat
      BY <2>2, UnitsAssumption, Distributes
  <2>5. /\ Refilled(k) = AtMostBurst(b.tokens + n * Rate)
        /\ Refilled(k)' = AtMostBurst(b.tokens + (n * Rate + Rate))
      BY <1>2, <2>3, <2>4 DEF Refilled, Tick, AtMostBurst
  <2> HIDE DEF b, n
  <2> QED
      BY <2>2, <2>4, <2>5, UnitsAssumption DEF AtMostBurst
<1> QED
    BY <1>1, <1>2

\* A bucket that is pruned was full.
LEMMA PruneIsInvisible ==
    ASSUME IInv, PruneOlderThan, NEW k \in Keys
    PROVE  Refilled(k)' = Refilled(k)
<1>1. CASE ~ Stale(k)
    BY <1>1 DEF PruneOlderThan, Refilled
<1>2. CASE Stale(k)
  <2> DEFINE b == buckets[k]
             n == clock - b.last
  <2>1. b # None /\ b \in Bucket /\ b.last <= clock /\ clock \in Nat
      BY <1>2 DEF Stale, IInv, TypeOK, ClockAhead, Tracked
  <2>2. b.tokens \in Nat /\ b.last \in Nat /\ n \in Nat
      BY <2>1 DEF Bucket
  <2>3. pruneNow \in Nat /\ pruneNow <= clock
      BY DEF PruneOlderThan, IInv, TypeOK, ClockAhead
  <2>4. Since(clock, b.last) = n
      BY <2>1, <2>2 DEF Since
  <2>5. PruneAge <= n
      BY <1>2, <2>2, <2>3, <2>1, PruneAssumption DEF Stale, Since
  <2>6. Burst <= n * Rate /\ n * Rate \in Nat
    <3>1. PruneAge * Rate <= n * Rate /\ n * Rate \in Nat /\ PruneAge * Rate \in Nat
        BY <2>2, <2>5, ProductMonotone, PruneAssumption, UnitsAssumption
    <3> QED
        BY <3>1, PruneAssumption, UnitsAssumption
  <2>7. Refilled(k) = Burst
      BY <2>1, <2>2, <2>4, <2>6, UnitsAssumption DEF Refilled, AtMostBurst
  <2>8. Refilled(k)' = Burst
      BY <1>2 DEF PruneOlderThan, Refilled
  <2> QED
      BY <2>7, <2>8
<1> QED
    BY <1>1, <1>2

\* Serving a sender charges it, restores the evicted one to a full level and
\* leaves the others alone.
LEMMA AllowCharges ==
    ASSUME IInv, NEW k \in Keys, NEW victim, Allow(k, victim), NEW j \in Keys
    PROVE  Refilled(j)' =
             IF j = k THEN IF Refilled(k) >= Cost THEN Refilled(k) - Cost ELSE Refilled(k)
             ELSE IF j = victim THEN Burst ELSE Refilled(j)
<1>1. CASE j = k
  <2>1. /\ buckets'[k] = Charged(k) /\ Charged(k) # None /\ Charged(k).last = clock
        /\ Charged(k).tokens =
             IF Refilled(k) >= Cost THEN Refilled(k) - Cost ELSE Refilled(k)
        /\ clock' = clock /\ clock \in Nat
      BY ChargedType DEF Allow, IInv, TypeOK
  <2>2. Refilled(k) \in Nat /\ Refilled(k) <= Burst
      BY RefilledType DEF IInv
  <2>3. Charged(k).tokens \in Nat /\ Charged(k).tokens <= Burst
      BY <2>1, <2>2, UnitsAssumption
  <2>4. Since(clock, Charged(k).last) * Rate = 0
      BY <2>1, UnitsAssumption DEF Since
  <2>5. Refilled(k)' = AtMostBurst(Charged(k).tokens + Since(clock, Charged(k).last) * Rate)
      BY <2>1 DEF Refilled, AtMostBurst, Since
  <2> QED
      BY <1>1, <2>1, <2>3, <2>4, <2>5, UnitsAssumption DEF AtMostBurst
<1>2. CASE j # k /\ j = victim
    BY <1>2 DEF Allow, Refilled
<1>3. CASE j # k /\ j # victim
    BY <1>3 DEF Allow, Refilled
<1> QED
    BY <1>1, <1>2, <1>3

\* A sender is never evicted to make room for itself.
LEMMA VictimIsAnother ==
    ASSUME NEW k \in Keys, NEW victim, Allow(k, victim)
    PROVE  k # victim
BY KeysAssumption DEF Allow, Victims, Full, LeastRecentlySeen, Tracked

\* Without more senders than the table holds, nobody is evicted.
LEMMA NoEviction ==
    ASSUME IInv, NEW k \in Keys, NEW victim, Allow(k, victim),
           ~ (Cardinality(Keys) > MaxKeys)
    PROVE  victim = None
<1>1. CASE buckets[k] # None
    BY <1>1 DEF Allow, Victims, Full
<1>2. CASE buckets[k] = None
  <2>1. Tracked \subseteq Keys /\ k \notin Tracked
      BY <1>2 DEF Tracked
  <2>2. /\ Cardinality(Tracked) <= Cardinality(Keys)
        /\ Cardinality(Keys) # Cardinality(Tracked)
        /\ Cardinality(Tracked) \in Nat /\ Cardinality(Keys) \in Nat
      BY <2>1, KeysAssumption, FS_Subset, FS_CardinalityType
  <2>3. ~ Full(k)
      BY <2>2, TableAssumption DEF Full
  <2> QED
      BY <2>3 DEF Allow, Victims
<1> QED
    BY <1>1, <1>2

\* Every step of the limiter is a step of Throttle, or none at all.
LEMMA StepRefines == IInv /\ [Next]_vars => [Promise!Next]_Promise!vars
<1> SUFFICES ASSUME IInv, [Next]_vars PROVE [Promise!Next]_Promise!vars
    OBVIOUS
<1> DEFINE level == [k \in Keys |-> Refilled(k)]
<1>1. ASSUME NEW k \in Keys, NEW victim \in Keys \cup {None}, Allow(k, victim)
      PROVE  Promise!Next
  <2> DEFINE forgotten == {victim} \cap Keys
  <2>1. forgotten = {} \/ (/\ Cardinality(Keys) > MaxKeys
                           /\ \E j \in Keys \ {k} : forgotten = {j})
      BY <1>1, NoEviction, VictimIsAnother, KeysAssumption
  <2>2. level' = [j \in Keys |->
                    IF j = k THEN IF level[k] >= Cost THEN level[k] - Cost ELSE level[k]
                    ELSE IF j \in forgotten THEN Burst ELSE level[j]]
      BY <1>1, AllowCharges
  <2>3. granted' = [granted EXCEPT ![k] = IF level[k] >= Cost THEN @ + 1 ELSE @]
      BY <1>1 DEF Allow
  <2>4. Promise!Serve(k, forgotten)
      BY <1>1, <2>1, <2>2, <2>3 DEF Promise!Serve, Allow
  <2>5. forgotten \in SUBSET Keys
      OBVIOUS
  <2> QED
      BY <2>4, <2>5 DEF Promise!Next
<1>2. CASE ReadPruneClock
    BY <1>2 DEF ReadPruneClock, Promise!vars, Refilled
<1>3. CASE PruneOlderThan
  <2>1. level' = level
      BY <1>3, PruneIsInvisible
  <2> QED
      BY <1>3, <2>1 DEF PruneOlderThan, Promise!vars
<1>4. CASE Tick
  <2>1. level' = [k \in Keys |-> AtMostBurst(level[k] + Rate)]
      BY <1>4, TickRefills
  <2>2. Promise!Tick
      BY <1>4, <2>1 DEF Tick, Promise!Tick, Promise!Capped, AtMostBurst
  <2> QED
      BY <2>2 DEF Promise!Next
<1>5. CASE UNCHANGED vars
    BY <1>5 DEF vars, Promise!vars, Refilled
<1> QED
    BY <1>1, <1>2, <1>3, <1>4, <1>5 DEF Next

\* The limiter implements the per-sender promise: pruning is invisible, and a
\* table as large as the set of senders forgets nothing.
THEOREM Refinement == Spec => KeepsPromise
<1>1. Init => Promise!Init
    BY DEF Init, Promise!Init, Refilled
<1> QED
    BY <1>1, StepRefines, InductiveInvariant, PTL DEF Spec, KeepsPromise, Promise!Spec

-----------------------------------------------------------------------------
(* The rate                                                                *)

\* What a sender has had and what it has left never exceed its burst and the
\* refill so far.
Budget ==
    \A k \in Keys :
        granted[k] * Cost + Refilled(k) <= Burst + evicted[k] * Burst + clock * Rate

\* Level and grants of a sender stay within its budget in every step.
LEMMA BudgetKept == IInv /\ Budget /\ [Next]_vars => Budget'
<1> SUFFICES ASSUME IInv, Budget, [Next]_vars, NEW j \in Keys
             PROVE  granted'[j] * Cost + Refilled(j)'
                      <= Burst + evicted'[j] * Burst + clock' * Rate
    BY DEF Budget
<1>1. granted[j] * Cost + Refilled(j) <= Burst + evicted[j] * Burst + clock * Rate
    BY DEF Budget
<1>2. /\ granted[j] \in Nat /\ clock \in Nat /\ granted \in [Keys -> Nat]
      /\ evicted[j] \in Nat
      /\ Refilled(j) \in Nat /\ Refilled(j) <= Burst
    BY RefilledType DEF IInv, TypeOK
<1>3. granted[j] * Cost \in Nat /\ evicted[j] * Burst \in Nat /\ clock * Rate \in Nat
    BY <1>2, UnitsAssumption
<1>4. ASSUME NEW k \in Keys, NEW victim \in Keys \cup {None}, Allow(k, victim)
      PROVE  granted'[j] * Cost + Refilled(j)'
               <= Burst + evicted'[j] * Burst + clock' * Rate
  <2>1. clock' = clock /\ k # victim
      BY <1>4, VictimIsAnother DEF Allow
  <2>2. CASE j = victim
    <3>1. granted'[j] = granted[j] /\ Refilled(j)' = Burst /\ evicted'[j] = evicted[j] + 1
        BY <1>2, <1>4, <2>1, <2>2, AllowCharges DEF Allow
    <3>2. (evicted[j] + 1) * Burst = evicted[j] * Burst + Burst
        BY <1>2, UnitsAssumption, Distributes
    <3> QED
        BY <1>1, <1>2, <1>3, <2>1, <3>1, <3>2, UnitsAssumption
  <2>3. CASE j = k /\ Refilled(k) >= Cost
    <3>1. /\ granted'[j] = granted[j] + 1 /\ Refilled(j)' = Refilled(j) - Cost
          /\ evicted'[j] = evicted[j]
        BY <1>2, <1>4, <2>1, <2>3, AllowCharges DEF Allow
    <3>2. (granted[j] + 1) * Cost = granted[j] * Cost + Cost
        BY <1>2, UnitsAssumption, Distributes
    <3> QED
        BY <1>1, <1>2, <1>3, <2>1, <2>3, <3>1, <3>2, UnitsAssumption
  <2>4. CASE j # victim /\ ~ (j = k /\ Refilled(k) >= Cost)
    <3>1. granted'[j] = granted[j] /\ Refilled(j)' = Refilled(j) /\ evicted'[j] = evicted[j]
        BY <1>2, <1>4, <2>4, AllowCharges DEF Allow
    <3> QED
        BY <1>1, <2>1, <3>1
  <2> QED
      BY <2>2, <2>3, <2>4
<1>5. CASE ReadPruneClock
    BY <1>1, <1>5 DEF ReadPruneClock, Refilled
<1>6. CASE PruneOlderThan
    BY <1>1, <1>6, PruneIsInvisible DEF PruneOlderThan
<1>7. CASE Tick
  <2>1. Refilled(j)' <= Refilled(j) + Rate
      BY <1>2, <1>7, TickRefills, UnitsAssumption DEF AtMostBurst
  <2>2. (clock + 1) * Rate = clock * Rate + Rate
      BY <1>2, UnitsAssumption, Distributes
  <2>3. Refilled(j)' \in Nat
      BY <1>2, <1>7, TickRefills, UnitsAssumption DEF AtMostBurst
  <2> QED
      BY <1>1, <1>2, <1>3, <1>7, <2>1, <2>2, <2>3, UnitsAssumption DEF Tick
<1>8. CASE UNCHANGED vars
    BY <1>1, <1>8 DEF vars, Refilled
<1> QED
    BY <1>4, <1>5, <1>6, <1>7, <1>8 DEF Next

\* No sender gets more than its burst, one more for every time it was evicted,
\* and the refill of the elapsed time.
THEOREM RateHolds == Spec => []WithinRate
<1>1. Init => Budget
  <2> SUFFICES ASSUME Init, NEW k \in Keys
               PROVE  granted[k] * Cost + Refilled(k)
                        <= Burst + evicted[k] * Burst + clock * Rate
      BY DEF Budget
  <2>1. /\ granted[k] * Cost = 0 /\ evicted[k] * Burst = 0 /\ clock * Rate = 0
        /\ Refilled(k) = Burst
      BY UnitsAssumption DEF Init, Refilled
  <2> QED
      BY <2>1, UnitsAssumption
<1>2. IInv /\ Budget => WithinRate
  <2> SUFFICES ASSUME IInv, NEW k \in Keys,
                      granted[k] * Cost + Refilled(k)
                        <= Burst + evicted[k] * Burst + clock * Rate
               PROVE  granted[k] * Cost <= Burst + evicted[k] * Burst + clock * Rate
      BY DEF Budget, WithinRate
  <2>1. Refilled(k) \in Nat /\ granted[k] \in Nat /\ evicted[k] \in Nat /\ clock \in Nat
      BY RefilledType DEF IInv, TypeOK
  <2>2. granted[k] * Cost \in Nat /\ evicted[k] * Burst \in Nat /\ clock * Rate \in Nat
      BY <2>1, UnitsAssumption
  <2> QED
      BY <2>1, <2>2, UnitsAssumption
<1> QED
    BY <1>1, <1>2, BudgetKept, InductiveInvariant, PTL DEF Spec

-----------------------------------------------------------------------------
\* A bucket is dropped by prune_older_than when it was quiet for PruneAge, even
\* by the older instant it goes by, and by allow_at only when the table is full
\* of senders heard from no earlier.
THEOREM OnlyQuietForgotten == Spec => ForgetsOnlyQuietSenders
<1> DEFINE Excused(k) ==
        buckets'[k] = None =>
            \/ Since(clock, buckets[k].last) >= PruneAge
            \/ /\ Cardinality(Tracked) >= MaxKeys
               /\ \E j \in Keys \ Tracked : buckets'[j] # None
               /\ \A j \in Tracked : buckets[k].last <= buckets[j].last
<1>1. IInv /\ Next => \A k \in Tracked : Excused(k)
  <2> SUFFICES ASSUME IInv, Next, NEW k \in Tracked, buckets'[k] = None
               PROVE  Excused(k)
      OBVIOUS
  <2>1. k \in Keys /\ buckets[k] # None /\ buckets[k].last \in Nat /\ clock \in Nat
      BY DEF Tracked, IInv, TypeOK, Bucket
  <2>2. ASSUME NEW j \in Keys, NEW victim \in Keys \cup {None}, Allow(j, victim)
        PROVE  Excused(k)
    <3>1. Charged(j) # None
        BY ChargedType, BucketAssumption DEF IInv
    <3>2. buckets'[j] = Charged(j) /\ (k # j => k = victim)
        BY <2>1, <2>2, <3>1 DEF Allow
    <3>3. k = victim
        BY <3>1, <3>2
    <3>4. Full(j) /\ k \in LeastRecentlySeen
        BY <2>1, <2>2, <3>3, KeysAssumption DEF Allow, Victims
    <3>5. j \in Keys \ Tracked /\ Cardinality(Tracked) >= MaxKeys
        BY <3>4 DEF Full, Tracked
    <3> QED
        BY <3>1, <3>2, <3>4, <3>5 DEF LeastRecentlySeen
  <2>3. CASE PruneOlderThan
    <3>1. Stale(k)
        BY <2>1, <2>3 DEF PruneOlderThan
    <3>2. pruneNow \in Nat /\ pruneNow <= clock
        BY <2>3 DEF PruneOlderThan, IInv, TypeOK, ClockAhead
    <3> QED
        BY <2>1, <3>1, <3>2, PruneAssumption DEF Stale, Since
  <2>4. CASE ReadPruneClock \/ Tick
      BY <2>1, <2>4 DEF ReadPruneClock, Tick
  <2> QED
      BY <2>2, <2>3, <2>4 DEF Next
<1>2. IInv /\ [Next]_vars => [\A k \in Tracked : Excused(k)]_vars
    BY <1>1
<1> QED
    BY <1>2, InductiveInvariant, PTL DEF Spec, ForgetsOnlyQuietSenders
=============================================================================
