---------------------------- MODULE RateLimiter ----------------------------
(***************************************************************************)
(* RateLimiter<K> (crates/binda-core/src/rate_limit.rs): one token bucket  *)
(* per sender address in a table of bounded size, shared by a listener and *)
(* by the node's maintenance task (crates/binda/src/node.rs).              *)
(*                                                                         *)
(* Tokens are counted in integer units, so that what a tick of the clock   *)
(* adds (Rate) and what a request costs (Cost) are both whole.  The code   *)
(* counts them in an f64, whose rounding is left out: an elapsed time in   *)
(* seconds, and what is refilled in it, are in general not exact there.    *)
(* Instants only move forward.                                             *)
(***************************************************************************)
EXTENDS Naturals, FiniteSets

CONSTANTS
    Keys,       \* sender addresses
    None,       \* an absent value
    Burst,      \* capacity, in units
    Rate,       \* refill per tick, in units
    Cost,       \* one token, in units
    MaxKeys,    \* max_tracked_keys
    PruneAge,   \* RATE_LIMIT_PRUNE_AGE
    MaxTime,    \* bound: the last clock reading considered
    MaxGranted  \* bound: requests let through for one sender

ASSUME KeysAssumption == IsFiniteSet(Keys) /\ None \notin Keys
ASSUME UnitsAssumption == Burst \in Nat /\ Rate \in Nat /\ Cost \in Nat
ASSUME TableAssumption == MaxKeys \in Nat \ {0} /\ MaxTime \in Nat /\ MaxGranted \in Nat

\* A sender that is pruned would have refilled: 300 s at 10 per second is more
\* than the burst of 20.
ASSUME PruneAssumption == PruneAge \in Nat /\ PruneAge * Rate >= Burst

Bucket == [tokens : Nat, last : Nat]

ASSUME BucketAssumption == None \notin Bucket /\ None \notin Nat

VARIABLES
    clock,      \* Instant::now
    buckets,    \* buckets
    pruneNow,   \* the instant the maintenance task read, while it waits for the lock
    granted,    \* requests let through so far, and
    evicted     \* how often a sender was evicted, both for the properties

vars == <<clock, buckets, pruneNow, granted, evicted>>

TypeOK ==
    /\ clock \in Nat
    /\ buckets \in [Keys -> Bucket \cup {None}]
    /\ pruneNow \in Nat \cup {None}
    /\ granted \in [Keys -> Nat]
    /\ evicted \in [Keys -> Nat]

\* RateLimiter::new
Init ==
    /\ clock = 0
    /\ buckets = [k \in Keys |-> None]
    /\ pruneNow = None
    /\ granted = [k \in Keys |-> 0]
    /\ evicted = [k \in Keys |-> 0]

\* saturating_duration_since
Since(later, earlier) == IF later > earlier THEN later - earlier ELSE 0

AtMostBurst(x) == IF x > Burst THEN Burst ELSE x

\* What a bucket holds once refilled: a new key starts with a full one.
Refilled(k) ==
    IF buckets[k] = None THEN Burst
    ELSE AtMostBurst(buckets[k].tokens + Since(clock, buckets[k].last) * Rate)

Tracked == {k \in Keys : buckets[k] # None}

\* The keys min_by_key may return: ties are broken by the HashMap's order.
LeastRecentlySeen ==
    {k \in Tracked : \A j \in Tracked : buckets[k].last <= buckets[j].last}

\* Mutants: room is made one key too late; and any key may be evicted.
MutantFull(k) == buckets[k] = None /\ Cardinality(Tracked) > MaxKeys
MutantVictims(k) ==
    IF buckets[k] = None /\ Cardinality(Tracked) >= MaxKeys THEN Tracked ELSE {None}

\* Whether allow_at has to make room for k, and whom it evicts then.
Full(k) == buckets[k] = None /\ Cardinality(Tracked) >= MaxKeys
Victims(k) == IF Full(k) THEN LeastRecentlySeen ELSE {None}

\* Mutants: a token is taken whether there is one or not; and
\* a refused request keeps the tokens it regained and the instant it
\* regained them since.
MutantOvercharged(k) == [tokens |-> Refilled(k) - Cost, last |-> clock]
MutantCharged(k) ==
    IF Refilled(k) >= Cost THEN [tokens |-> Refilled(k) - Cost, last |-> clock]
    ELSE [tokens |-> Refilled(k),
          last |-> IF buckets[k] = None THEN clock ELSE buckets[k].last]

\* The bucket of k after its request.
Charged(k) ==
    [tokens |-> IF Refilled(k) >= Cost THEN Refilled(k) - Cost ELSE Refilled(k),
     last |-> clock]

\* allow: evict if needed, refill, and take a token if there is one.
Allow(k, victim) ==
    /\ granted[k] < MaxGranted
    /\ victim \in Victims(k)
    /\ buckets' = [j \in Keys |-> IF j = k THEN Charged(k)
                                  ELSE IF j = victim THEN None ELSE buckets[j]]
    /\ granted' = [granted EXCEPT ![k] = IF Refilled(k) >= Cost THEN @ + 1 ELSE @]
    /\ evicted' = [j \in Keys |-> IF j = victim THEN evicted[j] + 1 ELSE evicted[j]]
    /\ UNCHANGED <<clock, pruneNow>>

\* The maintenance task reads the clock once, before it waits for the locks of
\* the limiters one after the other.
ReadPruneClock ==
    /\ pruneNow = None
    /\ pruneNow' = clock
    /\ UNCHANGED <<clock, buckets, granted, evicted>>

\* Mutant: every bucket that was not touched at this very instant is dropped.
MutantStale(k) == buckets[k] # None /\ Since(pruneNow, buckets[k].last) > 0

\* A bucket that prune_older_than drops.
Stale(k) == buckets[k] # None /\ Since(pruneNow, buckets[k].last) >= PruneAge

\* prune_older_than, with an instant that may lie before the latest requests.
PruneOlderThan ==
    /\ pruneNow # None
    /\ buckets' = [k \in Keys |-> IF Stale(k) THEN None ELSE buckets[k]]
    /\ pruneNow' = None
    /\ UNCHANGED <<clock, granted, evicted>>

Tick ==
    /\ clock < MaxTime
    /\ clock' = clock + 1
    /\ UNCHANGED <<buckets, pruneNow, granted, evicted>>

Next ==
    \/ \E k \in Keys, victim \in Keys \cup {None} : Allow(k, victim)
    \/ ReadPruneClock
    \/ PruneOlderThan
    \/ Tick

Spec == Init /\ [][Next]_vars

-----------------------------------------------------------------------------
(* Properties                                                              *)

\* However many addresses send, the table never grows past max_tracked_keys.
TableBounded == Cardinality(Tracked) <= MaxKeys

\* A sender's bucket is dropped only when it has been quiet for PruneAge, or to
\* make room while every other tracked sender has been heard from no earlier:
\* serving a busy sender again never costs another one its history.
ForgetsOnlyQuietSenders ==
    [][\A k \in Tracked :
         buckets'[k] = None =>
             \/ Since(clock, buckets[k].last) >= PruneAge
             \/ /\ Cardinality(Tracked) >= MaxKeys
                /\ \E j \in Keys \ Tracked : buckets'[j] # None
                /\ \A j \in Tracked : buckets[k].last <= buckets[j].last]_vars

\* A sender gets its burst and the refill of the time that has passed, and not
\* one request more, whatever the maintenance task prunes: only being evicted
\* from a full table gives it another burst.
WithinRate ==
    \A k \in Keys : granted[k] * Cost <= Burst + evicted[k] * Burst + clock * Rate

\* The table of buckets implements the per-sender promise: the buckets it does
\* not keep are the full ones, unless it was too small.
Promise == INSTANCE Throttle WITH
    level <- [k \in Keys |-> Refilled(k)],
    Forgets <- Cardinality(Keys) > MaxKeys
KeepsPromise == Promise!Spec
=============================================================================
