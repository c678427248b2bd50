------------------------------ MODULE Throttle ------------------------------
(***************************************************************************)
(* What the rate limiter promises each sender: a level that starts full,   *)
(* regains Rate every tick up to Burst, and pays Cost for every request    *)
(* let through.  There is no table of senders here and nothing is ever     *)
(* dropped from one; Forgets says whether serving one sender may restore   *)
(* another to a full level, the price of a table that is too small.        *)
(***************************************************************************)
EXTENDS Naturals

CONSTANTS Keys, Burst, Rate, Cost, Forgets

VARIABLES clock, level, granted

Capped(x) == IF x > Burst THEN Burst ELSE x

Init ==
    /\ clock = 0
    /\ level = [k \in Keys |-> Burst]
    /\ granted = [k \in Keys |-> 0]

Tick ==
    /\ clock' = clock + 1
    /\ level' = [k \in Keys |-> Capped(level[k] + Rate)]
    /\ UNCHANGED granted

\* A request of k, served if its level allows.
Serve(k, forgotten) ==
    /\ forgotten = {} \/ (Forgets /\ \E j \in Keys \ {k} : forgotten = {j})
    /\ level' = [j \in Keys |->
                   IF j = k THEN IF level[k] >= Cost THEN level[k] - Cost ELSE level[k]
                   ELSE IF j \in forgotten THEN Burst ELSE level[j]]
    /\ granted' = [granted EXCEPT ![k] = IF level[k] >= Cost THEN @ + 1 ELSE @]
    /\ UNCHANGED clock

Next == Tick \/ \E k \in Keys, forgotten \in SUBSET Keys : Serve(k, forgotten)

vars == <<clock, level, granted>>
Spec == Init /\ [][Next]_vars
=============================================================================
