---------------------------- MODULE TokenBuckets ----------------------------
(***************************************************************************)
(* What the rate limiting middleware promises: every key (client address,  *)
(* or authenticated user) has a token bucket of its own for ever, a        *)
(* request is admitted if it finds a token and refused if there is none.   *)
(***************************************************************************)
EXTENDS Naturals

CONSTANTS Keys, Burst, None

VARIABLES
    level,    \* tokens in the bucket of each key
    answer    \* the last answer: whose request, and whether it was admitted

\* The time in which a bucket earns one token passes.
Refill ==
    /\ level' = [k \in Keys |-> IF level[k] < Burst THEN level[k] + 1 ELSE Burst]
    /\ UNCHANGED answer

Admit(k) ==
    /\ level[k] > 0
    /\ level' = [level EXCEPT ![k] = @ - 1]
    /\ answer' = [key |-> k, ok |-> TRUE]

Refuse(k) ==
    /\ level[k] = 0
    /\ answer' = [key |-> k, ok |-> FALSE]
    /\ UNCHANGED level

Init == level = [k \in Keys |-> Burst] /\ answer = None

Next == Refill \/ \E k \in Keys : Admit(k) \/ Refuse(k)

Spec == Init /\ [][Next]_<<level, answer>>
=============================================================================
