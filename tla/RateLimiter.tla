----------------------------- MODULE RateLimiter -----------------------------
(***************************************************************************)
(* keyedLimiter, the map of token buckets behind the RateLimit and         *)
(* UserRateLimit middlewares, with its cleanup goroutine.                  *)
(*                                                                         *)
(* A request looks its bucket up under the mutex (Get) and asks it for a   *)
(* token afterwards, holding nothing but the pointer (Allow).              *)
(*                                                                         *)
(* The code bounds the time between the two by nothing.  The model bounds  *)
(* it by MaxDelay, and RefillAssumption makes that shorter than entryTTL:  *)
(* a bucket that a request holds is never evicted (InFlightIsFresh).       *)
(*                                                                         *)
(* Time: a tick is the time in which a bucket earns one token (1/r s, so   *)
(* 10, 100 or 200 ms in NewRouter); ages stop counting when they exceed    *)
(* EntryTTL.  rate.Limiter is external: it starts full, earns a token per  *)
(* tick up to Burst, and Allow takes one if there is one.                  *)
(* A request without claims passes UserRateLimit and touches nothing here. *)
(***************************************************************************)
EXTENDS Naturals

CONSTANTS
    Requests,      \* goroutines that serve requests
    Keys,          \* client addresses, or user ids
    Limiters,      \* *rate.Limiter: addresses of buckets
    None,
    Burst,         \* b
    EntryTTL,      \* entryTTL
    MaxDelay,      \* longest time a goroutine takes from get to Allow
    MaxWindow      \* longest stretch of time RateHolds looks at

ASSUME NoneAssumption == None \notin Limiters /\ None \notin Keys
ASSUME NumbersAssumption ==
    Burst \in Nat \ {0} /\ EntryTTL \in Nat /\ MaxDelay \in Nat /\ MaxWindow \in Nat

\* A bucket is full again, and every request that holds it is done, when its entry
\* expires.  5 or 20 tokens are earned in 0.2 to 1 s; entryTTL is 10 min.
ASSUME RefillAssumption == Burst + MaxDelay <= EntryTTL + 1

VARIABLES
    limiters,   \* the map: bucket of each key, None when there is no entry
    tokens,     \* in each bucket
    age,        \* time since the lastSeen of each key's entry
    key,        \* key each request asks for, None when there is no request
    held,       \* bucket get has returned to it
    delay,      \* time since then
    answer,     \* the last answer: whose request, and whether it was admitted
    watch       \* history: a key, a stretch of time, its requests admitted in it

map == <<limiters, age>>
requests == <<key, held, delay>>
vars == <<limiters, tokens, age, key, held, delay, answer, watch>>

TypeOK ==
    /\ limiters \in [Keys -> Limiters \cup {None}]
    /\ tokens \in [Limiters -> 0 .. Burst]
    /\ age \in [Keys -> 0 .. EntryTTL + 1]
    /\ key \in [Requests -> Keys \cup {None}]
    /\ held \in [Requests -> Limiters \cup {None}]
    /\ delay \in [Requests -> 0 .. MaxDelay]
    /\ answer \in [key : Keys, ok : BOOLEAN] \cup {None}
    /\ watch \in [key : Keys, ticks : 0 .. MaxWindow, admitted : Nat]
    /\ \A q \in Requests : key[q] = None <=> held[q] = None

-----------------------------------------------------------------------------
\* No entry and no request holds the bucket: the memory NewLimiter may return.
Free == {i \in Limiters : /\ \A k \in Keys : limiters[k] # i
                          /\ \A q \in Requests : held[q] # i}

\* Faulty variant: lastSeen is set when the entry is made, not at each request.
TouchOnce(k) == IF limiters[k] = None THEN age' = [age EXCEPT ![k] = 0] ELSE UNCHANGED age

Touch(k) == age' = [age EXCEPT ![k] = 0]

\* keyedLimiter.get
Get(q, k) ==
    /\ key[q] = None
    /\ \/ /\ limiters[k] # None
          /\ held' = [held EXCEPT ![q] = limiters[k]]
          /\ UNCHANGED <<limiters, tokens>>
       \/ /\ limiters[k] = None
          /\ \E i \in Free :
                /\ limiters' = [limiters EXCEPT ![k] = i]
                /\ tokens' = [tokens EXCEPT ![i] = Burst]
                /\ held' = [held EXCEPT ![q] = i]
    /\ Touch(k)
    /\ key' = [key EXCEPT ![q] = k]
    /\ delay' = [delay EXCEPT ![q] = 0]
    /\ UNCHANGED <<answer, watch>>

\* Allow on the bucket the request holds: c.Next, or 429.
Allow(q) ==
    /\ key[q] # None
    /\ LET ok == tokens[held[q]] > 0
       IN  /\ tokens' = IF ok THEN [tokens EXCEPT ![held[q]] = @ - 1] ELSE tokens
           /\ answer' = [key |-> key[q], ok |-> ok]
           /\ watch' = IF ok /\ watch.key = key[q]
                       THEN [watch EXCEPT !.admitted = @ + 1] ELSE watch
    /\ key' = [key EXCEPT ![q] = None]
    /\ held' = [held EXCEPT ![q] = None]
    /\ delay' = [delay EXCEPT ![q] = 0]
    /\ UNCHANGED map

\* Faulty variants: After in place of Before; the cutoff is the interval of the
\* cleanup loop.
StaleAfter(k) == limiters[k] # None /\ age[k] < EntryTTL
StaleTooSoon(k) == limiters[k] # None /\ age[k] > 1

\* entry.lastSeen.Before(cutoff)
Stale(k) == limiters[k] # None /\ age[k] > EntryTTL

\* One round of cleanupLoop, which holds the mutex throughout.
Cleanup ==
    /\ \E k \in Keys : Stale(k)
    /\ limiters' = [k \in Keys |-> IF Stale(k) THEN None ELSE limiters[k]]
    /\ age' = [k \in Keys |-> IF Stale(k) THEN 0 ELSE age[k]]
    /\ UNCHANGED <<tokens, requests, answer, watch>>

Earn(n) == IF n < Burst THEN n + 1 ELSE Burst

\* Time passes; no request is further than MaxDelay behind its get.
Tick ==
    /\ \A q \in Requests : key[q] # None => delay[q] < MaxDelay
    /\ tokens' = [i \in Limiters |-> Earn(tokens[i])]
    /\ age' = [k \in Keys |->
                  IF limiters[k] # None /\ age[k] <= EntryTTL THEN age[k] + 1 ELSE age[k]]
    /\ delay' = [q \in Requests |-> IF key[q] # None THEN delay[q] + 1 ELSE 0]
    /\ watch' = IF watch.ticks < MaxWindow
                THEN [watch EXCEPT !.ticks = @ + 1]
                ELSE [watch EXCEPT !.ticks = 0, !.admitted = 0]
    /\ UNCHANGED <<limiters, key, held, answer>>

\* The requests of k are counted from now on.
Watch(k) ==
    /\ watch' = [key |-> k, ticks |-> 0, admitted |-> 0]
    /\ UNCHANGED <<map, tokens, requests, answer>>

-----------------------------------------------------------------------------
Init ==
    /\ limiters = [k \in Keys |-> None]
    /\ tokens = [i \in Limiters |-> Burst]
    /\ age = [k \in Keys |-> 0]
    /\ key = [q \in Requests |-> None]
    /\ held = [q \in Requests |-> None]
    /\ delay = [q \in Requests |-> 0]
    /\ answer = None
    /\ watch \in [key : Keys, ticks : {0}, admitted : {0}]

Next ==
    \/ \E q \in Requests : Allow(q) \/ \E k \in Keys : Get(q, k)
    \/ Cleanup
    \/ Tick
    \/ \E k \in Keys : Watch(k)

Spec == Init /\ [][Next]_vars

\* Time passes, the ticker of cleanupLoop fires, and a request runs on.
FairSpec == Spec /\ WF_vars(Tick) /\ WF_vars(Cleanup) /\ \A q \in Requests : WF_vars(Allow(q))

-----------------------------------------------------------------------------
(* Properties *)

\* "r requests per second with burst b per IP": in any stretch of time a key is
\* admitted Burst times and once for each tick, also if its entry is evicted in that
\* time and made again with a full bucket.
RateHolds == watch.admitted <= Burst + watch.ticks

\* The eviction of an idle entry is not noticed by anybody: what a key is admitted
\* and refused is what a bucket of its own that is never thrown away would admit and
\* refuse, down to an entry that expires at the tick its bucket is full again.
Level == [k \in Keys |-> IF limiters[k] = None THEN Burst ELSE tokens[limiters[k]]]

Buckets == INSTANCE TokenBuckets WITH level <- Level

BucketSpec == Buckets!Spec

\* The map does not keep what nobody asks for: an entry is evicted unless another
\* request for its key arrives.
IdleIsEvicted ==
    \A k \in Keys : limiters[k] # None ~>
        limiters[k] = None \/ \E q \in Requests : key[q] = k

-----------------------------------------------------------------------------
(* Inductive invariant *)

\* A bucket is one key's, and a request still holds its key's own bucket.
OwnBuckets ==
    /\ \A k, l \in Keys : limiters[k] = limiters[l] /\ limiters[k] # None => k = l
    /\ \A q \in Requests : key[q] # None => held[q] = limiters[key[q]]

\* A request in flight has been seen, so its entry cannot be stale.
InFlightIsFresh ==
    \A q \in Requests : key[q] # None => age[key[q]] <= delay[q]

\* What a bucket lacks it has lost since it was last seen, or MaxDelay later.
Refilled ==
    \A k \in Keys : limiters[k] # None => age[k] <= tokens[limiters[k]] + MaxDelay \/ tokens[limiters[k]] = Burst

\* The bucket's content and what it has given out are covered by what it earned.
Covered == watch.admitted + Level[watch.key] <= Burst + watch.ticks

IInv ==
    /\ TypeOK
    /\ OwnBuckets
    /\ InFlightIsFresh
    /\ Refilled
    /\ Covered
=============================================================================
