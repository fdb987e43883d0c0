-------------------------- MODULE RateLimiterProofs --------------------------
(***************************************************************************)
(* Theorems about RateLimiter, for any keys, requests, burst, time to live *)
(* and window, as long as a bucket is full again before its entry expires  *)
(* (RefillAssumption).                                                     *)
(***************************************************************************)
EXTENDS RateLimiter, TLAPS

USE NumbersAssumption, NoneAssumption, RefillAssumption

LEMMA TypeInit == Init => TypeOK
BY DEF Init, TypeOK

LEMMA TypeStep == TypeOK /\ [Next]_vars => TypeOK'
<1> SUFFICES ASSUME TypeOK, [Next]_vars PROVE TypeOK'
    OBVIOUS
<1> USE DEF TypeOK
<1>1. ASSUME NEW q \in Requests, NEW k \in Keys, Get(q, k) PROVE TypeOK'
    <2>1. /\ key' = [key EXCEPT ![q] = k] /\ delay' = [delay EXCEPT ![q] = 0]
          /\ age' = [age EXCEPT ![k] = 0] /\ UNCHANGED <<answer, watch>>
        BY <1>1 DEF Get, Touch
    <2>2. CASE limiters[k] # None /\ held' = [held EXCEPT ![q] = limiters[k]]
               /\ UNCHANGED <<limiters, tokens>>
        BY <2>1, <2>2
    <2>3. CASE \E i \in Free : /\ limiters' = [limiters EXCEPT ![k] = i]
                               /\ tokens' = [tokens EXCEPT ![i] = Burst]
                               /\ held' = [held EXCEPT ![q] = i]
        BY <2>1, <2>3 DEF Free
    <2> QED
        BY <1>1, <2>2, <2>3 DEF Get
<1>2. ASSUME NEW q \in Requests, Allow(q) PROVE TypeOK'
    <2>1. /\ key' = [key EXCEPT ![q] = None] /\ held' = [held EXCEPT ![q] = None]
          /\ delay' = [delay EXCEPT ![q] = 0] /\ UNCHANGED map
        BY <1>2 DEF Allow
    <2>2. key[q] \in Keys /\ held[q] \in Limiters
        BY <1>2 DEF Allow
    <2>3. tokens' \in [Limiters -> 0 .. Burst]
        BY <1>2, <2>2 DEF Allow
    <2>4. answer' \in [key : Keys, ok : BOOLEAN]
        BY <1>2, <2>2 DEF Allow
    <2>5. watch' \in [key : Keys, ticks : 0 .. MaxWindow, admitted : Nat]
        BY <1>2 DEF Allow
    <2> QED
        BY <2>1, <2>3, <2>4, <2>5 DEF map
<1>3. CASE Cleanup
    <2>1. limiters' \in [Keys -> Limiters \cup {None}] /\ age' \in [Keys -> 0 .. EntryTTL + 1]
        BY <1>3 DEF Cleanup
    <2>2. UNCHANGED <<tokens, key, held, delay, answer, watch>>
        BY <1>3 DEF Cleanup, requests
    <2> QED
        BY <2>1, <2>2
<1>4. CASE Tick
    <2>1. tokens' \in [Limiters -> 0 .. Burst]
        BY <1>4 DEF Tick, Earn
    <2>2. age' \in [Keys -> 0 .. EntryTTL + 1]
        BY <1>4 DEF Tick
    <2>3. delay' \in [Requests -> 0 .. MaxDelay]
        BY <1>4 DEF Tick
    <2>4. watch' \in [key : Keys, ticks : 0 .. MaxWindow, admitted : Nat]
        <3>1. watch \in [key : Keys, ticks : 0 .. MaxWindow, admitted : Nat]
            OBVIOUS
        <3>2. CASE watch.ticks < MaxWindow
            <4>1. watch' = [watch EXCEPT !.ticks = @ + 1]
                BY <1>4, <3>2 DEF Tick
            <4>2. watch.ticks + 1 \in 0 .. MaxWindow
                BY <3>1, <3>2
            <4> HIDE DEF TypeOK
            <4> QED
                BY <3>1, <4>1, <4>2
        <3>3. CASE ~(watch.ticks < MaxWindow)
            <4>1. watch' = [watch EXCEPT !.ticks = 0, !.admitted = 0]
                BY <1>4, <3>3 DEF Tick
            <4>2. watch' = [key |-> watch.key, ticks |-> 0, admitted |-> 0]
                BY <3>1, <4>1
            <4>3. watch.key \in Keys /\ 0 \in 0 .. MaxWindow
                BY <3>1
            <4> HIDE DEF TypeOK
            <4> QED
                BY <4>2, <4>3
        <3> QED
            BY <3>2, <3>3
    <2>5. UNCHANGED <<limiters, key, held, answer>>
        BY <1>4 DEF Tick
    <2> QED
        BY <2>1, <2>2, <2>3, <2>4, <2>5
<1>5. ASSUME NEW k \in Keys, Watch(k) PROVE TypeOK'
    BY <1>5 DEF Watch, map, requests
<1>6. CASE UNCHANGED vars
    BY <1>6 DEF vars
<1> QED
    BY <1>1, <1>2, <1>3, <1>4, <1>5, <1>6 DEF Next

\* Every variable keeps its type.
THEOREM TypeCorrect == Spec => []TypeOK
<1>1. TypeOK /\ [Next]_vars => TypeOK'
    BY TypeStep
<1> QED
    BY TypeInit, <1>1, PTL DEF Spec

-----------------------------------------------------------------------------
(* A bucket that is evicted is full, and nobody holds it *)

LEMMA InitInv == Init => IInv
BY TypeInit DEF Init, IInv, OwnBuckets, InFlightIsFresh, Refilled, Covered, Level

\* The entry of a request in flight is never stale.
LEMMA InFlightIsKept ==
    ASSUME TypeOK, InFlightIsFresh, NEW q \in Requests, key[q] # None
    PROVE  ~Stale(key[q])
<1>1. key[q] \in Keys /\ delay[q] \in 0 .. MaxDelay /\ age[key[q]] <= delay[q]
    BY DEF TypeOK, InFlightIsFresh
<1> QED
    BY <1>1 DEF TypeOK, Stale

LEMMA StaleIsFull ==
    ASSUME TypeOK, Refilled, NEW k \in Keys, Stale(k)
    PROVE  tokens[limiters[k]] = Burst
BY DEF TypeOK, Refilled, Stale

\* A request that looks its bucket up changes nobody's level.
LEMMA GetKeepsLevel ==
    ASSUME TypeOK, NEW q \in Requests, NEW k \in Keys, Get(q, k)
    PROVE  Level' = Level
<1>1. CASE UNCHANGED <<limiters, tokens>>
    BY <1>1 DEF Level
<1>2. CASE limiters[k] = None /\ \E i \in Free : /\ limiters' = [limiters EXCEPT ![k] = i]
                                                /\ tokens' = [tokens EXCEPT ![i] = Burst]
    <2>1. PICK i \in Free : /\ limiters' = [limiters EXCEPT ![k] = i]
                            /\ tokens' = [tokens EXCEPT ![i] = Burst]
        BY <1>2
    <2>2. i \in Limiters /\ \A l \in Keys : limiters[l] # i
        BY DEF Free
    <2>3. ASSUME NEW l \in Keys PROVE Level'[l] = Level[l]
        BY <1>2, <2>1, <2>2 DEF Level, TypeOK
    <2> QED
        BY <2>3 DEF Level
<1> QED
    BY <1>1, <1>2 DEF Get

\* Neither does a round of the cleanup.
LEMMA CleanupKeepsLevel ==
    ASSUME TypeOK, Refilled, Cleanup
    PROVE  Level' = Level
<1>1. ASSUME NEW k \in Keys PROVE Level'[k] = Level[k]
    BY StaleIsFull DEF Cleanup, Level, Stale
<1> QED
    BY <1>1 DEF Level

\* An answer depends on the level of the request's key and changes no other.
LEMMA AllowTakesOwn ==
    ASSUME TypeOK, OwnBuckets, NEW q \in Requests, Allow(q)
    PROVE  /\ key[q] \in Keys
           /\ Level[key[q]] = tokens[held[q]]
           /\ Level' = IF Level[key[q]] > 0
                       THEN [Level EXCEPT ![key[q]] = @ - 1] ELSE Level
<1>1. key[q] \in Keys /\ held[q] \in Limiters /\ held[q] = limiters[key[q]]
    BY DEF Allow, TypeOK, OwnBuckets
<1>2. Level[key[q]] = tokens[held[q]]
    BY <1>1 DEF Level, TypeOK
<1>3. limiters' = limiters
    BY DEF Allow, map
<1>4. CASE tokens[held[q]] > 0
    <2>1. tokens' = [tokens EXCEPT ![held[q]] = @ - 1]
        BY <1>4 DEF Allow
    <2>2. ASSUME NEW k \in Keys
          PROVE  Level'[k] = [Level EXCEPT ![key[q]] = @ - 1][k]
        <3>1. CASE k = key[q]
            BY <1>1, <1>2, <1>3, <2>1, <3>1 DEF Level, TypeOK
        <3>2. CASE k # key[q]
            <4>1. limiters[k] # held[q]
                BY <1>1, <3>2 DEF OwnBuckets, TypeOK
            <4> QED
                BY <1>1, <1>3, <2>1, <3>2, <4>1 DEF Level, TypeOK
        <3> QED
            BY <3>1, <3>2
    <2>3. Level' = [Level EXCEPT ![key[q]] = @ - 1]
        BY <2>2 DEF Level
    <2> QED
        BY <1>1, <1>2, <1>4, <2>3
<1>5. CASE ~(tokens[held[q]] > 0)
    <2>1. tokens' = tokens
        BY <1>5 DEF Allow
    <2> QED
        BY <1>1, <1>2, <1>3, <1>5, <2>1 DEF Level
<1> QED
    BY <1>4, <1>5

\* A tick refills every level.
LEMMA TickRefills ==
    ASSUME TypeOK, Tick
    PROVE  Level' = [k \in Keys |-> IF Level[k] < Burst THEN Level[k] + 1 ELSE Burst]
<1>1. ASSUME NEW k \in Keys
      PROVE  Level'[k] = IF Level[k] < Burst THEN Level[k] + 1 ELSE Burst
    BY DEF Tick, Level, Earn, TypeOK
<1> QED
    BY <1>1 DEF Level

-----------------------------------------------------------------------------
(* The invariant *)

LEMMA OwnBucketsStep == IInv /\ [Next]_vars => OwnBuckets'
<1> SUFFICES ASSUME IInv, [Next]_vars PROVE OwnBuckets'
    OBVIOUS
<1>0. TypeOK /\ OwnBuckets /\ InFlightIsFresh
    BY DEF IInv
<1>1. ASSUME NEW q \in Requests, NEW k \in Keys, Get(q, k) PROVE OwnBuckets'
    <2>1. key' = [key EXCEPT ![q] = k] /\ key[q] = None
        BY <1>1 DEF Get
    <2>2. CASE limiters[k] # None /\ held' = [held EXCEPT ![q] = limiters[k]]
               /\ UNCHANGED limiters
        BY <1>0, <2>1, <2>2 DEF OwnBuckets, TypeOK
    <2>3. CASE limiters[k] = None /\ \E i \in Free : /\ limiters' = [limiters EXCEPT ![k] = i]
                                                     /\ held' = [held EXCEPT ![q] = i]
        <3>1. PICK i \in Free : /\ limiters' = [limiters EXCEPT ![k] = i]
                                /\ held' = [held EXCEPT ![q] = i]
            BY <2>3
        <3>2. i \in Limiters /\ \A l \in Keys : limiters[l] # i
            BY DEF Free
        <3>3. \A p \in Requests : key[p] # None => key[p] # k
            BY <1>0, <2>3 DEF OwnBuckets, TypeOK
        <3> QED
            BY <1>0, <2>1, <3>1, <3>2, <3>3 DEF OwnBuckets, TypeOK
    <2> QED
        BY <1>1, <2>2, <2>3 DEF Get
<1>2. ASSUME NEW q \in Requests, Allow(q) PROVE OwnBuckets'
    BY <1>0, <1>2 DEF Allow, map, OwnBuckets, TypeOK
<1>3. CASE Cleanup
    <2>1. \A q \in Requests : key[q] # None => ~Stale(key[q])
        BY <1>0, InFlightIsKept
    <2> QED
        BY <1>0, <1>3, <2>1 DEF Cleanup, requests, OwnBuckets, TypeOK
<1>4. CASE Tick
    BY <1>0, <1>4 DEF Tick, OwnBuckets
<1>5. ASSUME NEW k \in Keys, Watch(k) PROVE OwnBuckets'
    BY <1>0, <1>5 DEF Watch, map, requests, OwnBuckets
<1>6. CASE UNCHANGED vars
    BY <1>0, <1>6 DEF vars, OwnBuckets
<1> QED
    BY <1>1, <1>2, <1>3, <1>4, <1>5, <1>6 DEF Next

LEMMA FreshStep == IInv /\ [Next]_vars => InFlightIsFresh'
<1> SUFFICES ASSUME IInv, [Next]_vars PROVE InFlightIsFresh'
    OBVIOUS
<1>0. TypeOK /\ InFlightIsFresh
    BY DEF IInv
<1>1. ASSUME NEW q \in Requests, NEW k \in Keys, Get(q, k) PROVE InFlightIsFresh'
    <2>1. /\ key' = [key EXCEPT ![q] = k] /\ delay' = [delay EXCEPT ![q] = 0]
          /\ age' = [age EXCEPT ![k] = 0]
        BY <1>1 DEF Get, Touch
    <2> QED
        BY <1>0, <2>1 DEF InFlightIsFresh, TypeOK
<1>2. ASSUME NEW q \in Requests, Allow(q) PROVE InFlightIsFresh'
    BY <1>0, <1>2 DEF Allow, map, InFlightIsFresh, TypeOK
<1>3. CASE Cleanup
    <2>1. \A q \in Requests : key[q] # None => ~Stale(key[q])
        BY <1>0, InFlightIsKept
    <2> QED
        BY <1>0, <1>3, <2>1 DEF Cleanup, requests, InFlightIsFresh, TypeOK
<1>4. CASE Tick
    BY <1>0, <1>4 DEF Tick, InFlightIsFresh, TypeOK
<1>5. ASSUME NEW k \in Keys, Watch(k) PROVE InFlightIsFresh'
    BY <1>0, <1>5 DEF Watch, map, requests, InFlightIsFresh
<1>6. CASE UNCHANGED vars
    BY <1>0, <1>6 DEF vars, InFlightIsFresh
<1> QED
    BY <1>1, <1>2, <1>3, <1>4, <1>5, <1>6 DEF Next

LEMMA RefilledStep == IInv /\ [Next]_vars => Refilled'
<1> SUFFICES ASSUME IInv, [Next]_vars PROVE Refilled'
    OBVIOUS
<1>0. TypeOK /\ OwnBuckets /\ InFlightIsFresh /\ Refilled
    BY DEF IInv
<1>1. ASSUME NEW q \in Requests, NEW k \in Keys, Get(q, k) PROVE Refilled'
    <2>1. age' = [age EXCEPT ![k] = 0]
        BY <1>1 DEF Get, Touch
    <2>2. CASE UNCHANGED <<limiters, tokens>>
        BY <1>0, <2>1, <2>2 DEF Refilled, TypeOK
    <2>3. CASE limiters[k] = None /\ \E i \in Free : /\ limiters' = [limiters EXCEPT ![k] = i]
                                                     /\ tokens' = [tokens EXCEPT ![i] = Burst]
        <3>1. PICK i \in Free : /\ limiters' = [limiters EXCEPT ![k] = i]
                                /\ tokens' = [tokens EXCEPT ![i] = Burst]
            BY <2>3
        <3>2. i \in Limiters /\ \A l \in Keys : limiters[l] # i
            BY DEF Free
        <3> QED
            BY <1>0, <2>1, <3>1, <3>2 DEF Refilled, TypeOK
    <2> QED
        BY <1>1, <2>2, <2>3 DEF Get
<1>2. ASSUME NEW q \in Requests, Allow(q) PROVE Refilled'
    <2>1. key[q] \in Keys /\ held[q] = limiters[key[q]] /\ held[q] \in Limiters
        BY <1>0, <1>2 DEF Allow, OwnBuckets, TypeOK
    <2>2. age[key[q]] <= MaxDelay
        BY <1>0, <2>1 DEF InFlightIsFresh, TypeOK
    <2>3. /\ limiters' = limiters /\ age' = age
          /\ \/ tokens' = tokens
             \/ tokens[held[q]] > 0 /\ tokens' = [tokens EXCEPT ![held[q]] = @ - 1]
        BY <1>2 DEF Allow, map
    <2>4. CASE tokens' = tokens
        BY <1>0, <2>3, <2>4 DEF Refilled
    <2>5. CASE tokens[held[q]] > 0 /\ tokens' = [tokens EXCEPT ![held[q]] = @ - 1]
        <3> SUFFICES ASSUME NEW k \in Keys, limiters[k] # None
                     PROVE  age[k] <= tokens'[limiters[k]] + MaxDelay \/ tokens'[limiters[k]] = Burst
            BY <2>3 DEF Refilled
        <3>1. limiters[k] \in Limiters /\ age[k] \in Nat
            BY <1>0 DEF TypeOK
        <3>2. CASE k = key[q]
            BY <1>0, <2>1, <2>2, <2>5, <3>1, <3>2 DEF TypeOK
        <3>3. CASE k # key[q]
            <4>1. tokens'[limiters[k]] = tokens[limiters[k]]
                BY <1>0, <2>1, <2>5, <3>1, <3>3 DEF OwnBuckets, TypeOK
            <4> QED
                BY <1>0, <4>1 DEF Refilled
        <3> QED
            BY <3>2, <3>3
    <2> QED
        BY <2>3, <2>4, <2>5
<1>3. CASE Cleanup
    BY <1>0, <1>3 DEF Cleanup, Refilled, TypeOK, Stale
<1>4. CASE Tick
    BY <1>0, <1>4 DEF Tick, Earn, Refilled, TypeOK
<1>5. ASSUME NEW k \in Keys, Watch(k) PROVE Refilled'
    BY <1>0, <1>5 DEF Watch, map, Refilled
<1>6. CASE UNCHANGED vars
    BY <1>0, <1>6 DEF vars, Refilled
<1> QED
    BY <1>1, <1>2, <1>3, <1>4, <1>5, <1>6 DEF Next

LEMMA LevelType == TypeOK => Level \in [Keys -> 0 .. Burst]
BY DEF TypeOK, Level

LEMMA CoveredStep == IInv /\ [Next]_vars => Covered'
<1> SUFFICES ASSUME IInv, [Next]_vars PROVE Covered'
    OBVIOUS
<1>0. TypeOK /\ OwnBuckets /\ Refilled /\ Covered
    BY DEF IInv
<1>a. /\ Level \in [Keys -> 0 .. Burst]
      /\ watch.key \in Keys /\ watch.ticks \in Nat /\ watch.admitted \in Nat
      /\ watch.admitted + Level[watch.key] <= Burst + watch.ticks
    BY <1>0, LevelType DEF TypeOK, Covered
<1>1. ASSUME NEW q \in Requests, NEW k \in Keys, Get(q, k) PROVE Covered'
    <2>1. Level' = Level /\ watch' = watch
        BY <1>0, <1>1, GetKeepsLevel DEF Get
    <2> QED
        BY <1>0, <2>1 DEF Covered
<1>2. ASSUME NEW q \in Requests, Allow(q) PROVE Covered'
    <2>1. /\ key[q] \in Keys
          /\ Level[key[q]] = tokens[held[q]]
          /\ Level' = IF Level[key[q]] > 0
                      THEN [Level EXCEPT ![key[q]] = @ - 1] ELSE Level
        BY <1>0, <1>2, AllowTakesOwn
    <2>2. watch' = IF tokens[held[q]] > 0 /\ watch.key = key[q]
                   THEN [watch EXCEPT !.admitted = @ + 1] ELSE watch
        BY <1>2 DEF Allow
    <2>3. CASE Level[key[q]] > 0 /\ watch.key = key[q]
        <3>1. /\ watch' = [watch EXCEPT !.admitted = @ + 1]
              /\ Level'[key[q]] = Level[key[q]] - 1
            BY <1>a, <2>1, <2>2, <2>3
        <3>2. /\ watch'.key = watch.key /\ watch'.ticks = watch.ticks
              /\ watch'.admitted = watch.admitted + 1
            BY <1>0, <3>1 DEF TypeOK
        <3> QED
            BY <1>a, <2>3, <3>1, <3>2 DEF Covered
    <2>4. CASE ~(Level[key[q]] > 0 /\ watch.key = key[q])
        <3>1. watch' = watch /\ Level'[watch.key] = Level[watch.key]
            BY <1>a, <2>1, <2>2, <2>4
        <3> QED
            BY <1>a, <3>1 DEF Covered
    <2> QED
        BY <2>3, <2>4
<1>3. CASE Cleanup
    <2>1. Level' = Level /\ watch' = watch
        BY <1>0, <1>3, CleanupKeepsLevel DEF Cleanup
    <2> QED
        BY <1>0, <2>1 DEF Covered
<1>4. CASE Tick
    <2>1. Level'[watch.key] <= Level[watch.key] + 1 /\ Level'[watch.key] <= Burst
        BY <1>0, <1>4, <1>a, TickRefills
    <2>2. Level'[watch.key] \in Nat
        BY <1>0, <1>4, <1>a, TickRefills
    <2>3. CASE watch.ticks < MaxWindow
        <3>1. /\ watch'.key = watch.key /\ watch'.ticks = watch.ticks + 1
              /\ watch'.admitted = watch.admitted
            BY <1>0, <1>4, <2>3 DEF Tick, TypeOK
        <3> QED
            BY <1>a, <2>1, <2>2, <3>1 DEF Covered
    <2>4. CASE ~(watch.ticks < MaxWindow)
        <3>1. watch'.key = watch.key /\ watch'.ticks = 0 /\ watch'.admitted = 0
            BY <1>0, <1>4, <2>4 DEF Tick, TypeOK
        <3> QED
            BY <1>a, <2>1, <2>2, <3>1 DEF Covered
    <2> QED
        BY <2>3, <2>4
<1>5. ASSUME NEW k \in Keys, Watch(k) PROVE Covered'
    <2>1. Level' = Level
        BY <1>5 DEF Watch, map, Level
    <2> QED
        BY <1>5, <1>a, <2>1 DEF Watch, Covered
<1>6. CASE UNCHANGED vars
    BY <1>0, <1>6 DEF vars, Covered, Level
<1> QED
    BY <1>1, <1>2, <1>3, <1>4, <1>5, <1>6 DEF Next

LEMMA Invariant == Spec => []IInv
<1>1. IInv /\ [Next]_vars => IInv'
    BY TypeStep, OwnBucketsStep, FreshStep, RefilledStep, CoveredStep DEF IInv
<1> QED
    BY InitInv, <1>1, PTL DEF Spec

\* In any stretch of time a key is admitted Burst times and once for each tick:
\* eviction gives nobody a fresh burst early.
THEOREM RateIsBounded == Spec => []RateHolds
<1>1. IInv => RateHolds
    <2> SUFFICES ASSUME IInv PROVE RateHolds
        OBVIOUS
    <2>1. TypeOK /\ Covered
        BY DEF IInv
    <2> QED
        BY <2>1, LevelType DEF TypeOK, Covered, RateHolds
<1> QED
    BY <1>1, Invariant, PTL

-----------------------------------------------------------------------------
(* The limiter implements buckets that last for ever *)

LEMMA BucketStep == IInv /\ [Next]_vars => [Buckets!Next]_<<Level, answer>>
<1> SUFFICES ASSUME IInv, [Next]_vars PROVE [Buckets!Next]_<<Level, answer>>
    OBVIOUS
<1>0. TypeOK /\ OwnBuckets /\ Refilled
    BY DEF IInv
<1>1. ASSUME NEW q \in Requests, NEW k \in Keys, Get(q, k) PROVE UNCHANGED <<Level, answer>>
    BY <1>0, <1>1, GetKeepsLevel DEF Get
<1>2. ASSUME NEW q \in Requests, Allow(q) PROVE Buckets!Next
    <2>1. /\ key[q] \in Keys
          /\ Level[key[q]] = tokens[held[q]]
          /\ Level' = IF Level[key[q]] > 0
                      THEN [Level EXCEPT ![key[q]] = @ - 1] ELSE Level
        BY <1>0, <1>2, AllowTakesOwn
    <2>2. answer' = [key |-> key[q], ok |-> tokens[held[q]] > 0]
        BY <1>2 DEF Allow
    <2>3. CASE Level[key[q]] > 0
        <3>1. (tokens[held[q]] > 0) = TRUE
            BY <2>1, <2>3
        <3>2. Buckets!Admit(key[q])
            BY <2>1, <2>2, <2>3, <3>1 DEF Buckets!Admit
        <3> QED
            BY <2>1, <3>2 DEF Buckets!Next
    <2>4. CASE ~(Level[key[q]] > 0)
        <3>1. Level[key[q]] = 0
            BY <1>0, <2>1, <2>4, LevelType
        <3>2. (tokens[held[q]] > 0) = FALSE
            BY <2>1, <2>4
        <3>3. Buckets!Refuse(key[q])
            BY <2>1, <2>2, <2>4, <3>1, <3>2 DEF Buckets!Refuse
        <3> QED
            BY <2>1, <3>3 DEF Buckets!Next
    <2> QED
        BY <2>3, <2>4
<1>3. CASE Cleanup
    BY <1>0, <1>3, CleanupKeepsLevel DEF Cleanup
<1>4. CASE Tick
    BY <1>0, <1>4, TickRefills DEF Tick, Buckets!Refill, Buckets!Next
<1>5. ASSUME NEW k \in Keys, Watch(k) PROVE UNCHANGED <<Level, answer>>
    BY <1>5 DEF Watch, map, Level
<1>6. CASE UNCHANGED vars
    BY <1>6 DEF vars, Level
<1> QED
    BY <1>1, <1>2, <1>3, <1>4, <1>5, <1>6 DEF Next

\* What keys are admitted and refused is what buckets that are never evicted would
\* admit and refuse.
THEOREM EvictionIsInvisible == Spec => BucketSpec
<1>1. Init => Buckets!Init
    BY DEF Init, Buckets!Init, Level
<1>2. IInv /\ [Next]_vars => [Buckets!Next]_<<Level, answer>>
    BY BucketStep
<1> QED
    BY <1>1, <1>2, Invariant, PTL DEF Spec, BucketSpec, Buckets!Spec
=============================================================================
