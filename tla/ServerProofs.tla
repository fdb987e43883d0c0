---------------------------- MODULE ServerProofs ----------------------------
(***************************************************************************)
(* Theorems about Server, for any replicas, requests, sessions, number of  *)
(* migration files and size of the pool.                                   *)
(***************************************************************************)
EXTENDS Server, TLAPS

USE SetsAssumption, NumbersAssumption DEF Files, Requests

LEMMA TypeInit == Init => TypeOK
BY DEF Init, TypeOK

LEMMA TypeStep == TypeOK /\ MigrationInv /\ [Next]_vars => TypeOK'
<1> SUFFICES ASSUME TypeOK, MigrationInv, [Next]_vars PROVE TypeOK'
    OBVIOUS
<1> USE DEF TypeOK, StartUp, Up, Goto, database, migration, serving
<1>1. ASSUME NEW r \in Replicas, Start(r) PROVE TypeOK'
    BY <1>1 DEF Start
<1>2. ASSUME NEW r \in Replicas, Acquire(r) PROVE TypeOK'
    BY <1>2 DEF Acquire
<1>3. ASSUME NEW r \in Replicas, Lock(r) PROVE TypeOK'
    BY <1>3 DEF Lock
<1>4. ASSUME NEW r \in Replicas, Apply(r) PROVE TypeOK'
    <2>1. next[r] \in 0 .. NFiles
        BY <1>4 DEF Apply
    <2>2. work' \in [Sessions -> 0 .. NFiles]
        BY <1>4, <2>1 DEF Apply
    <2> QED
        BY <1>4, <2>2 DEF Apply
<1>5. ASSUME NEW r \in Replicas, Applied(r) PROVE TypeOK'
    <2>1. /\ conn[r] \in Sessions
          /\ work[conn[r]] \in Files
          /\ work[conn[r]] = next[r]
        BY <1>5 DEF Applied, MigrationInv, SessionsAreOwned, LoopIsAhead
    <2>2. work' \in [Sessions -> 0 .. NFiles]
        BY <1>5, <2>1 DEF Applied
    <2>6. applied' \subseteq applied \cup {work[conn[r]]}
        BY <1>5 DEF Applied
    <2>7. applied' \subseteq Files
        BY <2>1, <2>6
    <2>3. next[r] + 1 \in 1 .. NFiles + 1
        BY <2>1
    <2>4. next' \in [Replicas -> 1 .. NFiles + 1]
        BY <1>5, <2>3 DEF Applied
    <2>5. pc' \in [Replicas -> {"down"} \cup StartUp \cup Up] /\ failed' \in [Replicas -> BOOLEAN]
        BY <1>5 DEF Applied
    <2> QED
        BY <1>5, <2>2, <2>4, <2>5, <2>7 DEF Applied
<1>6. ASSUME NEW r \in Replicas, Migrated(r) PROVE TypeOK'
    BY <1>6 DEF Migrated
<1>7. ASSUME NEW r \in Replicas, Unlock(r) PROVE TypeOK'
    BY <1>7 DEF Unlock, Die
<1>8. ASSUME NEW r \in Replicas, StartupTimeout(r) PROVE TypeOK'
    BY <1>8 DEF StartupTimeout, Die
<1>9. ASSUME NEW r \in Replicas, Wire(r) PROVE TypeOK'
    BY <1>9 DEF Wire
<1>10. ASSUME NEW r \in Replicas, HttpDrained(r) PROVE TypeOK'
    BY <1>10 DEF HttpDrained
<1>11. ASSUME NEW r \in Replicas, GrpcDrained(r) PROVE TypeOK'
    BY <1>11 DEF GrpcDrained
<1>12. ASSUME NEW r \in Replicas, GrpcForced(r) PROVE TypeOK'
    BY <1>12 DEF GrpcForced
<1>13. ASSUME NEW r \in Replicas, ClosePool(r) PROVE TypeOK'
    BY <1>13 DEF ClosePool
<1>14. ASSUME NEW r \in Replicas, Exit(r) PROVE TypeOK'
    BY <1>14 DEF Exit, Die
<1>15. ASSUME NEW r \in Replicas, Signal(r) PROVE TypeOK'
    BY <1>15 DEF Signal
<1>16. ASSUME NEW r \in Replicas, Deadline(r) PROVE TypeOK'
    BY <1>16 DEF Deadline
<1>17. ASSUME NEW r \in Replicas, Crash(r) PROVE TypeOK'
    BY <1>17 DEF Crash, Die
<1>18. ASSUME NEW r \in Replicas, NEW q \in Requests, Arrive(r, q) PROVE TypeOK'
    BY <1>18 DEF Arrive
<1>19. ASSUME NEW r \in Replicas, NEW q \in Requests, Query(r, q) PROVE TypeOK'
    BY <1>19 DEF Query
<1>20. ASSUME NEW r \in Replicas, NEW q \in Requests, QueryDone(r, q) PROVE TypeOK'
    BY <1>20 DEF QueryDone
<1>21. ASSUME NEW r \in Replicas, NEW q \in Requests, Answer(r, q) PROVE TypeOK'
    BY <1>21 DEF Answer
<1>22. ASSUME NEW r \in Replicas, NEW q \in Requests, QueryRefused(r, q) PROVE TypeOK'
    BY <1>22 DEF QueryRefused
<1>23. ASSUME NEW s \in Sessions, Reap(s) PROVE TypeOK'
    <2>1. applied' \subseteq Files
        <3>1. CASE work[s] # 0 /\ applied' = applied \cup {work[s]}
            <4>1. work[s] \in 0 .. NFiles
                OBVIOUS
            <4>2. work[s] \in 1 .. NFiles
                BY <3>1, <4>1
            <4> QED
                BY <3>1, <4>2
        <3> QED
            BY <1>23, <3>1 DEF Reap
    <2>2. /\ work' \in [Sessions -> 0 .. NFiles]
          /\ open' \subseteq Sessions
          /\ lock' \in Sessions \cup {None}
        BY <1>23 DEF Reap
    <2> QED
        BY <1>23, <2>1, <2>2 DEF Reap
<1>24. CASE UNCHANGED vars
    BY <1>24 DEF vars
<1> QED
    BY <1>1, <1>2, <1>3, <1>4, <1>5, <1>6, <1>7, <1>8, <1>9, <1>10, <1>11, <1>12, <1>13, <1>14, <1>15, <1>16, <1>17, <1>18, <1>19, <1>20, <1>21, <1>22, <1>23, <1>24
        DEF Next, Migrate, Main, Handle

-----------------------------------------------------------------------------
LEMMA MigrationInit == Init => MigrationInv
BY DEF Init, TypeOK, MigrationInv, SessionsAreOwned, LockIsHeld, LoopIsAhead, ServesMigrated, SchemaIsPrefix, Up

LEMMA MigrationStep == TypeOK /\ MigrationInv /\ [Next]_vars => MigrationInv'
<1> SUFFICES ASSUME TypeOK, MigrationInv, [Next]_vars PROVE MigrationInv'
    OBVIOUS
<1> USE DEF MigrationInv, SessionsAreOwned, LockIsHeld, LoopIsAhead, ServesMigrated, SchemaIsPrefix,
            TypeOK, StartUp, Up, Goto, database, migration, serving
<1>1. ASSUME NEW r \in Replicas, Start(r) PROVE MigrationInv'
    BY <1>1 DEF Start
<1>2. ASSUME NEW r \in Replicas, Acquire(r) PROVE MigrationInv'
    BY <1>2 DEF Acquire
<1>3. ASSUME NEW r \in Replicas, Lock(r) PROVE MigrationInv'
    BY <1>3 DEF Lock
<1>4. ASSUME NEW r \in Replicas, Apply(r) PROVE MigrationInv'
    BY <1>4 DEF Apply
<1>5. ASSUME NEW r \in Replicas, Applied(r) PROVE MigrationInv'
    <2>1. /\ conn[r] \in Sessions /\ lock = conn[r]
          /\ work[conn[r]] \in Files
          /\ work[conn[r]] = next[r]
          /\ 1 .. next[r] - 1 \subseteq applied
          /\ pc[r] = "migrate"
        BY <1>5 DEF Applied
    <2>2. \A s \in Sessions \ {conn[r]} : work[s] = 0
        BY <2>1
    <2>3. \A s \in Sessions : work'[s] = 0
        BY <1>5, <2>1, <2>2 DEF Applied
    <2>4. \A q \in Replicas \ {r} : pc[q] \notin {"migrate", "unlock"}
        BY <2>1
    <2>5. SessionsAreOwned' /\ LockIsHeld'
        BY <1>5, <2>1, <2>3, <2>4 DEF Applied
    <2>6. CASE /\ applied' = applied \cup {next[r]}
               /\ next' = [next EXCEPT ![r] = @ + 1]
               /\ UNCHANGED <<pc, failed>>
        <3>1. 1 .. next[r] \subseteq applied'
            BY <2>1, <2>6
        <3>2. SchemaIsPrefix'
            BY <2>1, <2>6, <3>1
        <3>3. ServesMigrated'
            BY <2>1, <2>6
        <3>4. next'[r] - 1 = next[r]
            BY <2>1, <2>6
        <3>5. LoopIsAhead'
            BY <2>1, <2>3, <2>4, <2>6, <3>1, <3>4, <1>5 DEF Applied
        <3> QED
            BY <2>5, <3>2, <3>3, <3>5
    <2>7. CASE /\ Goto(r, "unlock")
               /\ failed' = [failed EXCEPT ![r] = TRUE]
               /\ UNCHANGED <<applied, next>>
        BY <1>5, <2>1, <2>3, <2>4, <2>5, <2>7 DEF Applied
    <2> QED
        BY <1>5, <2>1, <2>6, <2>7 DEF Applied
<1>6. ASSUME NEW r \in Replicas, Migrated(r) PROVE MigrationInv'
    <2>1. /\ conn[r] \in Sessions
          /\ work[conn[r]] = 0
          /\ next[r] = NFiles + 1
        BY <1>6 DEF Migrated
    <2>2. 1 .. next[r] - 1 \subseteq applied
        BY <1>6 DEF Migrated
    <2>3. next[r] - 1 = NFiles
        BY <2>1
    <2>4. applied = Files
        BY <2>2, <2>3
    <2> QED
        BY <1>6, <2>1, <2>4 DEF Migrated
<1>7. ASSUME NEW r \in Replicas, Unlock(r) PROVE MigrationInv'
    <2>1. /\ conn[r] \in Sessions /\ lock = conn[r]
          /\ \A q \in Replicas \ {r} : /\ pc[q] \notin {"migrate", "unlock"}
                                      /\ conn[q] # conn[r]
          /\ ~failed[r] => applied = Files
        BY <1>7 DEF Unlock
    <2>2. \A s \in Sessions : work[s] = 0
        BY <1>7, <2>1 DEF Unlock
    <2>3. /\ lock' = None /\ open' = open \ {conn[r]}
          /\ conn' = [conn EXCEPT ![r] = None]
          /\ pc' \in {[pc EXCEPT ![r] = "wire"], [pc EXCEPT ![r] = "down"]}
          /\ pc' = [pc EXCEPT ![r] = "wire"] => ~failed[r]
          /\ UNCHANGED <<applied, work, next, failed>>
        <3>1. CASE ~failed[r]
            BY <1>7, <2>1, <3>1 DEF Unlock, Die
        <3>2. CASE failed[r]
            BY <1>7, <2>1, <3>2 DEF Unlock, Die
        <3> QED
            BY <3>1, <3>2
    <2>4. SessionsAreOwned'
        BY <2>1, <2>3
    <2>5. LockIsHeld'
        BY <2>1, <2>2, <2>3
    <2>6. LoopIsAhead' /\ ServesMigrated' /\ SchemaIsPrefix'
        BY <2>1, <2>3
    <2> QED
        BY <2>4, <2>5, <2>6
<1>8. ASSUME NEW r \in Replicas, StartupTimeout(r) PROVE MigrationInv'
    BY <1>8 DEF StartupTimeout, Die
<1>9. ASSUME NEW r \in Replicas, Wire(r) PROVE MigrationInv'
    BY <1>9 DEF Wire
<1>10. ASSUME NEW r \in Replicas, HttpDrained(r) PROVE MigrationInv'
    BY <1>10 DEF HttpDrained
<1>11. ASSUME NEW r \in Replicas, GrpcDrained(r) PROVE MigrationInv'
    BY <1>11 DEF GrpcDrained
<1>12. ASSUME NEW r \in Replicas, GrpcForced(r) PROVE MigrationInv'
    BY <1>12 DEF GrpcForced
<1>13. ASSUME NEW r \in Replicas, ClosePool(r) PROVE MigrationInv'
    BY <1>13 DEF ClosePool
<1>14. ASSUME NEW r \in Replicas, Exit(r) PROVE MigrationInv'
    BY <1>14 DEF Exit, Die
<1>15. ASSUME NEW r \in Replicas, Signal(r) PROVE MigrationInv'
    BY <1>15 DEF Signal
<1>16. ASSUME NEW r \in Replicas, Deadline(r) PROVE MigrationInv'
    BY <1>16 DEF Deadline
<1>17. ASSUME NEW r \in Replicas, Crash(r) PROVE MigrationInv'
    BY <1>17 DEF Crash, Die
<1>18. ASSUME NEW r \in Replicas, NEW q \in Requests, Arrive(r, q) PROVE MigrationInv'
    BY <1>18 DEF Arrive
<1>19. ASSUME NEW r \in Replicas, NEW q \in Requests, Query(r, q) PROVE MigrationInv'
    BY <1>19 DEF Query
<1>20. ASSUME NEW r \in Replicas, NEW q \in Requests, QueryDone(r, q) PROVE MigrationInv'
    BY <1>20 DEF QueryDone
<1>21. ASSUME NEW r \in Replicas, NEW q \in Requests, Answer(r, q) PROVE MigrationInv'
    BY <1>21 DEF Answer
<1>22. ASSUME NEW r \in Replicas, NEW q \in Requests, QueryRefused(r, q) PROVE MigrationInv'
    BY <1>22 DEF QueryRefused
<1>23. ASSUME NEW s \in Sessions, Reap(s) PROVE MigrationInv'
    <2>1. work' = [work EXCEPT ![s] = 0] /\ open' = open \ {s} /\ UNCHANGED <<pc, conn, next, failed>>
        BY <1>23 DEF Reap
    <2>2. \A r \in Replicas : conn[r] # s
        BY <1>23 DEF Reap
    <2>3. SessionsAreOwned'
        BY <2>1, <2>2
    <2>4. applied \subseteq applied'
        BY <1>23 DEF Reap
    <2>5. /\ \A r \in Replicas : pc'[r] \in {"migrate", "unlock"} => lock' = conn'[r]
          /\ \A t \in Sessions : work'[t] # 0 => t # s /\ t \in open /\ lock = t /\ work'[t] = work[t]
        BY <1>23, <2>1, <2>2 DEF Reap
    <2>6. LockIsHeld'
        BY <1>23, <2>1, <2>4, <2>5 DEF Reap
    <2>7. SchemaIsPrefix' /\ applied' \subseteq Files
        <3>1. CASE work[s] # 0 /\ applied' = applied \cup {work[s]}
            <4>1. 1 .. work[s] - 1 \subseteq applied /\ work[s] \in Files
                BY <3>1
            <4>2. 1 .. work[s] \subseteq applied'
                BY <3>1, <4>1
            <4> QED
                BY <3>1, <4>1, <4>2
        <3> QED
            BY <1>23, <3>1 DEF Reap
    <2>8. LoopIsAhead' /\ ServesMigrated'
        BY <2>1, <2>2, <2>4, <2>7
    <2> QED
        BY <2>3, <2>6, <2>7, <2>8
<1>24. CASE UNCHANGED vars
    BY <1>24 DEF vars
<1> QED
    BY <1>1, <1>2, <1>3, <1>4, <1>5, <1>6, <1>7, <1>8, <1>9, <1>10, <1>11, <1>12, <1>13, <1>14, <1>15, <1>16, <1>17, <1>18, <1>19, <1>20, <1>21, <1>22, <1>23, <1>24
        DEF Next, Migrate, Main, Handle

LEMMA MigrationSafe == Spec => [](TypeOK /\ MigrationInv)
<1>1. Init => TypeOK /\ MigrationInv
    BY TypeInit, MigrationInit
<1>2. TypeOK /\ MigrationInv /\ [Next]_vars => TypeOK' /\ MigrationInv'
    BY TypeStep, MigrationStep
<1> QED
    BY <1>1, <1>2, PTL DEF Spec

\* Every variable of the replicas and of the database has its type; that the loop
\* of Migrate stays within its files rests on the session and lock it holds.
THEOREM TypeCorrect == Spec => []TypeOK
BY MigrationSafe, PTL

\* A replica serves only over a complete schema, however many replicas start
\* together, time out or die between two migrations.
THEOREM ServesOnlyMigrated == Spec => []ServesMigrated
BY MigrationSafe, PTL DEF MigrationInv

\* The schema is always what a prefix of the files makes, in lexical order.
THEOREM SchemaStaysPrefix == Spec => []SchemaIsPrefix
BY MigrationSafe, PTL DEF MigrationInv

\* The advisory lock serialises the migrations: at most one backend executes a
\* file at a time, those whose replica is dead included.
THEOREM MigrationsAreSerial == Spec => []OneMigrator
<1>1. MigrationInv /\ TypeOK => OneMigrator
    BY DEF MigrationInv, LockIsHeld, OneMigrator, TypeOK
<1> QED
    BY <1>1, MigrationSafe, PTL

-----------------------------------------------------------------------------
(* The replicas and their database implement Migrations *)

\* At most one file is being executed, with everything before it applied.
LEMMA ExecutingIsOne ==
    ASSUME TypeOK, MigrationInv, NEW s \in Sessions, work[s] # 0
    PROVE  /\ work[s] \in Files
           /\ lock = s
           /\ 1 .. work[s] - 1 \subseteq applied
           /\ Executing = {<<s, work[s]>>}
<1>1. work[s] \in Files /\ lock = s /\ 1 .. work[s] - 1 \subseteq applied
    BY DEF TypeOK, MigrationInv, LockIsHeld
<1>2. \A t \in Sessions : work[t] # 0 => t = s
    BY <1>1 DEF MigrationInv, LockIsHeld
<1> QED
    BY <1>1, <1>2 DEF Executing

\* A file is sent by the replica that holds the lock, when nothing is executed.
LEMMA ApplyBegins ==
    ASSUME TypeOK, MigrationInv, NEW r \in Replicas, Apply(r)
    PROVE  Schema!Next
<1> DEFINE s == conn[r]
           f == next[r]
<1>1. s \in Sessions /\ lock = s /\ work[s] = 0 /\ f \in Files /\ 1 .. f - 1 \subseteq applied
    BY DEF Apply, TypeOK, MigrationInv, SessionsAreOwned, LockIsHeld, LoopIsAhead
<1>2. \A t \in Sessions : work[t] = 0
    BY <1>1 DEF MigrationInv, LockIsHeld
<1>3. Executing = {}
    BY <1>2 DEF Executing
<1>4. /\ work'[s] = f
      /\ \A t \in Sessions \ {s} : work'[t] = 0
    BY <1>1, <1>2 DEF Apply, TypeOK
<1>5. f # 0
    BY <1>1
<1>6. Executing' = {<<s, f>>}
    BY <1>1, <1>4, <1>5 DEF Executing
<1>7. UNCHANGED <<applied, Serving>>
    BY DEF Apply, Serving
<1>8. Schema!Begin(s, f)
    BY <1>1, <1>3, <1>6, <1>7 DEF Schema!Begin
<1> QED
    BY <1>1, <1>8 DEF Schema!Next

\* A backend that stops executing a file has committed it or not.
LEMMA BackendEnds ==
    ASSUME TypeOK, MigrationInv, NEW s \in Sessions, work[s] # 0,
           work' = [work EXCEPT ![s] = 0],
           applied' \in {applied, applied \cup {work[s]}},
           UNCHANGED Serving
    PROVE  Schema!Next
<1>1. work[s] \in Files /\ lock = s /\ Executing = {<<s, work[s]>>}
    BY ExecutingIsOne
<1>2. \A t \in Sessions : work'[t] = 0
    BY <1>1 DEF TypeOK, MigrationInv, LockIsHeld
<1>3. Executing' = {}
    BY <1>2 DEF Executing
<1>4. Schema!End(s, work[s])
    BY <1>1, <1>3 DEF Schema!End
<1> QED
    BY <1>1, <1>4 DEF Schema!Next

\* Reaping a backend with nothing to do leaves the schema alone.
LEMMA ReapEnds ==
    ASSUME TypeOK, MigrationInv, NEW s \in Sessions, Reap(s)
    PROVE  [Schema!Next]_<<applied, Executing, Serving>>
<1>1. UNCHANGED Serving
    BY DEF Reap, Serving
<1>2. CASE work[s] # 0
    <2>1. Schema!Next
        BY <1>1, <1>2, BackendEnds DEF Reap
    <2> QED
        BY <2>1
<1>3. CASE work[s] = 0
    <2>1. work' = work /\ applied' = applied
        BY <1>3 DEF Reap, TypeOK
    <2> QED
        BY <1>1, <2>1 DEF Executing
<1> QED
    BY <1>2, <1>3

\* Only Wire makes a replica serve, and only over all the files; a replica that
\* ends serves no longer.
LEMMA ServeOrStop ==
    ASSUME TypeOK, MigrationInv, NEW r \in Replicas, UNCHANGED <<applied, work>>,
           \/ pc[r] = "wire" /\ pc' = [pc EXCEPT ![r] = "serve"]
           \/ pc' = [pc EXCEPT ![r] = "down"]
    PROVE  Schema!Next
<1>1. UNCHANGED <<applied, Executing>>
    BY DEF Executing
<1>2. CASE pc[r] = "wire" /\ pc' = [pc EXCEPT ![r] = "serve"]
    <2>1. applied = 1 .. NFiles
        BY <1>2 DEF MigrationInv, LoopIsAhead
    <2>2. Serving' = Serving \cup {r}
        BY <1>2 DEF Serving, Up, TypeOK
    <2>3. Schema!Serve(r)
        BY <1>1, <2>1, <2>2 DEF Schema!Serve
    <2> QED
        BY <2>3 DEF Schema!Next
<1>3. CASE pc' = [pc EXCEPT ![r] = "down"]
    <2>1. Serving' = Serving \ {r}
        BY <1>3 DEF Serving, Up, TypeOK
    <2>2. Schema!Stop(r)
        BY <1>1, <2>1 DEF Schema!Stop
    <2> QED
        BY <2>2 DEF Schema!Next
<1> QED
    BY <1>2, <1>3

LEMMA SchemaInit == Init => Schema!Init
BY DEF Init, Schema!Init, Executing, Serving, Up

LEMMA SchemaStep ==
    TypeOK /\ MigrationInv /\ [Next]_vars => [Schema!Next]_<<applied, Executing, Serving>>
<1> SUFFICES ASSUME TypeOK, MigrationInv, [Next]_vars
             PROVE  [Schema!Next]_<<applied, Executing, Serving>>
    OBVIOUS
<1> DEFINE Quiet == UNCHANGED <<applied, Executing, Serving>>
<1>1. ASSUME NEW r \in Replicas, Apply(r) PROVE Schema!Next
    BY <1>1, ApplyBegins
<1>2. ASSUME NEW r \in Replicas, Applied(r) PROVE Schema!Next
    <2>1. conn[r] \in Sessions /\ work[conn[r]] # 0
        BY <1>2 DEF Applied, TypeOK, MigrationInv, SessionsAreOwned
    <2>2. UNCHANGED Serving
        BY <1>2 DEF Applied, Goto, Serving, Up, TypeOK
    <2> QED
        BY <1>2, <2>1, <2>2, BackendEnds DEF Applied
<1>3. ASSUME NEW r \in Replicas, Unlock(r) \/ StartupTimeout(r)
      PROVE  Schema!Next \/ Quiet
    <2>1. UNCHANGED <<applied, work>>
        BY <1>3 DEF Unlock, StartupTimeout, database
    <2>2. CASE pc' = [pc EXCEPT ![r] = "down"]
        BY <2>1, <2>2, ServeOrStop
    <2>3. CASE pc[r] = "unlock" /\ pc' = [pc EXCEPT ![r] = "wire"]
        BY <2>1, <2>3 DEF Executing, Serving, Up, TypeOK
    <2> QED
        BY <1>3, <2>2, <2>3 DEF Unlock, StartupTimeout, Die, Goto
<1>4. ASSUME NEW r \in Replicas, Wire(r) \/ Exit(r) \/ Crash(r) PROVE Schema!Next
    BY <1>4, ServeOrStop DEF Wire, Exit, Crash, Die, Goto, database
<1>5. ASSUME NEW r \in Replicas, Start(r) \/ Acquire(r) \/ Lock(r) \/ Migrated(r)
      PROVE  Quiet
    <2>1. UNCHANGED <<applied, work>>
        BY <1>5 DEF Start, Acquire, Lock, Migrated, database
    <2>2. UNCHANGED Serving
        BY <1>5 DEF Start, Acquire, Lock, Migrated, Goto, Serving, Up, TypeOK
    <2> QED
        BY <2>1, <2>2 DEF Executing
<1>6. ASSUME NEW r \in Replicas,
             Signal(r) \/ HttpDrained(r) \/ GrpcDrained(r) \/ GrpcForced(r) \/ ClosePool(r)
      PROVE  Quiet
    <2>1. UNCHANGED <<applied, work>>
        BY <1>6 DEF Signal, HttpDrained, GrpcDrained, GrpcForced, ClosePool, database
    <2>2. UNCHANGED Serving
        BY <1>6 DEF Signal, HttpDrained, GrpcDrained, GrpcForced, ClosePool, Goto, Serving, Up,
                    TypeOK
    <2> QED
        BY <2>1, <2>2 DEF Executing
<1>7. ASSUME NEW r \in Replicas, NEW q \in Requests, Arrive(r, q) \/ Handle(r, q) PROVE Quiet
    BY <1>7 DEF Arrive, Handle, Query, QueryDone, Answer, QueryRefused, Executing, Serving, database
<1>8. ASSUME NEW r \in Replicas, Deadline(r) PROVE Quiet
    BY <1>8 DEF Deadline, Executing, Serving, database
<1>9. ASSUME NEW s \in Sessions, Reap(s) PROVE Schema!Next \/ Quiet
    BY <1>9, ReapEnds
<1>10. CASE UNCHANGED vars
    BY <1>10 DEF vars, Executing, Serving
<1> QED
    BY <1>1, <1>2, <1>3, <1>4, <1>5, <1>6, <1>7, <1>8, <1>9, <1>10 DEF Next, Migrate, Main

\* Whatever replicas start together, time out, die or come back, files are executed
\* one at a time and in order, nothing applied is taken back, and only the complete
\* schema is served over: the replicas implement Migrations.
THEOREM MigratesAsSpecified == Spec => MigrationsSpec
<1>1. Init => Schema!Init
    BY SchemaInit
<1>2. TypeOK /\ MigrationInv /\ [Next]_vars => [Schema!Next]_<<applied, Executing, Serving>>
    BY SchemaStep
<1>3. [Schema!Next]_<<applied, Executing, Serving>> => [Schema!Next]_Schema!vars
    BY DEF Schema!vars
<1> QED
    BY <1>1, <1>2, <1>3, MigrationSafe, PTL DEF Spec, MigrationsSpec, Schema!Spec

-----------------------------------------------------------------------------
LEMMA DrainInit == Init => DrainInv
BY DEF Init, DrainInv

LEMMA DrainStep == TypeOK /\ DrainInv /\ [Next]_vars => DrainInv'
<1> SUFFICES ASSUME TypeOK, DrainInv, [Next]_vars PROVE DrainInv'
    OBVIOUS
<1> USE DEF DrainInv, TypeOK, StartUp, Up, Goto, Accepting, database, migration, serving
<1>1. ASSUME NEW r \in Replicas, Start(r) PROVE DrainInv'
    BY <1>1 DEF Start
<1>2. ASSUME NEW r \in Replicas, Acquire(r) PROVE DrainInv'
    BY <1>2 DEF Acquire
<1>3. ASSUME NEW r \in Replicas, Lock(r) PROVE DrainInv'
    BY <1>3 DEF Lock
<1>4. ASSUME NEW r \in Replicas, Apply(r) PROVE DrainInv'
    BY <1>4 DEF Apply
<1>5. ASSUME NEW r \in Replicas, Applied(r) PROVE DrainInv'
    BY <1>5 DEF Applied
<1>6. ASSUME NEW r \in Replicas, Migrated(r) PROVE DrainInv'
    BY <1>6 DEF Migrated
<1>7. ASSUME NEW r \in Replicas, Unlock(r) PROVE DrainInv'
    BY <1>7 DEF Unlock, Die
<1>8. ASSUME NEW r \in Replicas, StartupTimeout(r) PROVE DrainInv'
    BY <1>8 DEF StartupTimeout, Die
<1>9. ASSUME NEW r \in Replicas, Wire(r) PROVE DrainInv'
    BY <1>9 DEF Wire
<1>10. ASSUME NEW r \in Replicas, HttpDrained(r) PROVE DrainInv'
    BY <1>10 DEF HttpDrained
<1>11. ASSUME NEW r \in Replicas, GrpcDrained(r) PROVE DrainInv'
    BY <1>11 DEF GrpcDrained
<1>12. ASSUME NEW r \in Replicas, GrpcForced(r) PROVE DrainInv'
    BY <1>12 DEF GrpcForced
<1>13. ASSUME NEW r \in Replicas, ClosePool(r) PROVE DrainInv'
    BY <1>13 DEF ClosePool
<1>14. ASSUME NEW r \in Replicas, Exit(r) PROVE DrainInv'
    BY <1>14 DEF Exit, Die
<1>15. ASSUME NEW r \in Replicas, Signal(r) PROVE DrainInv'
    BY <1>15 DEF Signal
<1>16. ASSUME NEW r \in Replicas, Deadline(r) PROVE DrainInv'
    BY <1>16 DEF Deadline
<1>17. ASSUME NEW r \in Replicas, Crash(r) PROVE DrainInv'
    BY <1>17 DEF Crash, Die
<1>18. ASSUME NEW r \in Replicas, NEW q \in Requests, Arrive(r, q) PROVE DrainInv'
    BY <1>18 DEF Arrive
<1>19. ASSUME NEW r \in Replicas, NEW q \in Requests, Query(r, q) PROVE DrainInv'
    BY <1>19 DEF Query
<1>20. ASSUME NEW r \in Replicas, NEW q \in Requests, QueryDone(r, q) PROVE DrainInv'
    BY <1>20 DEF QueryDone
<1>21. ASSUME NEW r \in Replicas, NEW q \in Requests, Answer(r, q) PROVE DrainInv'
    BY <1>21 DEF Answer
<1>22. ASSUME NEW r \in Replicas, NEW q \in Requests, QueryRefused(r, q) PROVE DrainInv'
    BY <1>22 DEF QueryRefused
<1>23. ASSUME NEW s \in Sessions, Reap(s) PROVE DrainInv'
    BY <1>23 DEF Reap
<1>24. CASE UNCHANGED vars
    BY <1>24 DEF vars
<1> QED
    BY <1>1, <1>2, <1>3, <1>4, <1>5, <1>6, <1>7, <1>8, <1>9, <1>10, <1>11, <1>12, <1>13, <1>14, <1>15, <1>16, <1>17, <1>18, <1>19, <1>20, <1>21, <1>22, <1>23, <1>24
        DEF Next, Migrate, Main, Handle

\* An orderly shutdown leaves a request unanswered only when shutCtx is over.
THEOREM DrainsGracefully == Spec => []DrainIsGraceful
<1>1. Init => DrainInv
    BY DrainInit
<1>2. TypeOK /\ DrainInv /\ [Next]_vars => DrainInv'
    BY DrainStep
<1>3. DrainInv => DrainIsGraceful
    BY DEF DrainInv, DrainIsGraceful
<1> QED
    BY <1>1, <1>2, <1>3, TypeCorrect, PTL DEF Spec

-----------------------------------------------------------------------------
(* What the liveness properties rest on *)

LEMMA LockEndStep == TypeOK /\ MigrationInv /\ LockHasAnEnd /\ [Next]_vars => LockHasAnEnd'
<1> SUFFICES ASSUME TypeOK, MigrationInv, LockHasAnEnd, [Next]_vars PROVE LockHasAnEnd'
    OBVIOUS
<1> USE DEF LockHasAnEnd, MigrationInv, SessionsAreOwned, LockIsHeld, TypeOK, StartUp, Up, Goto,
            database, migration, serving
<1>1. ASSUME NEW r \in Replicas, Start(r) PROVE LockHasAnEnd'
    BY <1>1 DEF Start
<1>2. ASSUME NEW r \in Replicas, Acquire(r) PROVE LockHasAnEnd'
    BY <1>2 DEF Acquire
<1>3. ASSUME NEW r \in Replicas, Lock(r) PROVE LockHasAnEnd'
    BY <1>3 DEF Lock
<1>4. ASSUME NEW r \in Replicas, Apply(r) PROVE LockHasAnEnd'
    BY <1>4 DEF Apply
<1>5. ASSUME NEW r \in Replicas, Applied(r) PROVE LockHasAnEnd'
    BY <1>5 DEF Applied
<1>6. ASSUME NEW r \in Replicas, Migrated(r) PROVE LockHasAnEnd'
    BY <1>6 DEF Migrated
<1>7. ASSUME NEW r \in Replicas, Unlock(r) PROVE LockHasAnEnd'
    BY <1>7 DEF Unlock, Die
<1>8. ASSUME NEW r \in Replicas, StartupTimeout(r) PROVE LockHasAnEnd'
    BY <1>8 DEF StartupTimeout, Die
<1>9. ASSUME NEW r \in Replicas, Wire(r) PROVE LockHasAnEnd'
    BY <1>9 DEF Wire
<1>10. ASSUME NEW r \in Replicas, HttpDrained(r) PROVE LockHasAnEnd'
    BY <1>10 DEF HttpDrained
<1>11. ASSUME NEW r \in Replicas, GrpcDrained(r) PROVE LockHasAnEnd'
    BY <1>11 DEF GrpcDrained
<1>12. ASSUME NEW r \in Replicas, GrpcForced(r) PROVE LockHasAnEnd'
    BY <1>12 DEF GrpcForced
<1>13. ASSUME NEW r \in Replicas, ClosePool(r) PROVE LockHasAnEnd'
    BY <1>13 DEF ClosePool
<1>14. ASSUME NEW r \in Replicas, Exit(r) PROVE LockHasAnEnd'
    BY <1>14 DEF Exit, Die
<1>15. ASSUME NEW r \in Replicas, Signal(r) PROVE LockHasAnEnd'
    BY <1>15 DEF Signal
<1>16. ASSUME NEW r \in Replicas, Deadline(r) PROVE LockHasAnEnd'
    BY <1>16 DEF Deadline
<1>17. ASSUME NEW r \in Replicas, Crash(r) PROVE LockHasAnEnd'
    BY <1>17 DEF Crash, Die
<1>18. ASSUME NEW r \in Replicas, NEW q \in Requests, Arrive(r, q) PROVE LockHasAnEnd'
    BY <1>18 DEF Arrive
<1>19. ASSUME NEW r \in Replicas, NEW q \in Requests, Query(r, q) PROVE LockHasAnEnd'
    BY <1>19 DEF Query
<1>20. ASSUME NEW r \in Replicas, NEW q \in Requests, QueryDone(r, q) PROVE LockHasAnEnd'
    BY <1>20 DEF QueryDone
<1>21. ASSUME NEW r \in Replicas, NEW q \in Requests, Answer(r, q) PROVE LockHasAnEnd'
    BY <1>21 DEF Answer
<1>22. ASSUME NEW r \in Replicas, NEW q \in Requests, QueryRefused(r, q) PROVE LockHasAnEnd'
    BY <1>22 DEF QueryRefused
<1>23. ASSUME NEW s \in Sessions, Reap(s) PROVE LockHasAnEnd'
    BY <1>23 DEF Reap
<1>24. CASE UNCHANGED vars
    BY <1>24 DEF vars
<1> QED
    BY <1>1, <1>2, <1>3, <1>4, <1>5, <1>6, <1>7, <1>8, <1>9, <1>10, <1>11, <1>12, <1>13,
       <1>14, <1>15, <1>16, <1>17, <1>18, <1>19, <1>20, <1>21, <1>22, <1>23, <1>24
        DEF Next, Migrate, Main, Handle

\* Whoever dies, the advisory lock is always held either by a replica that will
\* release it or by a session without a client, whose backend will.
THEOREM LockCanBeFreed == Spec => []LockHasAnEnd
<1>1. Init => LockHasAnEnd
    BY DEF Init, LockHasAnEnd
<1>2. (TypeOK /\ MigrationInv) /\ LockHasAnEnd /\ [Next]_vars => LockHasAnEnd'
    BY LockEndStep
<1> QED
    BY <1>1, <1>2, MigrationSafe, PTL DEF Spec

LEMMA CloseStep ==
    TypeOK /\ CloseInv /\ [Next]_vars =>
        /\ CloseInv'
        /\ \A r \in Replicas : pc[r] = "close" => query'[r] \subseteq query[r]
<1> DEFINE Closing == \A r \in Replicas : pc[r] = "close" => query'[r] \subseteq query[r]
<1> SUFFICES ASSUME TypeOK, CloseInv, [Next]_vars PROVE CloseInv' /\ Closing
    OBVIOUS
<1> USE DEF CloseInv, TypeOK, StartUp, Up, Goto, Accepting, database, migration, serving
<1>1. ASSUME NEW r \in Replicas, Start(r) PROVE CloseInv' /\ Closing
    BY <1>1 DEF Start
<1>2. ASSUME NEW r \in Replicas, Acquire(r) PROVE CloseInv' /\ Closing
    BY <1>2 DEF Acquire
<1>3. ASSUME NEW r \in Replicas, Lock(r) PROVE CloseInv' /\ Closing
    BY <1>3 DEF Lock
<1>4. ASSUME NEW r \in Replicas, Apply(r) PROVE CloseInv' /\ Closing
    BY <1>4 DEF Apply
<1>5. ASSUME NEW r \in Replicas, Applied(r) PROVE CloseInv' /\ Closing
    BY <1>5 DEF Applied
<1>6. ASSUME NEW r \in Replicas, Migrated(r) PROVE CloseInv' /\ Closing
    BY <1>6 DEF Migrated
<1>7. ASSUME NEW r \in Replicas, Unlock(r) PROVE CloseInv' /\ Closing
    BY <1>7 DEF Unlock, Die
<1>8. ASSUME NEW r \in Replicas, StartupTimeout(r) PROVE CloseInv' /\ Closing
    BY <1>8 DEF StartupTimeout, Die
<1>9. ASSUME NEW r \in Replicas, Wire(r) PROVE CloseInv' /\ Closing
    BY <1>9 DEF Wire
<1>10. ASSUME NEW r \in Replicas, HttpDrained(r) PROVE CloseInv' /\ Closing
    BY <1>10 DEF HttpDrained
<1>11. ASSUME NEW r \in Replicas, GrpcDrained(r) PROVE CloseInv' /\ Closing
    BY <1>11 DEF GrpcDrained
<1>12. ASSUME NEW r \in Replicas, GrpcForced(r) PROVE CloseInv' /\ Closing
    BY <1>12 DEF GrpcForced
<1>13. ASSUME NEW r \in Replicas, ClosePool(r) PROVE CloseInv' /\ Closing
    BY <1>13 DEF ClosePool
<1>14. ASSUME NEW r \in Replicas, Exit(r) PROVE CloseInv' /\ Closing
    BY <1>14 DEF Exit, Die
<1>15. ASSUME NEW r \in Replicas, Signal(r) PROVE CloseInv' /\ Closing
    BY <1>15 DEF Signal
<1>16. ASSUME NEW r \in Replicas, Deadline(r) PROVE CloseInv' /\ Closing
    BY <1>16 DEF Deadline
<1>17. ASSUME NEW r \in Replicas, Crash(r) PROVE CloseInv' /\ Closing
    BY <1>17 DEF Crash, Die
<1>18. ASSUME NEW r \in Replicas, NEW q \in Requests, Arrive(r, q) PROVE CloseInv' /\ Closing
    BY <1>18 DEF Arrive
<1>19. ASSUME NEW r \in Replicas, NEW q \in Requests, Query(r, q) PROVE CloseInv' /\ Closing
    BY <1>19 DEF Query
<1>20. ASSUME NEW r \in Replicas, NEW q \in Requests, QueryDone(r, q) PROVE CloseInv' /\ Closing
    BY <1>20 DEF QueryDone
<1>21. ASSUME NEW r \in Replicas, NEW q \in Requests, Answer(r, q) PROVE CloseInv' /\ Closing
    BY <1>21 DEF Answer
<1>22. ASSUME NEW r \in Replicas, NEW q \in Requests, QueryRefused(r, q) PROVE CloseInv' /\ Closing
    BY <1>22 DEF QueryRefused
<1>23. ASSUME NEW s \in Sessions, Reap(s) PROVE CloseInv' /\ Closing
    BY <1>23 DEF Reap
<1>24. CASE UNCHANGED vars
    BY <1>24 DEF vars
<1> QED
    BY <1>1, <1>2, <1>3, <1>4, <1>5, <1>6, <1>7, <1>8, <1>9, <1>10, <1>11, <1>12, <1>13,
       <1>14, <1>15, <1>16, <1>17, <1>18, <1>19, <1>20, <1>21, <1>22, <1>23, <1>24
        DEF Next, Migrate, Main, Handle

\* From pool.Close on, connections only come back, and none of those it waits for
\* belongs to an RPC that nobody has cancelled.
THEOREM CloseOnlyWaits == Spec => NoNewQueries
<1>1. Init => CloseInv
    BY DEF Init, CloseInv
<1>2. TypeOK /\ CloseInv /\ [Next]_vars =>
          CloseInv' /\ \A r \in Replicas : pc[r] = "close" => query'[r] \subseteq query[r]
    BY CloseStep
<1>3. CloseInv => \A r \in Replicas : pc[r] = "close" => query[r] \cap inflight[r] \cap Grpc = {}
    BY DEF CloseInv
<1>4. TypeOK /\ CloseInv /\ [Next]_vars =>
          [\A r \in Replicas : pc[r] = "close" =>
              /\ query'[r] \subseteq query[r]
              /\ query[r] \cap inflight[r] \cap Grpc = {}]_vars
    BY <1>2, <1>3
<1> QED
    BY <1>1, <1>2, <1>4, TypeCorrect, PTL DEF Spec, NoNewQueries
=============================================================================
