------------------------------- MODULE Server -------------------------------
(***************************************************************************)
(* cmd/server and postgres.Migrate: the life of several replicas over one  *)
(* PostgreSQL database.  A replica starts, migrates the schema under an    *)
(* advisory lock, serves HTTP and gRPC, and on SIGTERM drains both before  *)
(* it closes the connection pool.  It may die at any moment; the database  *)
(* session it was using lives on until the backend notices.                *)
(*                                                                         *)
(* One action is one call main() waits for.  A migration file is one Exec  *)
(* and so one transaction of a backend.  Requests are only what a shutdown *)
(* needs to know of them: in flight, and holding a pooled connection or    *)
(* not.  With the memory adapter the database steps are skipped, which is  *)
(* not modelled; neither are log lines, metrics and the schema itself.     *)
(***************************************************************************)
EXTENDS Naturals, FiniteSets

CONSTANTS
    Replicas,
    Http, Grpc,    \* requests of either protocol a replica may have in flight
    Sessions,      \* database sessions Migrate may get from the pool
    None,
    NFiles,        \* migration files, by their rank in lexical order
    MaxConns       \* DB_POOL_MAX_CONNS

ASSUME SetsAssumption == None \notin Sessions /\ Http \cap Grpc = {}
ASSUME NumbersAssumption == NFiles \in Nat /\ MaxConns \in Nat \ {0}

Files == 1 .. NFiles
Requests == Http \cup Grpc

VARIABLES
    applied,    \* migration files whose transaction is committed
    lock,       \* session that holds the advisory lock
    open,       \* sessions whose backend runs
    work,       \* file a backend is executing, 0 when none
    pc,         \* what main() is doing
    conn,       \* session of Migrate
    next,       \* its loop over the files
    failed,     \* Migrate is about to return an error
    timer,      \* startupCtx, then shutCtx
    pool,       \* pgxpool.Pool
    inflight,   \* requests that wait for an answer
    query,      \* requests whose goroutine holds a pooled connection
    dropped     \* history: requests the last orderly shutdown left unanswered

database == <<applied, lock, open, work>>
migration == <<conn, next, failed>>
serving == <<inflight, query, dropped>>
vars == <<applied, lock, open, work, pc, conn, next, failed, timer, pool,
          inflight, query, dropped>>

StartUp == {"acquire", "lock", "migrate", "unlock", "wire"}
Up == {"serve", "http", "grpc", "trace", "close"}

TypeOK ==
    /\ applied \subseteq Files
    /\ lock \in Sessions \cup {None}
    /\ open \subseteq Sessions
    /\ work \in [Sessions -> 0 .. NFiles]
    /\ pc \in [Replicas -> {"down"} \cup StartUp \cup Up]
    /\ conn \in [Replicas -> Sessions \cup {None}]
    /\ next \in [Replicas -> 1 .. NFiles + 1]
    /\ failed \in [Replicas -> BOOLEAN]
    /\ timer \in [Replicas -> {"off", "running", "over"}]
    /\ pool \in [Replicas -> {"none", "open", "closed"}]
    /\ inflight \in [Replicas -> SUBSET Requests]
    /\ query \in [Replicas -> SUBSET Requests]
    /\ dropped \in [Replicas -> SUBSET Requests]

-----------------------------------------------------------------------------
(* Start-up *)

Goto(r, s) == pc' = [pc EXCEPT ![r] = s]

\* Configuration, logger, Redis client and pool; startupCtx begins.
Start(r) ==
    /\ pc[r] = "down"
    /\ Goto(r, "acquire")
    /\ timer' = [timer EXCEPT ![r] = "running"]
    /\ pool' = [pool EXCEPT ![r] = "open"]
    /\ dropped' = [dropped EXCEPT ![r] = {}]
    /\ UNCHANGED <<database, migration, inflight, query>>

\* Migrate: a connection from the pool, that is, a new session.
Acquire(r) ==
    /\ pc[r] = "acquire"
    /\ \E s \in Sessions \ open :
          /\ open' = open \cup {s}
          /\ conn' = [conn EXCEPT ![r] = s]
    /\ Goto(r, "lock")
    /\ UNCHANGED <<applied, lock, work, next, failed, timer, pool, serving>>

\* Faulty variant: pg_try_advisory_lock, and its answer ignored.
LockTried(r) ==
    /\ pc[r] = "lock"
    /\ lock' = IF lock = None THEN conn[r] ELSE lock
    /\ Goto(r, "migrate")
    /\ next' = [next EXCEPT ![r] = 1]
    /\ failed' = [failed EXCEPT ![r] = FALSE]
    /\ UNCHANGED <<applied, open, work, conn, timer, pool, serving>>

\* pg_advisory_lock waits until no session holds the lock.
Lock(r) ==
    /\ pc[r] = "lock"
    /\ lock = None
    /\ lock' = conn[r]
    /\ Goto(r, "migrate")
    /\ next' = [next EXCEPT ![r] = 1]
    /\ failed' = [failed EXCEPT ![r] = FALSE]
    /\ UNCHANGED <<applied, open, work, conn, timer, pool, serving>>

\* Faulty variant: the names are applied in the order of the directory.
ApplyUnsorted(r) ==
    /\ pc[r] = "migrate"
    /\ next[r] <= NFiles
    /\ work[conn[r]] = 0
    /\ \E f \in Files : work' = [work EXCEPT ![conn[r]] = f]
    /\ UNCHANGED <<applied, lock, open, pc, migration, timer, pool, serving>>

\* The next file is sent, whether it has been applied before or not.
Apply(r) ==
    /\ pc[r] = "migrate"
    /\ next[r] <= NFiles
    /\ work[conn[r]] = 0
    /\ work' = [work EXCEPT ![conn[r]] = next[r]]
    /\ UNCHANGED <<applied, lock, open, pc, migration, timer, pool, serving>>

\* The backend commits the file and answers, or rolls it back and the error ends
\* the loop.
Applied(r) ==
    /\ pc[r] = "migrate"
    /\ work[conn[r]] # 0
    /\ work' = [work EXCEPT ![conn[r]] = 0]
    /\ \/ /\ applied' = applied \cup {work[conn[r]]}
          /\ next' = [next EXCEPT ![r] = @ + 1]
          /\ UNCHANGED <<pc, failed>>
       \/ /\ Goto(r, "unlock")
          /\ failed' = [failed EXCEPT ![r] = TRUE]
          /\ UNCHANGED <<applied, next>>
    /\ UNCHANGED <<lock, open, conn, timer, pool, serving>>

\* Faulty variant: the loop leaves out the last file.
MigratedButOne(r) ==
    /\ pc[r] = "migrate"
    /\ next[r] >= NFiles
    /\ work[conn[r]] = 0
    /\ Goto(r, "unlock")
    /\ UNCHANGED <<database, migration, timer, pool, serving>>

Migrated(r) ==
    /\ pc[r] = "migrate"
    /\ next[r] > NFiles
    /\ Goto(r, "unlock")
    /\ UNCHANGED <<database, migration, timer, pool, serving>>

\* The process ends, and what it had is gone; a session Migrate is using is left
\* to its backend.
Die(r) ==
    /\ Goto(r, "down")
    /\ conn' = [conn EXCEPT ![r] = None]
    /\ pool' = [pool EXCEPT ![r] = "none"]
    /\ inflight' = [inflight EXCEPT ![r] = {}]
    /\ query' = [query EXCEPT ![r] = {}]

\* Faulty variant: Release without the unlock; the pool keeps the session.
UnlockForgotten(r) ==
    /\ pc[r] = "unlock"
    /\ \/ ~failed[r] /\ Goto(r, "wire") /\ UNCHANGED <<conn, pool, inflight, query>>
       \/ failed[r] /\ Die(r)
    /\ UNCHANGED <<database, next, failed, timer, dropped>>

\* The deferred pg_advisory_unlock and Release; then main goes on, or log.Fatal.
Unlock(r) ==
    /\ pc[r] = "unlock"
    /\ lock' = IF lock = conn[r] THEN None ELSE lock
    /\ open' = open \ {conn[r]}
    /\ \/ /\ ~failed[r]
          /\ Goto(r, "wire")
          /\ conn' = [conn EXCEPT ![r] = None]
          /\ UNCHANGED <<pool, inflight, query>>
       \/ failed[r] /\ Die(r)
    /\ UNCHANGED <<applied, work, next, failed, timer, dropped>>

\* Faulty variant: the work before serving has no deadline.
NoStartupTimeout(r) == FALSE /\ UNCHANGED vars

\* startupCtx ends while Migrate waits for a connection, the lock or a file: pgx
\* closes the connection, the deferred unlock fails, and the error is fatal.
StartupTimeout(r) ==
    /\ pc[r] \in {"acquire", "lock", "migrate", "unlock"}
    /\ timer[r] = "over"
    /\ Die(r)
    /\ UNCHANGED <<database, next, failed, timer, dropped>>

\* Keys, use cases, router, the gRPC listener, signal.Notify, both servers.
Wire(r) ==
    /\ pc[r] = "wire"
    /\ Goto(r, "serve")
    /\ UNCHANGED <<database, migration, timer, pool, serving>>

-----------------------------------------------------------------------------
(* Requests *)

\* gRPC is accepted until GracefulStop, HTTP until Shutdown.
Accepting(r, q) == pc[r] = "serve" \/ (pc[r] = "http" /\ q \in Grpc)

Arrive(r, q) ==
    /\ Accepting(r, q)
    /\ q \notin inflight[r] \cup query[r]
    /\ inflight' = [inflight EXCEPT ![r] = @ \cup {q}]
    /\ UNCHANGED <<database, pc, migration, timer, pool, query, dropped>>

\* The handler takes a connection from the pool.
Query(r, q) ==
    /\ q \in inflight[r] \ query[r]
    /\ pool[r] = "open"
    /\ Cardinality(query[r]) < MaxConns
    /\ query' = [query EXCEPT ![r] = @ \cup {q}]
    /\ UNCHANGED <<database, pc, migration, timer, pool, inflight, dropped>>

\* It gives the connection back: the query is answered, or its context is over.
QueryDone(r, q) ==
    /\ q \in query[r]
    /\ query' = [query EXCEPT ![r] = @ \ {q}]
    /\ UNCHANGED <<database, pc, migration, timer, pool, inflight, dropped>>

Answer(r, q) ==
    /\ q \in inflight[r] \ query[r]
    /\ inflight' = [inflight EXCEPT ![r] = @ \ {q}]
    /\ UNCHANGED <<database, pc, migration, timer, pool, query, dropped>>

\* The pool is closed when the handler needs it: the client sees an error.
QueryRefused(r, q) ==
    /\ q \in inflight[r] \ query[r]
    /\ pool[r] = "closed"
    /\ inflight' = [inflight EXCEPT ![r] = @ \ {q}]
    /\ dropped' = [dropped EXCEPT ![r] = @ \cup {q}]
    /\ UNCHANGED <<database, pc, migration, timer, pool, query>>

-----------------------------------------------------------------------------
(* Shutdown *)

\* SIGINT or SIGTERM after signal.Notify; shutCtx begins.  Before, it kills.
Signal(r) ==
    /\ pc[r] = "serve"
    /\ Goto(r, "http")
    /\ timer' = [timer EXCEPT ![r] = "running"]
    /\ UNCHANGED <<database, migration, pool, serving>>

\* Faulty variant: Close in place of Shutdown.
HttpClosed(r) ==
    /\ pc[r] = "http"
    /\ Goto(r, "grpc")
    /\ inflight' = [inflight EXCEPT ![r] = @ \ Http]
    /\ dropped' = [dropped EXCEPT ![r] = @ \cup (inflight[r] \cap Http)]
    /\ UNCHANGED <<database, migration, timer, pool, query>>

\* srv.Shutdown returns: every HTTP request is answered, or shutCtx is over.
HttpDrained(r) ==
    /\ pc[r] = "http"
    /\ inflight[r] \cap Http = {} \/ timer[r] = "over"
    /\ Goto(r, "grpc")
    /\ UNCHANGED <<database, migration, timer, pool, serving>>

\* GracefulStop has returned.
GrpcDrained(r) ==
    /\ pc[r] = "grpc"
    /\ inflight[r] \cap Grpc = {}
    /\ Goto(r, "trace")
    /\ UNCHANGED <<database, migration, timer, pool, serving>>

\* Faulty variant: GracefulStop is waited for without the deadline.
GrpcNotForced(r) == FALSE /\ UNCHANGED vars

\* shutCtx is over first: Stop closes the connections and cancels the RPCs, whose
\* goroutines then give their database connections back.
GrpcForced(r) ==
    /\ pc[r] = "grpc"
    /\ timer[r] = "over"
    /\ Goto(r, "trace")
    /\ inflight' = [inflight EXCEPT ![r] = @ \ Grpc]
    /\ dropped' = [dropped EXCEPT ![r] = @ \cup (inflight[r] \cap Grpc)]
    /\ UNCHANGED <<database, migration, timer, pool, query>>

\* shutTrace returns; main returns, and its deferred pool.Close refuses Acquire.
ClosePool(r) ==
    /\ pc[r] = "trace"
    /\ Goto(r, "close")
    /\ pool' = [pool EXCEPT ![r] = "closed"]
    /\ UNCHANGED <<database, migration, timer, serving>>

\* pool.Close has every connection back, and the process ends.
Exit(r) ==
    /\ pc[r] = "close"
    /\ query[r] = {}
    /\ Die(r)
    /\ dropped' = [dropped EXCEPT ![r] = @ \cup inflight[r]]
    /\ UNCHANGED <<database, next, failed, timer>>

-----------------------------------------------------------------------------
(* Time, failures and the database *)

\* The context main() waits with is over.
Deadline(r) ==
    /\ pc[r] # "down"
    /\ timer[r] = "running"
    /\ timer' = [timer EXCEPT ![r] = "over"]
    /\ UNCHANGED <<database, pc, migration, pool, serving>>

\* The process is killed, or log.Fatal ends it: no deferred call runs.
Crash(r) ==
    /\ pc[r] # "down"
    /\ Die(r)
    /\ UNCHANGED <<database, next, failed, timer, dropped>>

\* A backend without a client: it commits the file it is executing or rolls it
\* back, ends, and its session's lock is released.
Reap(s) ==
    /\ s \in open
    /\ \A r \in Replicas : conn[r] # s
    /\ \/ work[s] # 0 /\ applied' = applied \cup {work[s]}
       \/ UNCHANGED applied
    /\ work' = [work EXCEPT ![s] = 0]
    /\ open' = open \ {s}
    /\ lock' = IF lock = s THEN None ELSE lock
    /\ UNCHANGED <<pc, migration, timer, pool, serving>>

-----------------------------------------------------------------------------
Init ==
    /\ applied = {}
    /\ lock = None
    /\ open = {}
    /\ work = [s \in Sessions |-> 0]
    /\ pc = [r \in Replicas |-> "down"]
    /\ conn = [r \in Replicas |-> None]
    /\ next = [r \in Replicas |-> 1]
    /\ failed = [r \in Replicas |-> FALSE]
    /\ timer = [r \in Replicas |-> "off"]
    /\ pool = [r \in Replicas |-> "none"]
    /\ inflight = [r \in Replicas |-> {}]
    /\ query = [r \in Replicas |-> {}]
    /\ dropped = [r \in Replicas |-> {}]

\* What the database answers Migrate.
Migrate(r) == Acquire(r) \/ Lock(r) \/ Apply(r) \/ Applied(r) \/ Migrated(r) \/ Unlock(r)

\* What main() does by itself.
Main(r) ==
    \/ StartupTimeout(r)
    \/ Wire(r)
    \/ HttpDrained(r)
    \/ GrpcDrained(r)
    \/ GrpcForced(r)
    \/ ClosePool(r)
    \/ Exit(r)

Handle(r, q) == Query(r, q) \/ QueryDone(r, q) \/ Answer(r, q) \/ QueryRefused(r, q)

Next ==
    \/ \E r \in Replicas :
          \/ Start(r)
          \/ Migrate(r)
          \/ Main(r)
          \/ Signal(r)
          \/ Deadline(r)
          \/ Crash(r)
          \/ \E q \in Requests : Arrive(r, q) \/ Handle(r, q)
    \/ \E s \in Sessions : Reap(s)

Spec == Init /\ [][Next]_vars

\* main() runs on, deadlines pass, backends notice that their client is gone, and
\* a query that HTTP has sent or Stop has cancelled comes back.  The database may
\* leave Migrate waiting, and an RPC may never end by itself.
FairSpec ==
    /\ Spec
    /\ \A r \in Replicas :
          /\ WF_vars(Main(r)) /\ WF_vars(Deadline(r))
          /\ \A q \in Http : WF_vars(QueryDone(r, q))
          /\ \A q \in Grpc : WF_vars(q \notin inflight[r] /\ QueryDone(r, q))
    /\ \A s \in Sessions : WF_vars(Reap(s))

-----------------------------------------------------------------------------
(* Properties *)

\* A replica serves only over a complete schema, whichever replica applied it and
\* however many died on the way.
ServesMigrated == \A r \in Replicas : pc[r] \in Up => applied = Files

\* "multiple replicas starting concurrently apply migrations one at a time", those
\* of replicas that are dead but still have a backend at work included.
OneMigrator == \A s, t \in open : work[s] # 0 /\ work[t] # 0 => s = t

\* "in lexical filename order": the schema is always the result of a prefix of the
\* files, though each replica starts over and may die between two.
SchemaIsPrefix == \A f \in applied : 1 .. f \subseteq applied

\* Together: the schema and who serves over it behave as Migrations says.
Executing == {<<s, work[s]>> : s \in {t \in Sessions : work[t] # 0}}

Serving == {r \in Replicas : pc[r] \in Up}

Schema == INSTANCE Migrations WITH
    schema <- applied, running <- Executing, serving <- Serving

MigrationsSpec == Schema!Spec

\* An orderly shutdown leaves a request unanswered only after the deadline: HTTP
\* and gRPC are drained before the pool and the process go.
DrainIsGraceful == \A r \in Replicas : dropped[r] # {} => timer[r] = "over"

\* "a stalled database or migration cannot hang main() indefinitely".
StartUpEnds == \A r \in Replicas : pc[r] \in StartUp ~> pc[r] \notin StartUp

\* "a stuck stream cannot hang process shutdown forever", though pool.Close waits
\* for the connection its handler holds.
ShutdownEnds == \A r \in Replicas : pc[r] = "http" ~> pc[r] = "down"

\* The advisory lock outlives its replica, but not for ever.
LockIsFreed == lock # None ~> lock = None
-----------------------------------------------------------------------------
(* Inductive invariant *)

\* A session of a replica is open and its own.
SessionsAreOwned ==
    /\ \A r \in Replicas :
          /\ pc[r] \in {"lock", "migrate", "unlock"} => conn[r] # None
          /\ conn[r] # None => conn[r] \in open
    /\ \A r, q \in Replicas : conn[r] = conn[q] /\ conn[r] # None => r = q

\* The lock is held while the loop runs, and by any backend still executing a
\* file, which is the next one of a prefix.
LockIsHeld ==
    /\ \A r \in Replicas : pc[r] \in {"migrate", "unlock"} => lock = conn[r]
    /\ \A s \in Sessions : work[s] # 0 =>
          /\ s \in open
          /\ lock = s
          /\ 1 .. work[s] - 1 \subseteq applied

\* How far a replica's own loop has come.
LoopIsAhead ==
    \A r \in Replicas :
        /\ pc[r] = "migrate" => /\ 1 .. next[r] - 1 \subseteq applied
                                /\ work[conn[r]] \in {0, next[r]}
        /\ pc[r] = "unlock" => /\ work[conn[r]] = 0
                               /\ ~failed[r] => applied = Files
        /\ pc[r] = "wire" => applied = Files

MigrationInv == SessionsAreOwned /\ LockIsHeld /\ LoopIsAhead /\ ServesMigrated /\ SchemaIsPrefix

\* What LockIsFreed rests on: the lock's session is open and used by a replica that
\* is about to release it, or by none, and then its backend will notice.
LockHasAnEnd ==
    lock # None =>
        /\ lock \in open
        /\ \A r \in Replicas : conn[r] = lock => pc[r] \in {"migrate", "unlock"}

\* What ShutdownEnds rests on: pool.Close waits only for connections that were
\* taken before, none of them for an RPC that Stop has left running.
NoNewQueries ==
    [][\A r \in Replicas : pc[r] = "close" =>
          /\ query'[r] \subseteq query[r]
          /\ query[r] \cap inflight[r] \cap Grpc = {}]_vars

CloseInv ==
    \A r \in Replicas :
        /\ pc[r] = "close" => pool[r] = "closed"
        /\ pc[r] \in {"trace", "close"} => inflight[r] \cap Grpc = {}

\* What a replica that keeps its deadline has drained at each step.
DrainInv ==
    \A r \in Replicas :
        /\ pc[r] \in StartUp \cup {"serve"} => dropped[r] = {}
        /\ pool[r] = "closed" => pc[r] = "close"
        /\ timer[r] # "over" =>
              /\ dropped[r] = {}
              /\ pc[r] \in {"grpc", "trace", "close"} => inflight[r] \cap Http = {}
              /\ pc[r] \in {"trace", "close"} => inflight[r] \cap Grpc = {}
=============================================================================
