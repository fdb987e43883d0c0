# A TLA+ model of go-enterprise-boilerplate

The repository is a Go service that manages user accounts and sessions over
REST and gRPC, with PostgreSQL for the accounts, Redis for the refresh tokens
and an in-memory adapter for both stores. This directory holds TLA+ models of
its stateful parts, TLC configurations that check them on small instances, and
TLAPS proofs of their invariants for all instances. `PROJECT.json` relates every
definition to the lines of code it models, and lists the runs, the theorems, the
hazards the properties are aimed at and the disagreements found on the way.

Run a check with `tlc -config MCAccounts.cfg MCAccounts` and a proof with
`tlapm AccountsProofs.tla`.

## 1. The system

| Part | Code (under `src/`) | State | Operations |
|---|---|---|---|
| User accounts | `internal/application/usecase/{register_user,update_profile,change_password,change_role}.go`, `internal/infrastructure/persistence/postgres` | table `users` with `UNIQUE(email)` and a partial unique index on the role owner | register, update profile, change password, change role; `Save` (an upsert of the whole row), `SaveFirstOwner` |
| Refresh tokens | `internal/infrastructure/security/jwt_service.go`, `usecase/{login_user,refresh_token}.go` | Redis keys `refresh:<t>`, `user-refresh:<u>:<t>`, `used-refresh:<t>`, each with a TTL | `GeneratePair`, `RedeemRefreshToken`, `RevokeAllRefreshTokens` |
| Resilience | `internal/infrastructure/resilience` | breaker: state, consecutive failures, `openedAt`, `probeInFlight`, under one mutex | `AllowRequest`, `RecordSuccess`, `RecordFailure`, `CallWithResilience`, `RetryWithBackoff` |
| Audit log | `internal/infrastructure/audit` | append-only table or slice | `Record`, whose errors are only logged |
| In-memory repository | `internal/infrastructure/persistence/memory` | map from id to `*entity.User` under a RWMutex | as the PostgreSQL repository |
| Rate limiting | `internal/interface/http/middleware/rate_limit.go` | map from key to token bucket and `lastSeen` | `get`, `cleanupLoop` |
| HTTP and gRPC interfaces | `internal/interface` | none between requests | authentication, dispatch, error mapping |
| Reading users | `usecase/{list_users,get_user}.go` | none | pages, access by role |
| Migrations | `internal/infrastructure/persistence/postgres/migrate.go` | advisory lock, schema | `Migrate` |
| Start-up, shutdown | `cmd/server/main.go` | the two servers, a common deadline | wiring, `Shutdown`, `GracefulStop` |
| Value objects, hashing, configuration, telemetry | `internal/domain`, `internal/config`, `internal/infrastructure/{security,telemetry}` | none | validation, Argon2, environment, exporters |

How they interact. A request is a goroutine of net/http or grpc-go. The
middleware (rate limit, `RequireAuth`, which reads the account) hands it to a use
case; the use case reads and writes accounts through the repository, each access
being one SQL statement of its own (no use case opens a transaction), runs the
token service, and records an audit event. Every Redis command goes through
`CallWithResilience`, and all requests share one breaker. Requests share nothing
else: what happens between two accesses of one request is decided by the
database, Redis and the breaker.

What is hard:

- *Accounts.* Read, modify, write the whole row, without a version: anything
  committed in between is overwritten. Registrations race for the ownership and
  for an e-mail. `SaveFirstOwner` reads every unique violation as "an owner
  exists". Correct is: one owner for ever, who exists as soon as anybody does; no
  role that was not granted; an audit log that tells the truth; no unexpected
  unique violation.
- *Refresh tokens.* A token is two keys and later a tombstone, changed by
  separate commands of concurrent requests, any of which may fail, or be
  executed and lose its reply, and be retried. Revocation walks a SCAN while
  others add and remove keys. Correct is: a token is spent once and never works
  again; it has at most one successor; revocation can find every live token;
  reuse is reported for replays only, and then kills the user's sessions;
  every request ends.
- *Resilience.* Outcomes are recorded by calls admitted in another state of the
  circuit. Correct is: fields agree; a pending probe has somebody who will
  settle it; an open circuit is probed again.
- *In-memory repository.* Pointers to stored objects escape the lock, so requests
  change the same object at once; uniqueness is not enforced, although
  `docs/architecture.md:161` treats the adapters as interchangeable. Correct is
  what remains: owners come only from a claim or an owner's decision, and no save
  undoes what another request did.
- *Rate limiting.* An entry is thrown away with what its bucket has left, and made again
  full, while requests hold pointers to buckets outside the lock. Correct is: the
  rate holds over any stretch of time and nobody notices an eviction.
- *Interfaces.* Two transports must admit the same callers to the same use cases;
  `ListUsers` is missing from gRPC's `methodsRequiringAuth`.
- *Listing.* Page and total come from two statements, pages shift while accounts are
  registered, the number of pages is cut to 32 bits. Correct is: who reads to the
  last page has seen everybody.
- *Migrations, shutdown.* Several replicas at once, a crash half-way, a lock that
  outlives its holder; two servers that drain under one deadline, over a pool whose
  `Close` waits. Correct is: only complete schemas are served, migrations are serial,
  start-up and shutdown end, and a shutdown in time loses no request.

`PROJECT.json` lists these at their lines under `hazards`, each with the
properties that would catch it, or the reason why none does yet.

## 2. Modules

| Module | What it is | Extended by |
|---|---|---|
| `Accounts` | users table, audit log, the four use cases that write | `MCAccounts`, `AccountsProofs` |
| `AccountRoles` | abstract: how roles may change | (instantiated by `Accounts` and `AccessControl`) |
| `SessionTokens` | abstract: what clients are promised about refresh tokens | (instantiated by `RefreshTokens`) |
| `RefreshTokens` | Redis keys, login and refresh requests, faults | `MCRefreshTokens`, `RefreshTokensProofs` |
| `AccessControl` | access tokens, `RequireAuth` and the gRPC interceptor, the handlers of users with their checks | `MCAccessControl`, `AccessControlProofs` |
| `CircuitBreaker` | breaker, retry loop, their callers | `MCCircuitBreaker`, `CircuitBreakerProofs` |
| `Circuit` | abstract: the circuit of `circuit_breaker.go`'s comment and its callers | (instantiated by `CircuitBreaker`) |
| `TokenBuckets` | abstract: a bucket for every key, for ever | (instantiated by `RateLimiter`) |
| `RateLimiter` | the map of buckets, its cleanup goroutine, the requests | `RateLimiterProofs` |
| `Migrations` | abstract: the order of migration files, and who may serve | (instantiated by `Server`) |
| `Server` | replicas of `main`, `Migrate`, the database sessions, in-flight requests | `ServerProofs` |
| `MemoryAccounts` | heap, map and mutex of the in-memory adapter, the use cases that write | `MCMemoryAccounts`, `MemoryAccountsProofs` |
| `Listing` | clients that read page after page from either adapter | `ListingProofs` |

An `MC` module adds only the symmetry (and a view) for TLC; `RateLimiter`, `Server`
and `Listing` are checked without one. Definitions whose
comment begins with "Faulty variant" are not part of the specifications: each is
the definition below it with a plausible mistake, and exists to show that some
property notices the mistake.

### Accounts

`users` is the table: the row of each id or `None`. One action is one database
access with the code up to the next one; `pc[h]` is the next step of handler `h`,
`row[h]` the `*entity.User` it holds.

| Action | Code |
|---|---|
| `RegisterStart` | `RegisterUser.Execute` up to and including `FindByEmail`, and the owner candidate |
| `ClaimOwner` | `SaveFirstOwner`, whose INSERT fixes the role (`FirstOwnerRow`); on any unique violation the use case builds a second user |
| `SaveFallback` | `Save` of the second user |
| `IssueFirstTokens` | `GeneratePair`, then the event `user_registered` |
| `ProfileStart`, `PasswordStart` | `FindByID`, the check of the password, the change on the copy |
| `RoleStart`, `RoleTarget` | `FindByID` of actor and target, `User.ChangeRole` |
| `Save` | `Save` at the end of these three, then the event |
| `Refuse` | unique violation, missing target, `ErrInsufficientPerms` |
| `Fail` | the database, or Redis at `GeneratePair`, fails before any effect |

A write may also be committed and its answer lost (`Commit`); an audit insert may
fail silently (`Record`). Left out of the data: timestamps, `is_active` (no use
case changes it) and the hash function. `granted` is a history variable: the
roles the owner decided to give to an account.

`AccountRoles` is the table without requests: the first account is the owner's, later
ones begin as plain users, and any account but the owner's may become an admin's or a
plain user's. `RolesSpec` says that `Accounts`, with `role` the role of each row,
changes by these rules only. A stale save is one of them, which is where the lost
role change of section 4 hides, and why it can never touch the ownership.

### RefreshTokens and SessionTokens

`live`, `index` and `used` are the three families of keys; `owner` their value.
Redis executes one command, script or MULTI at a time, so one action is one such
execution by one request.

| Action | Code |
|---|---|
| `Login` | `LoginUser` (or `RegisterUser`) up to `GeneratePair` |
| `Issue` | one attempt of the MULTI in `GeneratePair` |
| `Respond` | the audit event, and the response that carries the token |
| `Refresh` | a client presents a token it was given |
| `Redeem` | one attempt of `redeemScript` and the parsing of its answer |
| `Unindex` | the `DEL` of the index key, whose error is ignored; the account is read; the next pair is minted |
| `ScanBegin`, `ScanDelete`, `ScanEnd` | the SCAN loop of `RevokeAllRefreshTokens` and the audit event |
| `ScanFail`, `RevokeRefused` | a command of the loop fails; the breaker refuses the call |
| `Expire`, `ExpireTombstone` | the TTLs |

A SCAN returns every key that is there from its first call to its last, and may
or may not return others: `scan[w]` is what it still owes, `ScanDelete` may take
any key that is there. `Faults` says what may happen: an attempt fails before it
is executed, is executed and loses its reply, is refused by an open breaker, or
the account cannot be read. The token's id is fresh (`uuid.New`); the finite set
of ids is the only reason why behaviours of the instances stop, hence
`CHECK_DEADLOCK FALSE` in these runs.

`SessionTokens` knows tokens only as clients do: live, spent or dead, with a
holder and a parent. `Service == INSTANCE SessionTokens WITH ...` maps a token
that has reached a client to "live" when its key exists, "spent" when the script
answered OK for it, "dead" otherwise. `ServiceSpec` then says that every step of
the implementation is one the abstract service allows, or invisible: no token
comes back to life, none is spent twice, none is exchanged for two, and a
successor belongs to the same user.

### AccessControl

An access token is not stored anywhere: what matters is which claims (account and
role) some unexpired token carries, the set `access`. A request is admitted with
the claims of one token and keeps them (`caller`, `claim`), while the table of
roles goes on changing. Of an account only the role is kept.

| Action | Code |
|---|---|
| `Register`, `StartSession` | `RegisterUser`; `LoginUser` and `RefreshToken` up to the reading of the account |
| `GeneratePair` | signs the role that was read; the client gets the token, or Redis fails |
| `Expire` | the last token with some claims reaches `exp` |
| `Authenticate` | `RequireAuth`, `UnaryAuthInterceptor`: the token is valid and its account exists |
| `GetUser`, `ListUsers` | the checks by the role in the token, the reading and the answer |
| `ReadOwnRow` | `UpdateProfile`, `ChangePassword` read the caller's account |
| `ChangeRole`, `ReadTarget` | the check by the token, the reading of the actor; the reading of the target and the check by the actor |
| `Save` | the whole row is written back |
| `Refuse` | every other answer |

`Protected` is the set of operations a transport admits callers to: for gRPC
without `GetUser`, which `UserServer` does not have, and without `ListUsers` (section
4). Inactive accounts do not exist, since nothing calls `Deactivate`. The rate
limits only refuse requests and are left out. `had` and `seen` are history.

`AccessControl` keeps the table of `Accounts` as roles alone, with writes of its own. Both
are shown to implement `AccountRoles`, so the table that claims are read from
obeys the same rules in either.

### CircuitBreaker

Each method of the breaker holds its mutex and is one step (`Allow`,
`RecordSuccess`, `RecordFailure`); callers do `Admit`, `Attempt` (with the retry
budget and the context's end), and `Succeed` or `FailCall`. The outcome is
recorded only for success and for retryable errors; any other error ends the
call without a record, as in `CallWithResilience`. Time appears as `elapsed`,
whether `resetTimeout` has passed since `openedAt`; the failure counter stops at
the threshold, above which it makes no difference.
`abandoned` records that a probe ended with such an error: then nobody will clear
`probeInFlight`.

`Circuit` is the state machine that the comment at `circuit_breaker.go:16-22` describes, with
its states as one variable: closed, open, half-open, probing. While it is closed every
outcome counts; afterwards only that of the one call that is the probe, in `probes`
(`Decides`), and any other outcome changes nothing (`Straggle`). `Mode` computes its state
from `state`, `elapsed` and `probeInFlight`; `streak` is the counter, `call` the callers' `pc`,
`probes` those whose `Allow` has set the flag that is still set. The code does not know who
records an outcome, and `CircuitSpec`, the comment's promise, is not kept by it (section 4).
`OnlyStragglersInterfere` says how far: every step is one of `Circuit`'s, or
`TakenForProbe`, in which a call that outlived its state of the circuit settles it as a
probe would.

### RateLimiter and TokenBuckets

A request holds nothing but a pointer between `Get` (under the mutex) and `Allow`.

| Action | Code |
|---|---|
| `Get` | `keyedLimiter.get`: the entry's bucket, or a new full one; `lastSeen` |
| `Allow` | `rate.Limiter.Allow` on that bucket: `c.Next` or 429 |
| `Cleanup` | one round of `cleanupLoop` |
| `Tick` | the time in which a bucket earns one token passes |
| `Watch` | history: a key is observed from now on |

`rate.Limiter` is external: a bucket of `Burst` tokens that earns one per tick.
`limiters[k]` and `age[k]` are the entry of a key. `Level` is what an outsider sees, the
content of the key's bucket, full when there is none; with it `RateLimiter` is to
implement `TokenBuckets`. That needs `RefillAssumption`: when an entry expires its bucket is
full again, and the requests that hold the bucket are done. The router's limits
(`router.go:36-60`) refill in 200 ms to 1 s and `entryTTL` is ten minutes. `MaxDelay`, the
longest time a goroutine takes from `get` to `Allow`, would have to be minutes to break it;
the code has no such bound, so a request suspended for that long is outside the model, and
within it no bucket is evicted while a request holds it. `UserRateLimit` lets requests
without claims pass; they touch nothing here. The `RateLimit` of all routes and that of
`/v1/auth` are two instances.

### Server

`applied`, `lock`, `open` and `work` are the database: the committed migrations, the
session that holds the advisory lock, the backends, and the file each executes. The
rest is one process per replica.

| Action | Code |
|---|---|
| `Start` | `main` up to the pool; `startupCtx` begins |
| `Acquire`, `Lock` | `pool.Acquire`, `pg_advisory_lock` |
| `Apply`, `Applied`, `Migrated` | a file is sent; its transaction is committed or rolled back; the loop ends |
| `Unlock` | `pg_advisory_unlock` and `Release`, deferred; then on, or `log.Fatal` |
| `StartupTimeout` | `startupCtx` is over: fatal |
| `Wire` | use cases, router, listeners, `signal.Notify` |
| `Arrive`, `Query`, `QueryDone`, `Answer`, `QueryRefused` | a request, and its use of the pool |
| `Signal`, `HttpDrained`, `GrpcDrained`, `GrpcForced` | `<-quit`, `Shutdown`, `GracefulStop`, `Stop` |
| `ClosePool`, `Exit` | `shutTrace`, the deferred `pool.Close` |
| `Deadline`, `Crash`, `Reap` | a context ends; the process dies; a backend notices that its client is gone |

A process that dies leaves its session behind, with the lock and perhaps a file in
execution, which `Reap` commits or rolls back. gRPC goes on accepting while HTTP
drains, and gets what is left of the 15 s. `log.Fatal` runs no deferred call. A
migration file is one simple-protocol `Exec`, hence one transaction.

`Migrations` is what the comment at `migrate.go:22` promises, without replicas' steps, the
lock or the pool: one file is executed at a time, a file only after all before it, and a
replica serves only over the complete schema. `Server` implements it with `schema` the
set `applied`, `running` what the backends execute (`Executing`, a dead replica's
backend included) and `serving` the replicas from `Up`.

### MemoryAccounts

`heap` holds the objects, `store` is the map, `mu` the mutex where it is held over
several steps. `FindByID` hands out the stored pointer.

| Action | Code |
|---|---|
| `Register` | `RegisterUser.Execute` up to the owner candidate |
| `SaveFirstOwner`, `Scan`, `NotFirst`, `Claim` | `SaveFirstOwner`, which reads one object after the other under the lock |
| `SaveFallback` | `Save` of the plain user |
| `ChangeOther` | `FindByID` of `UpdateProfile` and `ChangePassword` |
| `ChangeUserRole`, `ChangeRole`, `Refuse` | both `FindByID`, the check by the actor's present role |
| `AssignHalf` | one of the two words of `u.role = newRole` |
| `Save` | `store[id] = u` |

Nothing orders `u.role = newRole` with readers or with another assignment, so the
model stores the text and the length of the Go string one by one, in either order;
a role whose halves do not fit is `"torn"`, which is none of the three. Reading a role is
one step. The fields other than the role are left out.

### Listing

An account is its rank in the order `(created_at, id)`. A client, which is external,
asks for the pages 1, 2, ... until `TotalPages`.

| Action | Code |
|---|---|
| `Begin` | the parameters of the request, as `UserHandler.ListUsers` and `UserServer` pass them |
| `ListMemory` | `ListUsers` over the in-memory `FindPaginated`, under its lock |
| `SelectPage`, `CountRows` | the two queries of the PostgreSQL `FindPaginated`, and the answer |
| `Fail` | a query fails, and the client asks again |
| `Insert` | a registration commits, at any rank: `created_at` is set by a replica's clock before the insert |

`Int32` is the conversion of the number of pages, with `Half` in the place of 2^31.

## 3. Runs

| Run | Instance | Shows |
|---|---|---|
| `accounts_safety` | 2 handlers, 4 ids, 2 e-mails, 2 passwords, all faults | `OwnerExists`, `ClaimLostToOwner`, `SavesDoNotCollide`, `AdminIsGranted`, `RoleAuditIsTrue`, `OwnerIsPermanent`, `RolesSpec` |
| `accounts_lost_role` | 2 handlers, no fault | violation of `OnlyChangeRoleChangesRoles` |
| `refresh_safety` | 2 requests, 2 users, 3 tokens, 2 attempts, all faults | `LiveIsIndexed`, `OneSuccessor`, `ServiceSpec` |
| `refresh_reliable` | 2 requests, 1 user, 3 tokens, no fault, fair | `RevokedStayDead`, `ReuseMeansReplay`, `ReuseIsPunished`, `RequestsEnd` |
| `refresh_lost_reply` | 1 request, 1 token, lost replies | violation of `ReuseMeansReplay` |
| `refresh_late_winner` | no fault | violation of `ReusedSessionIsOver` |
| `breaker_safety` | 4 callers, threshold 2, 2 attempts, all errors, fair | `ProbeHasCaller`, `OnlyStragglersInterfere`, `ProbesKeepComing`, `CallsEnd` |
| `access_rights` | 2 handlers, 2 accounts, both transports, failing database and Redis, fair | `OwnerClaimsAreTrue`, `OthersSeenByManagers`, `RolesSpec`, `LostRightsStayLost`, `LostRightsEnd` |
| `rate_limiter` | 2 requests, 2 keys, 3 buckets, burst 2, entries live 3 ticks, delays up to 2, fair | `RateHolds`, `BucketSpec`, `IdleIsEvicted` |
| `server_lifecycle` | 2 replicas, 3 sessions, 2 files, 1 connection, 1 HTTP and 1 gRPC request each, crashes, fair | `ServesMigrated`, `OneMigrator`, `DrainIsGraceful`, `MigrationsSpec`, `StartUpEnds`, `ShutdownEnds`, `LockIsFreed` |
| `memory_accounts` | 2 handlers, 3 ids, 3 objects, 2 e-mails | `OwnersAreMade`, `OneFirstOwner`, `EmailsClashOnlyInRaces`, `SavesUndoNothing` |
| `listing` | 1 client, 5 accounts, page sizes 0, 1, 2 and one too large, 3-bit page numbers | `TypeOK`, `WalkMissesNone`, `PageFitsTotal` |

`listing` checks `TypeOK` because it says there that page numbers fit their width. The other
modules' `TypeOK` is proved for every instance and not checked again on a small one. The
same holds of properties that follow from an abstract specification a run checks
(`SchemaIsPrefix` from `MigrationsSpec`, `NoneComesBack` from `ServiceSpec`), of `SpentIsDead`, which says of the keys what `ServiceSpec` says of
what clients see, of smaller ones (`OwnershipIsNotGranted`, `ClaimsWereTrue`,
`RoleChangedByOwner`, `OpenIsThreshold`, `ProbeOnlyHalfOpen`, `FailureReopens`), and of those that liveness
rests on (`LockHasAnEnd`, `NoNewQueries`, `ScanCanGoOn`, `ScanShrinks`; section 5).

Bounds. Two handlers or requests are enough for every interference between a
read and a write of one of them, since the other can complete any number of
whole requests meanwhile; the breaker takes three to have a straggler, a probe
and a second probe, and a fourth to open the circuit again. Four ids allow an owner, an account
that is promoted, and two candidates in flight; two e-mails make duplicates
possible. Three tokens are a token, its successor and an unrelated session; two
attempts are one retry. `VIEW View` in `refresh_safety` drops the history variables
no guard reads and none of the properties of that run mentions. Symmetry is used for safety only: ids, tokens, requests and callers
are merely compared. Two accounts are enough for access rights: the owner and one
account that is promoted, demoted and saved from an old copy. In the breaker, whose
callers may end in errors that are not retryable, the system may really stop (section
4), so deadlock is not an error there.

The rate limiter's numbers are the smallest that satisfy `RefillAssumption` with
equality, so an entry is evicted at the very moment at which its bucket has become
full. Three buckets are one per key and one to spare, since the memory of an evicted one is
free again at once. Three sessions for two replicas are their own and one a dead process has left behind; two
files are enough to die between, and one connection makes requests and `pool.Close` wait for
each other. Three objects are an owner, a target and a candidate; two handlers race in
every pair of use cases. In `listing` one client is enough, since clients only read;
five accounts in pages of one are more pages than a number of 3 bits counts, so the overflow
happens, and the smaller page sizes leave partial and empty last pages. `MaxWindow`
bounds the stretch `RateHolds` looks at; the proof does not need it.

Fairness. `RequestsEnd` makes an exception for a rotation that finds no unused token id
left, which is the instance's bound and no behaviour of `uuid.New`. `RequestsEnd` and
`ReuseIsPunished` assume that a request that has started
takes its next step (`WF` of `Step(w)`): goroutines are scheduled, and go-redis gives
every attempt up by its timeout. Nothing is assumed of clients, of SCAN beyond
its guarantee, or of the expiry of keys. `ProbesKeepComing` assumes that time
passes, an admitted call runs on, and calls keep coming: a breaker nobody calls
is never probed. `LostRightsEnd` assumes that admitted requests run on and that
tokens expire; a token of the same claims may replace one that expires, and that
no such chain goes on for ever is what the property says. `IdleIsEvicted` assumes that time
passes, the ticker of `cleanupLoop` fires and a request runs on from `get` to `Allow`. In
`Server` the process runs on, its deadlines pass, a query that an HTTP handler has sent
comes back (the pool's connections have no other bound: `Shutdown` does not cancel the
handlers' contexts, and `pool.Close` waits for them), so does that of an RPC once
`Stop` has cancelled it, and PostgreSQL notices a client that is gone. The database may leave
`Migrate` waiting for ever, requests and signals need not come, and an RPC need not end by
itself: `StartUpEnds` and `ShutdownEnds` rest on the two deadlines.

## 4. What disagrees with the repository's own words

- *A role change can be lost* (`accounts_lost_role`). `UpdateProfile` or
  `ChangePassword` that read the account before a role change writes the old role
  back. The owner's demotion of an admin, answered and audited, is undone. The
  proofs show how far this goes: never to ownership, and never to a role the
  account did not once have.
- *A lost reply looks like a replay* (`refresh_lost_reply`). `redeemScript` is
  retried by `RetryWithBackoff`; its second execution finds the tombstone of the
  first. A token presented once costs its user all sessions.
- *The winner's new token survives* (`refresh_late_winner`). Of two presentations
  of one token the first may store the successor after the second has revoked
  everything.

Related behaviours are in the models without a run of their own:

- The error of `RevokeAllRefreshTokens` is dropped (`refresh_token.go:33`), also when the
  breaker refuses the call, and the audit event says that all sessions were revoked.
  `RevokedStayDead` holds in `refresh_reliable` and fails as soon as `Faults` allows a
  command to fail.
- `circuit_breaker.go:20-22` promises that an open circuit refuses calls until
  `resetTimeout` has elapsed, and that the outcome of the probe decides whether it closes.
  `RecordSuccess` (`:74`) does not ask whose outcome it records. Two calls are admitted while
  the circuit is closed, the failure of one opens it (with a threshold of one; otherwise it
  takes as many more), the success of the other closes it again: before the timeout and
  without a probe. This is the shortest behaviour of `CircuitBreaker` that
  violates `CircuitSpec`; TLC finds it when `CircuitSpec` is put in the place of
  `OnlyStragglersInterfere` in `MCBreaker.cfg`.
- `circuit_breaker.go:54-55` promises a single probe at a time. The failure of a call
  admitted before the circuit opened clears `probeInFlight` (`:91`) while the probe is still
  running, and after another timeout a second probe joins the first.
  `OnlyStragglersInterfere` says that such outcomes are all that stands between the
  breaker and the promises, and `CircuitWithoutStragglers` that it keeps them without.
- A probe that ends in an error that is not retryable records nothing and leaves
  `probeInFlight` set; every later call is refused. On Redis only
  `FindUserIDByRefreshToken` can meet such an error (`redis.Nil`), and no use case calls it.
  `ProbeHasCaller` and `ProbesKeepComing` say that this is the only way (`abandoned`).
- gRPC's `ListUsers` is missing from `methodsRequiringAuth`, hence runs without a caller
  and refuses everybody, although `user_service.go:18` says that `UserServer` mirrors the
  REST endpoints and that every RPC gets a caller.
- When `GeneratePair` fails in `RegisterUser`, the account exists, may be the owner's, and
  has no audit event; the client is told that the registration failed.
- The in-memory adapter differs from PostgreSQL where `docs/architecture.md:161` calls it
  production-equivalent: two simultaneous registrations may share an e-mail
  (`EmailsClashOnlyInRaces` says no others can), an owner may make a second owner, two
  owners may demote each other, after which a registration, also one whose scan has
  missed them, claims the ownership again, and a role may be torn. On the other hand it never
  loses a role change to a stale save, since there are no stale copies
  (`SavesUndoNothing`), which is what `accounts_lost_role` shows of PostgreSQL.
- A walk through the pages may meet an account twice, when registrations shift it to
  the next page.

## 5. Proofs

The modules named `...Proofs` hold theorems checked by TLAPS for all values of the
constants: any number of requests, accounts, tokens, callers, replicas and migration files, any
threshold, retry budget, burst and page size, any set of faults.
The only assumptions are those the modules declare: `None` is no id and no row,
budgets, thresholds and page sizes are positive, `Faults` and `Errors` name faults and
errors, the ranks of accounts are finitely many, and in `RateLimiter` a bucket is full
again before its entry expires. Each theorem has the usual form: an inductive invariant that implies the
property, one step of the proof per action, and a temporal step at the end.

| Theorem | States | Needs |
|---|---|---|
| `AccountsProofs!TypeCorrect`, `Inductive` | types; `IInv` | |
| `AccountsHaveAnOwner` | `OwnerExists` | `IInv` |
| `ClaimContract` | `ClaimLostToOwner` | `IInv` |
| `OwnerForEver` | `OwnerIsPermanent` | `IInv`, at each step |
| `AdminsAreGranted`, `RoleAuditTruthful` | `AdminIsGranted`, `RoleAuditIsTrue` | `IInv` |
| `SavesAreAccepted`, `OwnershipStays` | `SavesDoNotCollide`, `OwnershipIsNotGranted` | `IInv` |
| `RolesAreKept` | `RolesSpec`: `Accounts` implements `AccountRoles` | `IInv` |
| `RefreshTokensProofs!Inductive`, `TypeCorrect` | `IInv`; types | |
| `LiveTokensAreIndexed`, `SpentTokensAreDead`, `RotationIsAChain` | `LiveIsIndexed`, `SpentIsDead`, `OneSuccessor` | `IInv` |
| `ReplayTruthful` | `ReuseMeansReplay`, if no reply is lost | `IInv`, `ReplayInv` |
| `RevocationIsFinal` | `RevokedStayDead`, if Redis answers | `IInv`, `RevokeInv` |
| `Implements` | `ServiceSpec`: `RefreshTokens` implements `SessionTokens` | `IInv` |
| `NoTokenComesBack` | `NoneComesBack` | `IInv`, the refinement step |
| `ScansCanGoOn`, `ScansShrink` | `ScanCanGoOn`, `ScanShrinks` | `IInv`; `ScanCanGoOn` |
| `AccessControlProofs!Inductive`, `TypeCorrect` | `IInv`; types | |
| `OwnerTokensAreTrue`, `TokensWereTrue` | `OwnerClaimsAreTrue`, `ClaimsWereTrue` | `IInv` |
| `ReadersWereManagers`, `OwnerChangesRoles` | `OthersSeenByManagers`, `RoleChangedByOwner` | `IInv` |
| `RolesAreKept` | `RolesSpec`: `AccessControl` implements `AccountRoles` | `IInv` |
| `LostForGood` | `LostRightsStayLost` | `IInv` |
| `CircuitBreakerProofs!TypeCorrect` | types | |
| `OpenIffThreshold`, `ProbeFlagHalfOpen` | `OpenIsThreshold`, `ProbeOnlyHalfOpen` | `FieldsOK` |
| `FailuresReopen` | `FailureReopens` | types |
| `IsACircuit` | `OnlyStragglersInterfere` | types, `FieldsOK` |
| `CircuitWithoutStragglers` | `CircuitSpec`, the comment's circuit, if there are no stragglers | types, `FieldsOK` |
| `ProbesAreOwned` | `ProbeHasCaller` | types |
| `RateLimiterProofs!TypeCorrect` | types | |
| `RateIsBounded` | `RateHolds` | `IInv` |
| `EvictionIsInvisible` | `BucketSpec`: `RateLimiter` implements `TokenBuckets` | `IInv` |
| `ServerProofs!TypeCorrect` | types | `MigrationInv` |
| `ServesOnlyMigrated`, `SchemaStaysPrefix`, `MigrationsAreSerial` | `ServesMigrated`, `SchemaIsPrefix`, `OneMigrator` | `MigrationInv` |
| `MigratesAsSpecified` | `MigrationsSpec`: `Server` implements `Migrations` | `MigrationInv` |
| `LockCanBeFreed` | `LockHasAnEnd` | types, `MigrationInv` |
| `CloseOnlyWaits` | `NoNewQueries` | types, `CloseInv` |
| `DrainsGracefully` | `DrainIsGraceful` | `DrainInv` |
| `MemoryAccountsProofs!TypeCorrect` | types | `IInv` |
| `OwnersAreMadeOnly`, `FirstOwnerIsOne`, `EmailsClashSeldom` | `OwnersAreMade`, `OneFirstOwner`, `EmailsClashOnlyInRaces` | `IInv` |
| `NoLostRole` | `SavesUndoNothing` | `IInv`, at each step |
| `ListingProofs!TypeCorrect`, `NoneIsMissed`, `PagesFitTotals` | types, `WalkMissesNone`, `PageFitsTotal` | `IInv` |

*Accounts.* None of the properties is inductive, since `Save` writes a copy of
unknown age. `IInv` therefore says what a copy still has in common with its row
(`CopyOf`): the e-mail, which nothing changes; whether it is the owner's, which
nothing changes either once there is an owner; and that an admin was granted the
role. A copy in the hands of `ChangeUserRole` (`Copies`) belongs to an account
that is not the owner's and carries a granted role. `CandidateIds` keeps the ids
of registrations under way apart. The properties then hold each other up: the
owner is permanent because copies are right about ownership, and the copies stay
right because the owner is permanent. That a copy may be wrong about `admin` is
the lost role change of section 4. `RolesAreKept` goes through the same facts again: a
write is a first claim, which the unique index admits only while there is no owner
(`ClaimIsFirst`), a candidate that joins (`FallbackJoins`), or a copy about to be saved,
which leaves an owner alone (`SaveChanges`).

*Refresh tokens.* `SpentIsDead` could only be broken by a request that stores a
token again, so `Requests` says that a token in the hands of `GeneratePair` has
not reached a client, hence was not presented, hence is not spent; `Exclusive`
says that no other request has it. `OneSuccessor` rests on redeemed tokens having
no successor until the one request that redeemed them mints it. `Minted` ties
owner, parent and history together; the types need it, because a request acts for
the owner of the token presented. The two conditional theorems have invariants of
their own. `ReplayInv` counts presentations: two requests about to redeem one
token, or one that will find it spent, make it a replayed token; a lost reply is
the one step that breaks this. `RevokeInv` says that what is still live of the
tokens to be revoked is still owed by the SCAN; a discarded error is what breaks
this. For `Implements` every action is shown to be `Issue` (`Respond`), `Spend`
(`Redeem` answering OK), `Kill` (deletion or expiry of a key a client holds) or a
stutter. `NoTokenComesBack` reads off that refinement that spent and dead are final
(`EndsAreFinal`).

*Access control.* Every role that leaves the table, into a request, a copy of a row
or a token, may be out of date when it is used. `OnceRole` says what is still true
of it: the account has had it, and it is right about the ownership. `RequestsAreTrue`
says this of everything a request holds, and `IInv` of everything a token holds. The
step that could break it is `Save`; `SaveKeeps` shows that a copy about to be saved
either is right about the ownership or belongs to a role change, whose target is not
the owner and which the unique index keeps from becoming one (`SaveWrites`). Types are part of the
induction, because a role that was read is a role only if accounts stay. `LostForGood` looks at what can make
an account an admin again once it is a plain user: a copy in a role change, which the
owner decides on (`NewDecision`), or a copy a request still holds, which `AdminIsGone`
excludes; logins and rotations read the table, so they sign nothing else.

*Circuit breaker.* The fields change together under the mutex, so the invariants
follow from the methods' own effects, for callers in any state; that is the point,
as no caller knows what state of the circuit its outcome will meet.
`IsACircuit` needs `FieldsOK`, since `Mode` is a function of the fields only as long as they
agree: a failure of an open circuit must reopen it (`OpenIsThreshold`), a probe can be
pending on no other (`ProbeOnlyHalfOpen`), and at most one caller is the probe. An
outcome then counts as in `Circuit` if the circuit is closed or its caller is the probe, and is
a straggler's otherwise (`SucceedStep`, `FailStep`), which is all
`CircuitWithoutStragglers` has to exclude.
`ProbesAreOwned` needs that a probe leaves only by recording an outcome, or is abandoned.

*Rate limiter.* Eviction is invisible if an evicted bucket is full and no request
holds it. `InFlightIsFresh` says that an entry a request has just looked up is too young
to be stale, hence `OwnBuckets`: requests hold the buckets the map has. `Refilled` says
that a bucket lacks no more than it lost since it was last seen, or `MaxDelay` later;
with `RefillAssumption` a stale one is full. `Covered` adds what has been admitted to what
is left: together they never exceed the burst and what was earned.

*Server.* The lock is what the proof turns on, and it must be said of sessions and not
of replicas: a dead replica's backend may still be executing a file. `LockIsHeld` says that
whoever executes a file holds the lock and executes the next one of a prefix;
`SessionsAreOwned` that replicas do not share sessions; `LoopIsAhead` that the loop of a living
replica has passed only what is applied. `MigratesAsSpecified` rests on the same invariant: there is
one file in execution since executing it takes the lock (`ExecutingIsOne`), and a
backend ends its file before it lets the lock go. `DrainInv` follows a replica through its
shutdown while its deadline is not over.

*In-memory accounts.* `ReferencesOK` says who may hold what: an object in the hands of a
registration is its own, every other one is in the store, so `Save` puts back the pointer
that is there. `OwnersOK` speaks of the text of a role alone, since a torn role is no
owner and every owner has the text. `ClaimsOK` says of a scan under way that the first
owner is still to be read; it holds until an owner loses the role, which the scan may
miss, and that is why `OneFirstOwner` has this premise.

*Listing.* `Walks` says that what a client has not been sent comes after the pages it has
read, which registrations preserve, because they only move accounts to later places
(`PlaceGrows`). `LastPage` is the arithmetic: up to the 32-bit limit the last page reaches the
last account. `SelectFits` bounds a page through the injection of accounts into places.

*What liveness rests on.* Liveness itself is out of the proof system's reach; what it
needs of the states is proved where it is not obvious. `LostRightsEnd` needs that a lost
right is not signed again (`LostForGood`). `RequestsEnd` and `ReuseIsPunished` need that a SCAN
can return what it owes, and that this becomes less although other requests add keys
(`ScansCanGoOn`, `ScansShrink`). `LockIsFreed` needs that the lock always has somebody
who will free it: its holder, or its backend if the holder is gone (`LockCanBeFreed`).
`ShutdownEnds` needs that the connections `pool.Close` waits for are not taken anew and are
none of an RPC that nobody has cancelled (`CloseOnlyWaits`). `ProbesKeepComing` needs
`ProbesAreOwned`. That the steps which are possible are then taken is the fairness of
section 3, and is checked by TLC.

Only model-checked: liveness (`RequestsEnd`, `ReuseIsPunished`, `ProbesKeepComing`,
`CallsEnd`, `LostRightsEnd`, `IdleIsEvicted`, `StartUpEnds`, `ShutdownEnds`, `LockIsFreed`),
since `tlapm` 1.4.5 has no support for `ENABLED`, on which weak fairness rests; and of
course the violations. Every other property of a passing run is a theorem.

## 6. What is not modelled, and the plan

Left out for good: input validation, Argon2, DTOs and error texts, configuration,
telemetry (no state that other parts depend on); `Delete`, `Activate`,
`Deactivate`, `RotateRefreshToken` and `RevokeRefreshToken` (nothing calls them);
access tokens in `RefreshTokens` (signed, not stored; they are in `AccessControl`);
the generated gRPC code. Durations appear only as events ("elapsed", "expired",
"deadline") or ticks. The product of backoffs (`retry.go:32`) overflows only for settings
far from any use, and then only shortens a wait. Whether a client that goes away during a
backoff should count as a failure of Redis (`retry.go:56`), nothing in the repository
says; the model has the behaviour. In `Server` the memory adapter, which skips migrations
and the pool, has no run; in `MemoryAccounts` only the role of an object is shared, the
other fields behave like it.

What could follow: refresh requests and the breaker composed, so that `Faults` of
`RefreshTokens` follow from the breaker's state instead of being free; and names and
passwords in `MemoryAccounts`, whose assignments race in the same way as the role's.
