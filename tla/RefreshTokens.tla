---------------------------- MODULE RefreshTokens ----------------------------
(***************************************************************************)
(* JWTService's refresh tokens in Redis and the use cases that run it:     *)
(* LoginUser and RegisterUser (GeneratePair) and RefreshToken (redeem,     *)
(* rotate, revoke every session on reuse).                                 *)
(*                                                                         *)
(* Redis executes one command, script or MULTI at a time; an action is one *)
(* such execution by one request, so anything may happen between two.      *)
(* Every command goes through CallWithResilience: an attempt may fail      *)
(* before it is executed ("fail"), be executed and lose its reply ("lost"),*)
(* and is then repeated until the budget of the RetryPolicy is spent or    *)
(* the request's context ends.  A call may also be refused by the circuit  *)
(* breaker, which other requests can have opened ("breaker"): see          *)
(* CircuitBreaker.                                                         *)
(*                                                                         *)
(* Access tokens are not stored and are left out.  refresh:<t> and         *)
(* user-refresh:<u>:<t> are written by one MULTI with the same TTL and so  *)
(* expire together.                                                        *)
(***************************************************************************)
EXTENDS Naturals, FiniteSets

CONSTANTS
    Workers,       \* request goroutines
    Users, Tokens, \* accounts; values uuid.New may return
    None,
    MaxAttempts,   \* RetryPolicy.MaxAttempts
    Faults         \* what may go wrong, see Fault

Fault == {"fail", "lost", "breaker", "postgres"}

ASSUME NoneAssumption == None \notin Users /\ None \notin Tokens
ASSUME AttemptsAssumption == MaxAttempts \in Nat \ {0}
ASSUME FaultAssumption == Faults \subseteq Fault

VARIABLES
    live,       \* tokens t with a key refresh:<t>
    index,      \* tokens t with a key user-refresh:<u>:<t>
    used,       \* tokens t with a tombstone used-refresh:<t>
    owner,      \* value of those keys: user each minted token belongs to
    parent,     \* token the minted token is exchanged for
    pc,         \* next step of each request
    user,       \* user the request acts for
    tok,        \* token presented, then token minted
    attempt,    \* attempts of the current operation that have failed
    scan,       \* index keys this SCAN iteration still has to return
    delivered,  \* history: tokens a response has carried to a client
    spent,      \* history: tokens the script answered OK for
    replayed,   \* history: tokens presented by two requests or more
    presented,  \* history: tokens presented by a request
    seen,       \* history: the user's delivered tokens when reuse was detected
    claimed,    \* history: tokens an audit event says are revoked
    reused      \* history: tokens whose reuse has been audited

redis == <<live, index, used>>
minted == <<owner, parent>>
request == <<pc, user, tok, attempt, scan>>
history == <<delivered, spent, replayed, presented, seen, claimed, reused>>
vars == <<live, index, used, owner, parent, pc, user, tok, attempt, scan,
          delivered, spent, replayed, presented, seen, claimed, reused>>

Steps == {"idle", "redeem", "unindex", "issue", "respond", "revoke", "scan"}

TypeOK ==
    /\ live \subseteq Tokens /\ index \subseteq Tokens /\ used \subseteq Tokens
    /\ owner \in [Tokens -> Users \cup {None}]
    /\ parent \in [Tokens -> Tokens \cup {None}]
    /\ pc \in [Workers -> Steps]
    /\ user \in [Workers -> Users \cup {None}]
    /\ tok \in [Workers -> Tokens \cup {None}]
    /\ attempt \in [Workers -> 0 .. MaxAttempts - 1]
    /\ scan \in [Workers -> SUBSET Tokens]
    /\ delivered \subseteq Tokens /\ spent \subseteq Tokens
    /\ presented \subseteq Tokens /\ replayed \subseteq presented
    /\ seen \in [Workers -> SUBSET Tokens]
    /\ claimed \subseteq Tokens /\ reused \subseteq Tokens
    /\ \A w \in Workers :
          /\ pc[w] = "idle" <=> tok[w] = None
          /\ pc[w] = "idle" <=> user[w] = None
          /\ scan[w] # {} => pc[w] = "scan"
          /\ seen[w] # {} => pc[w] \in {"revoke", "scan"}

-----------------------------------------------------------------------------
(* Requests *)

TokensOf(u) == {t \in Tokens : owner[t] = u}

Unminted == {t \in Tokens : owner[t] = None}

\* The request goes on at step s for user u with token t; a new operation starts
\* with a new retry budget.
GoOn(w, s, u, t) ==
    /\ pc' = [pc EXCEPT ![w] = s]
    /\ user' = [user EXCEPT ![w] = u]
    /\ tok' = [tok EXCEPT ![w] = t]
    /\ attempt' = [attempt EXCEPT ![w] = 0]

Finish(w) == GoOn(w, "idle", None, None)

\* An attempt returned an error: one more, or the operation gives up (the budget
\* is spent, or the context ended during the backoff).
MayRetry(w) == attempt[w] + 1 < MaxAttempts

Retry(w) ==
    /\ MayRetry(w)
    /\ attempt' = [attempt EXCEPT ![w] = @ + 1]
    /\ UNCHANGED <<pc, user, tok>>

\* Keys that disappear are no longer owed by any SCAN.
Forget(ts) == scan' = [v \in Workers |-> scan[v] \ ts]

\* A new refresh token for user u, in exchange for p.
Mint(w, u, p) ==
    \E t \in Unminted :
        /\ GoOn(w, "issue", u, t)
        /\ owner' = [owner EXCEPT ![t] = u]
        /\ parent' = [parent EXCEPT ![t] = p]

(* LoginUser, RegisterUser *)

\* The credentials are right (or the account is new); GeneratePair follows.
Login(w, u) ==
    /\ pc[w] = "idle"
    /\ Mint(w, u, None)
    /\ UNCHANGED <<redis, scan, history>>

(* GeneratePair *)

\* MULTI SET refresh:<t>, SET user-refresh:<u>:<t> EXEC.  Without an answer the
\* same keys are set again, and after the last attempt they stay as they are.
Store(t) == live' = live \cup {t} /\ index' = index \cup {t}

Issue(w) ==
    /\ pc[w] = "issue"
    /\ \/ Store(tok[w]) /\ GoOn(w, "respond", user[w], tok[w])
       \/ "lost" \in Faults /\ Store(tok[w]) /\ (Retry(w) \/ Finish(w))
       \/ "fail" \in Faults /\ UNCHANGED <<live, index>> /\ (Retry(w) \/ Finish(w))
       \/ "breaker" \in Faults /\ attempt[w] = 0 /\ UNCHANGED <<live, index>> /\ Finish(w)
    /\ UNCHANGED <<used, minted, scan, history>>

\* The event is audited and the pair is in the response.
Respond(w) ==
    /\ pc[w] = "respond"
    /\ delivered' = delivered \cup {tok[w]}
    /\ Finish(w)
    /\ UNCHANGED <<redis, minted, scan, spent, replayed, presented, seen, claimed, reused>>

(* RefreshToken: redemption *)

\* A client presents a token it was given.
Refresh(w, t) ==
    /\ pc[w] = "idle"
    /\ t \in delivered
    /\ GoOn(w, "redeem", owner[t], t)
    /\ presented' = presented \cup {t}
    /\ replayed' = IF t \in presented THEN replayed \cup {t} ELSE replayed
    /\ UNCHANGED <<redis, minted, scan, delivered, spent, seen, claimed, reused>>

\* Faulty variants: a missing refresh:<t> is taken for a live one; a token that
\* is not live is taken for a replayed one.
VerdictWithoutLookup(t) == IF t \in used THEN "REUSED" ELSE "OK"
VerdictWithoutTombstone(t) == IF t \in live THEN "OK" ELSE "REUSED"

\* redeemScript, executed in one piece.
Verdict(t) ==
    IF t \in used THEN "REUSED" ELSE IF t \in live THEN "OK" ELSE "INVALID"

\* Faulty variant: the script leaves refresh:<t> in place.
ScriptWithoutDel(t) ==
    IF Verdict(t) = "OK"
    THEN used' = used \cup {t} /\ spent' = spent \cup {t} /\ UNCHANGED live
    ELSE UNCHANGED <<live, used, spent>>

Script(t) ==
    IF Verdict(t) = "OK"
    THEN live' = live \ {t} /\ used' = used \cup {t} /\ spent' = spent \cup {t}
    ELSE UNCHANGED <<live, used, spent>>

\* The script's answer reaches the use case.
Answer(w) ==
    CASE Verdict(tok[w]) = "OK" ->
            GoOn(w, "unindex", user[w], tok[w]) /\ UNCHANGED seen
      [] Verdict(tok[w]) = "REUSED" ->
            /\ GoOn(w, "revoke", user[w], tok[w])
            /\ seen' = [seen EXCEPT ![w] = TokensOf(user[w]) \cap delivered]
      [] OTHER -> Finish(w) /\ UNCHANGED seen

Redeem(w) ==
    /\ pc[w] = "redeem"
    /\ \/ Script(tok[w]) /\ Answer(w)
       \/ "lost" \in Faults /\ Script(tok[w]) /\ (Retry(w) \/ Finish(w)) /\ UNCHANGED seen
       \/ "fail" \in Faults /\ UNCHANGED <<live, used, spent, seen>> /\ (Retry(w) \/ Finish(w))
       \/ "breaker" \in Faults /\ attempt[w] = 0 /\ UNCHANGED <<live, used, spent, seen>> /\ Finish(w)
    /\ UNCHANGED <<index, minted, scan, delivered, replayed, presented, claimed, reused>>

\* DEL user-refresh:<u>:<t>, whose error is ignored; then FindByID and IsActive,
\* which let the request go on to GeneratePair or end it.
Unindex(w) ==
    /\ pc[w] = "unindex"
    /\ \/ index' = index \ {tok[w]} /\ Forget({tok[w]})
       \/ Faults \cap {"fail", "breaker"} # {} /\ UNCHANGED <<index, scan>>
    /\ \/ Mint(w, user[w], tok[w])
       \/ "postgres" \in Faults /\ Finish(w) /\ UNCHANGED minted
    /\ UNCHANGED <<live, used, history>>

(* RefreshToken: reuse *)

\* Faulty variant: the loop stops after the first page, which may be empty.
ScanFirstPage(w) ==
    /\ pc[w] = "revoke"
    /\ pc' = [pc EXCEPT ![w] = "scan"]
    /\ UNCHANGED <<redis, minted, user, tok, attempt, scan, history>>

\* SCAN from cursor 0: every key that stays until the end will be returned.
ScanBegin(w) ==
    /\ pc[w] = "revoke"
    /\ pc' = [pc EXCEPT ![w] = "scan"]
    /\ scan' = [scan EXCEPT ![w] = index \cap TokensOf(user[w])]
    /\ UNCHANGED <<redis, minted, user, tok, attempt, history>>

\* Faulty variant: only the index key is deleted.
DropIndexOnly(t) == index' = index \ {t} /\ UNCHANGED live

\* MULTI DEL refresh:<t>, DEL user-refresh:<u>:<t> EXEC for a key SCAN returned.
Drop(t) == live' = live \ {t} /\ index' = index \ {t}

ScanDelete(w, t) ==
    /\ pc[w] = "scan"
    /\ t \in index \cap TokensOf(user[w])
    /\ Drop(t)
    /\ Forget({t})
    /\ UNCHANGED <<used, minted, pc, user, tok, attempt, history>>

\* The audit event "refresh token reuse detected; all sessions revoked".
AuditReuse(w) ==
    /\ claimed' = claimed \cup seen[w]
    /\ reused' = reused \cup {tok[w]}
    /\ seen' = [seen EXCEPT ![w] = {}]
    /\ scan' = [scan EXCEPT ![w] = {}]
    /\ Finish(w)

\* Faulty variant: the loop does not break at cursor 0, where SCAN starts over.
ScanEndAgain(w) ==
    /\ pc[w] = "scan"
    /\ scan[w] = {}
    /\ scan' = [scan EXCEPT ![w] = index \cap TokensOf(user[w])]
    /\ UNCHANGED <<redis, minted, pc, user, tok, attempt, history>>

\* Cursor 0 again: RevokeAllRefreshTokens returns nil.
ScanEnd(w) ==
    /\ pc[w] = "scan"
    /\ scan[w] = {}
    /\ AuditReuse(w)
    /\ UNCHANGED <<redis, minted, delivered, spent, replayed, presented>>

\* A SCAN or a MULTI fails (ScanDelete, when it was executed): the iteration
\* starts over, or the error is returned and ignored.
ScanFail(w) ==
    /\ pc[w] = "scan"
    /\ Faults \cap {"fail", "lost"} # {}
    /\ \/ /\ MayRetry(w)
          /\ pc' = [pc EXCEPT ![w] = "revoke"]
          /\ attempt' = [attempt EXCEPT ![w] = @ + 1]
          /\ scan' = [scan EXCEPT ![w] = {}]
          /\ UNCHANGED <<user, tok, seen, claimed, reused>>
       \/ AuditReuse(w)
    /\ UNCHANGED <<redis, minted, delivered, spent, replayed, presented>>

\* The breaker refuses RevokeAllRefreshTokens, an error ignored as well.
RevokeRefused(w) ==
    /\ pc[w] = "revoke"
    /\ attempt[w] = 0
    /\ "breaker" \in Faults
    /\ AuditReuse(w)
    /\ UNCHANGED <<redis, minted, delivered, spent, replayed, presented>>

(* Time *)

\* The refresh TTL of a token elapses.
Expire(t) ==
    /\ t \in live \cup index
    /\ Drop(t)
    /\ Forget({t})
    /\ UNCHANGED <<used, minted, pc, user, tok, attempt, history>>

\* reuseTombstoneTTL elapses.
ExpireTombstone(t) ==
    /\ t \in used
    /\ used' = used \ {t}
    /\ UNCHANGED <<live, index, minted, request, history>>

-----------------------------------------------------------------------------
Init ==
    /\ live = {} /\ index = {} /\ used = {}
    /\ owner = [t \in Tokens |-> None]
    /\ parent = [t \in Tokens |-> None]
    /\ pc = [w \in Workers |-> "idle"]
    /\ user = [w \in Workers |-> None]
    /\ tok = [w \in Workers |-> None]
    /\ attempt = [w \in Workers |-> 0]
    /\ scan = [w \in Workers |-> {}]
    /\ delivered = {} /\ spent = {} /\ replayed = {} /\ presented = {}
    /\ seen = [w \in Workers |-> {}]
    /\ claimed = {} /\ reused = {}

\* What the request itself does next.
Step(w) ==
    \/ Issue(w)
    \/ Respond(w)
    \/ Redeem(w)
    \/ Unindex(w)
    \/ ScanBegin(w)
    \/ \E t \in Tokens : ScanDelete(w, t)
    \/ ScanEnd(w)
    \/ ScanFail(w)
    \/ RevokeRefused(w)

Next ==
    \/ \E w \in Workers :
          \/ \E u \in Users : Login(w, u)
          \/ \E t \in Tokens : Refresh(w, t)
          \/ Step(w)
    \/ \E t \in Tokens : Expire(t) \/ ExpireTombstone(t)

Spec == Init /\ [][Next]_vars

\* A request that has started runs on: every goroutine is scheduled, and Redis
\* answers or the client gives the attempt up.
FairSpec == Spec /\ \A w \in Workers : WF_vars(Step(w))

-----------------------------------------------------------------------------
(* Properties *)

\* RevokeAllRefreshTokens finds every live token through the per-user index,
\* although redemption, its clean-up and revocation delete the two keys apart.
LiveIsIndexed == live \subseteq index

\* A redeemed token never works again: not after its tombstone has expired, and
\* not by a repeated MULTI of the request that issued it.
SpentIsDead == spent \cap live = {}

\* Rotation is a chain: however often and concurrently a token is presented, it
\* is exchanged for one token at most.
OneSuccessor ==
    \A s, t \in Tokens : parent[s] = parent[t] /\ parent[s] # None => s = t

\* What the clients see of these tokens is what SessionTokens promises.
ClientStatus ==
    [t \in Tokens |->
        IF t \notin delivered THEN "unissued"
        ELSE IF t \in live THEN "live"
        ELSE IF t \in spent THEN "spent" ELSE "dead"]

ClientHolder == [t \in Tokens |-> IF t \in delivered THEN owner[t] ELSE None]

ClientParent == [t \in Tokens |-> IF t \in delivered THEN parent[t] ELSE None]

Service == INSTANCE SessionTokens WITH
    status <- ClientStatus, holder <- ClientHolder, parent <- ClientParent

ServiceSpec == Service!Spec

\* Once the audit log says that all sessions are revoked, no token the user's
\* clients held when the reuse was detected is live, then or later.
RevokedStayDead == claimed \cap live = {}

\* "RedemptionReused means the token was already redeemed [...] a replay signal":
\* sessions are revoked only for a token that was presented twice.
ReuseMeansReplay ==
    \A w \in Workers : pc[w] \in {"revoke", "scan"} => tok[w] \in replayed

\* "all sessions revoked": the session that began with the reused token is over,
\* so what it was exchanged for is not live any more.
ReusedSessionIsOver == \A t \in live : parent[t] \notin reused

\* Every request is answered: the SCAN of a revocation ends although other
\* requests add keys meanwhile and keys it has still to return expire.  A rotation
\* for which the finite set of token ids has none left is the model's bound.
RequestsEnd ==
    \A w \in Workers :
        pc[w] # "idle" ~> pc[w] = "idle" \/ (pc[w] = "unindex" /\ Unminted = {})

\* A detected reuse kills the tokens the user's clients held at that time.
ReuseIsPunished ==
    \A t \in Tokens, w \in Workers : t \in seen[w] ~> [](t \notin live)
-----------------------------------------------------------------------------
(* What they rest on *)

\* A SCAN can always go on: what it owes is in the index, the user's, and so will be
\* returned and deleted; others' keys and later ones add nothing to what it owes.
ScanCanGoOn == \A w \in Workers : scan[w] \subseteq index \cap TokensOf(user[w])

ScanShrinks ==
    [][\A w \in Workers : pc[w] = "scan" => scan'[w] \subseteq scan[w]]_vars

\* For a client, a token that has been exchanged or revoked stays what it is,
\* whatever repeated commands, late responses and expiring tombstones do.
NoneComesBack ==
    [][\A t \in Tokens :
          ClientStatus[t] \in {"spent", "dead"} => ClientStatus'[t] = ClientStatus[t]]_vars

-----------------------------------------------------------------------------
(* Inductive invariants *)

\* Clients hold minted tokens, only those are spent, and a spent token's user is
\* its successor's.
Minted ==
    /\ \A t \in delivered : owner[t] # None
    /\ used \subseteq spent /\ spent \subseteq delivered
    /\ \A t \in Tokens :
          /\ owner[t] = None => parent[t] = None
          /\ parent[t] # None => parent[t] \in spent /\ owner[parent[t]] = owner[t]

\* A request acts for its token's user.  What it has minted is unknown outside
\* until it responds, and what it has redeemed has no successor before it mints.
Requests ==
    \A w \in Workers :
        /\ pc[w] # "idle" => owner[tok[w]] = user[w]
        /\ pc[w] \in {"redeem", "unindex", "revoke", "scan"} => tok[w] \in delivered
        /\ pc[w] \in {"issue", "respond"} => tok[w] \notin delivered
        /\ pc[w] = "unindex" =>
              tok[w] \in spent /\ \A s \in Tokens : parent[s] # tok[w]

\* No two requests issue the same token, or have redeemed the same token.
Exclusive ==
    \A v, w \in Workers :
        v # w /\ tok[v] = tok[w] =>
            /\ ~(pc[v] \in {"issue", "respond"} /\ pc[w] \in {"issue", "respond"})
            /\ ~(pc[v] = "unindex" /\ pc[w] = "unindex")

IInv ==
    /\ TypeOK
    /\ LiveIsIndexed
    /\ SpentIsDead
    /\ OneSuccessor
    /\ Minted
    /\ Requests
    /\ Exclusive

\* While no reply is lost: a request that is about to redeem a token spent already
\* is not its only presenter.
Presentations ==
    /\ spent \subseteq presented
    /\ \A w \in Workers :
          pc[w] = "redeem" =>
              /\ tok[w] \in presented
              /\ tok[w] \in spent => tok[w] \in replayed
              /\ \A v \in Workers \ {w} :
                    pc[v] = "redeem" /\ tok[v] = tok[w] => tok[w] \in replayed

ReplayInv == Presentations /\ ReuseMeansReplay

\* While Redis answers: what is still live of the tokens to be revoked is still
\* owed by the SCAN, and what has reached a client is not stored again.
Owed ==
    /\ claimed \subseteq delivered
    /\ \A w \in Workers :
          /\ seen[w] \subseteq delivered \cap TokensOf(user[w])
          /\ pc[w] = "scan" => seen[w] \cap live \subseteq scan[w]

RevokeInv == Owed /\ RevokedStayDead
=============================================================================
