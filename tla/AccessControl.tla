---------------------------- MODULE AccessControl ----------------------------
(***************************************************************************)
(* Who may do what, over REST and gRPC.  An access token carries the role  *)
(* its account had when the token's request read the account; requests are *)
(* admitted by the token, and some checks use the token's role, others the *)
(* role in the users table, while role changes, stale saves, logins and    *)
(* rotations go on.                                                        *)
(*                                                                         *)
(* Only the role of an account is kept: the other columns, the race for    *)
(* the e-mail and for the ownership are in Accounts, refresh tokens in     *)
(* RefreshTokens.  No use case deactivates or deletes an account.          *)
(***************************************************************************)
EXTENDS FiniteSets

CONSTANTS
    Handlers,   \* request goroutines
    UserIds,
    None,
    Faults      \* what may fail, see Fault

Roles == {"owner", "admin", "user"}

\* "database": an access fails, or its answer is lost.  "redis": GeneratePair fails.
Fault == {"database", "redis"}

ASSUME NoneAssumption == None \notin UserIds
ASSUME FaultAssumption == Faults \subseteq Fault

VARIABLES
    role,     \* users.role of each account, "none" when there is no account
    access,   \* claims for which there is an access token that has not expired
    pc,       \* next step of each request
    op,       \* what the request asks for
    caller,   \* account in the claims the request was admitted with
    claim,    \* role in these claims
    target,   \* account the request reads or writes
    held,     \* role in the *entity.User the request holds
    had,      \* history: roles each account has had
    seen      \* history: <<a, b>> when a request of a has read the account b

request == <<pc, op, caller, claim, target, held>>
history == <<had, seen>>
vars == <<role, access, pc, op, caller, claim, target, held, had, seen>>

Claims == [user : UserIds, role : Roles]
Ops == {"none", "session", "GetMe", "GetUser", "ListUsers", "UpdateProfile",
        "ChangePassword", "ChangeRole"}
Steps == {"idle", "issue", "admitted", "actor", "save"}

TypeOK ==
    /\ role \in [UserIds -> Roles \cup {"none"}]
    /\ access \subseteq Claims
    /\ pc \in [Handlers -> Steps]
    /\ op \in [Handlers -> Ops]
    /\ caller \in [Handlers -> UserIds \cup {None}]
    /\ claim \in [Handlers -> Roles \cup {"none"}]
    /\ target \in [Handlers -> UserIds \cup {None}]
    /\ held \in [Handlers -> Roles \cup {"none"}]
    /\ had \in [UserIds -> SUBSET Roles]
    /\ seen \subseteq UserIds \X UserIds
    /\ \A h \in Handlers :
          /\ pc[h] = "idle" <=> op[h] = "none"
          /\ pc[h] = "issue" <=> op[h] = "session"
          /\ pc[h] \in {"admitted", "actor", "save"} <=> caller[h] # None
          /\ pc[h] \in {"admitted", "actor", "save"} <=> claim[h] # "none"
          /\ pc[h] \in {"issue", "actor", "save"} <=> target[h] # None
          /\ pc[h] \in {"issue", "actor", "save"} <=> held[h] # "none"

-----------------------------------------------------------------------------
(* Helpers *)

Accounts == {u \in UserIds : role[u] # "none"}

Owners == {u \in UserIds : role[u] = "owner"}

\* Role.CanManageRoles
CanManageRoles(r) == r \in {"owner", "admin"}

Set(h, s, o, c, r, t, k) ==
    /\ pc' = [pc EXCEPT ![h] = s]
    /\ op' = [op EXCEPT ![h] = o]
    /\ caller' = [caller EXCEPT ![h] = c]
    /\ claim' = [claim EXCEPT ![h] = r]
    /\ target' = [target EXCEPT ![h] = t]
    /\ held' = [held EXCEPT ![h] = k]

\* The request is answered.
Finish(h) == Set(h, "idle", "none", None, "none", None, "none")

\* The admitted request goes on holding the row of t with role k.
Hold(h, s, t, k) == Set(h, s, op[h], caller[h], claim[h], t, k)

\* Row t gets role r.
Assign(t, r) ==
    /\ role' = [role EXCEPT ![t] = r]
    /\ had' = [had EXCEPT ![t] = @ \cup {r}]

-----------------------------------------------------------------------------
(* Sessions: the requests nobody need be admitted for *)

\* Faulty variant: the pair is issued for the owner candidate.
RegisterAsCandidate(h, u) ==
    /\ pc[h] = "idle"
    /\ u \notin Accounts
    /\ Assign(u, IF Owners = {} THEN "owner" ELSE "user")
    /\ Set(h, "issue", "session", None, "none", u, "owner")
    /\ UNCHANGED <<access, seen>>

\* RegisterUser: the first account is the owner's; its pair is issued next.  One step
\* is enough for the two saves: who is told that there is an owner stays second,
\* since the owner is permanent (Accounts).
Register(h, u) ==
    /\ pc[h] = "idle"
    /\ u \notin Accounts
    /\ LET r == IF Owners = {} THEN "owner" ELSE "user"
       IN  Assign(u, r) /\ Set(h, "issue", "session", None, "none", u, r)
    /\ UNCHANGED <<access, seen>>

\* Faulty variant: a rotation copies the role of a token that is still valid.
StartSessionFromClaims(h, u) ==
    /\ pc[h] = "idle"
    /\ u \in Accounts
    /\ \E k \in {role[u]} \cup {c.role : c \in {d \in access : d.user = u}} :
          Set(h, "issue", "session", None, "none", u, k)
    /\ UNCHANGED <<role, access, history>>

\* LoginUser and RefreshToken: the credentials are right and the account is read.
StartSession(h, u) ==
    /\ pc[h] = "idle"
    /\ u \in Accounts
    /\ Set(h, "issue", "session", None, "none", u, role[u])
    /\ UNCHANGED <<role, access, history>>

\* GeneratePair signs the role read before and the response carries the token.
GeneratePair(h) ==
    /\ pc[h] = "issue"
    /\ \/ access' = access \cup {[user |-> target[h], role |-> held[h]]}
       \/ "redis" \in Faults /\ UNCHANGED access
    /\ Finish(h)
    /\ UNCHANGED <<role, history>>

\* The last token with claims c expires.
Expire(c) ==
    /\ c \in access
    /\ access' = access \ {c}
    /\ UNCHANGED <<role, request, history>>

-----------------------------------------------------------------------------
(* Requests that need a token *)

Transports == {"http", "grpc"}

\* Routes and RPCs, and those RequireAuth or UnaryAuthInterceptor stands before.
Offered(via) == Ops \ (IF via = "http" THEN {"none", "session"}
                                       ELSE {"none", "session", "GetUser"})

Protected(via) == IF via = "http" THEN Offered(via) ELSE Offered(via) \ {"ListUsers"}

\* The token is valid and its account is there.
Authentic(c) == c \in access /\ c.user \in Accounts

\* The request reaches its handler with a caller.  Without the check there would be
\* none: every handler of UserServer refuses then, so no action is needed for it.
Authenticate(h, via, o, c) ==
    /\ pc[h] = "idle"
    /\ o \in Protected(via)
    /\ Authentic(c)
    /\ Set(h, "admitted", o, c.user, c.role, None, "none")
    /\ UNCHANGED <<role, access, history>>

\* Faulty variant: any caller may read any account.
MayReadAnybody(h, t) == t \in Accounts

\* The check of GetUser, on the role in the token.
MayRead(h, t) == t \in Accounts /\ (t = caller[h] \/ CanManageRoles(claim[h]))

\* GetMe, GetUser: the account is read and answered.
GetUser(h, t) ==
    /\ pc[h] = "admitted"
    /\ \/ op[h] = "GetMe" /\ t = caller[h]
       \/ op[h] = "GetUser"
    /\ MayRead(h, t)
    /\ seen' = seen \cup {<<caller[h], t>>}
    /\ Finish(h)
    /\ UNCHANGED <<role, access, had>>

\* The check of ListUsers.
MayList(h) == CanManageRoles(claim[h])

\* ListUsers: a page of accounts.
ListUsers(h, page) ==
    /\ pc[h] = "admitted"
    /\ op[h] = "ListUsers"
    /\ MayList(h)
    /\ page \subseteq Accounts
    /\ seen' = seen \cup ({caller[h]} \X page)
    /\ Finish(h)
    /\ UNCHANGED <<role, access, had>>

\* UpdateProfile, ChangePassword: the caller's row is read; Save writes it back,
\* role included.
ReadOwnRow(h) ==
    /\ pc[h] = "admitted"
    /\ op[h] \in {"UpdateProfile", "ChangePassword"}
    /\ Hold(h, "save", caller[h], role[caller[h]])
    /\ UNCHANGED <<role, access, history>>

\* ChangeRole: the handler checks the token, the use case reads the actor.
ChangeRole(h, t) ==
    /\ pc[h] = "admitted"
    /\ op[h] = "ChangeRole"
    /\ claim[h] = "owner"
    /\ Hold(h, "actor", t, role[caller[h]])
    /\ UNCHANGED <<role, access, history>>

\* User.ChangeRole, on the actor that was read.
MayChangeRole(h) == held[h] = "owner" /\ target[h] # caller[h]

\* The target is read and its copy gets role r.
ReadTarget(h, r) ==
    /\ pc[h] = "actor"
    /\ target[h] \in Accounts
    /\ MayChangeRole(h)
    /\ Hold(h, "save", target[h], r)
    /\ UNCHANGED <<role, access, history>>

\* Faulty variant: a schema without uq_users_owner_role.
SaveAlwaysAccepted(h) == TRUE

\* uq_users_owner_role
SaveAccepted(h) == held[h] = "owner" => Owners \subseteq {target[h]}

\* Save; its answer may be lost, the row is written all the same.
Save(h) ==
    /\ pc[h] = "save"
    /\ SaveAccepted(h)
    /\ Assign(target[h], held[h])
    /\ Finish(h)
    /\ UNCHANGED <<access, seen>>

\* The request is answered with an error and writes nothing: its input is malformed,
\* a check fails, there is no such account, the password is wrong, the unique index
\* is met, or the database fails.
Refuse(h) ==
    /\ \/ pc[h] = "admitted" /\ op[h] # "GetMe"
       \/ pc[h] = "actor" /\ ~(target[h] \in Accounts /\ MayChangeRole(h))
       \/ pc[h] = "save" /\ op[h] # "ChangeRole"
       \/ pc[h] = "save" /\ ~SaveAccepted(h)
       \/ pc[h] \in {"admitted", "actor", "save"} /\ "database" \in Faults
    /\ Finish(h)
    /\ UNCHANGED <<role, access, history>>

-----------------------------------------------------------------------------
Init ==
    /\ role = [u \in UserIds |-> "none"]
    /\ access = {}
    /\ pc = [h \in Handlers |-> "idle"]
    /\ op = [h \in Handlers |-> "none"]
    /\ caller = [h \in Handlers |-> None]
    /\ claim = [h \in Handlers |-> "none"]
    /\ target = [h \in Handlers |-> None]
    /\ held = [h \in Handlers |-> "none"]
    /\ had = [u \in UserIds |-> {}]
    /\ seen = {}

\* What a request does after it has begun.
Step(h) ==
    \/ GeneratePair(h)
    \/ \E t \in UserIds : GetUser(h, t) \/ ChangeRole(h, t)
    \/ \E page \in SUBSET UserIds : ListUsers(h, page)
    \/ ReadOwnRow(h)
    \/ \E r \in Roles : ReadTarget(h, r)
    \/ Save(h)
    \/ Refuse(h)

Next ==
    \/ \E h \in Handlers :
          \/ \E u \in UserIds : Register(h, u) \/ StartSession(h, u)
          \/ \E via \in Transports, o \in Ops, c \in Claims : Authenticate(h, via, o, c)
          \/ Step(h)
    \/ \E c \in Claims : Expire(c)

Spec == Init /\ [][Next]_vars

\* Requests run on, and tokens that are not replaced expire: a token lives for
\* JWT_ACCESS_TTL.
FairSpec ==
    /\ Spec
    /\ \A h \in Handlers : WF_vars(Step(h))
    /\ \A c \in Claims : WF_vars(Expire(c))

-----------------------------------------------------------------------------
(* Properties *)

\* The owner's tokens say owner and nobody else's do: the check of ChangeRole's
\* handlers, on the token, and the one of the use case, on the table, never part.
OwnerClaimsAreTrue == \A c \in access : c.role = "owner" <=> c.user \in Owners

\* A role in a token may be out of date but not made up: its account has had it,
\* whichever way the token was obtained and whatever was saved since.
ClaimsWereTrue == \A c \in access : c.role \in had[c.user]

\* Only managers, or accounts that have been, have read others' data.
OthersSeenByManagers ==
    \A s \in seen : s[1] # s[2] => \E r \in had[s[1]] : CanManageRoles(r)

\* A role is about to be changed only by a request of the one who is the owner
\* now, for another account, whose change cannot take the ownership away.
RoleChangedByOwner ==
    \A h \in Handlers :
        pc[h] = "save" /\ op[h] = "ChangeRole" =>
            caller[h] \in Owners /\ target[h] \in Accounts \ Owners

\* The roles change as AccountRoles says, which Accounts, where a registration takes
\* several steps and whole rows are saved, implements as well.
Table == INSTANCE AccountRoles

RolesSpec == Table!Spec

\* A right that is taken away for good is gone for good some time later: no token
\* that still carries it is renewed for ever.  ("The 15-minute TTL limits the
\* exposure window.")
LostRightsEnd ==
    \A u \in UserIds :
        <>[](role[u] = "user") => <>[]([user |-> u, role |-> "admin"] \notin access)

\* What it rests on: once an account is a plain user's again and no request still
\* holds it as an admin, no login, rotation or save makes it one, or signs the role
\* for it; only another decision of the owner does.
AdminIsGone(u) ==
    role[u] = "user" /\ \A h \in Handlers : target[h] = u => held[h] # "admin"

NewDecision(u) ==
    \E h \in Handlers : /\ pc[h] = "actor" /\ held'[h] = "admin"
                        /\ target[h] = u /\ caller[h] \in Owners

LostRightsStayLost ==
    [][\A u \in UserIds : AdminIsGone(u) =>
          /\ AdminIsGone(u)' \/ NewDecision(u)
          /\ [user |-> u, role |-> "admin"] \notin access' \ access]_vars

-----------------------------------------------------------------------------
(* Why they hold *)

\* There is one owner as soon as there is an account; tokens are for accounts.
OneOwner ==
    /\ \A u, v \in Owners : u = v
    /\ Accounts # {} => Owners # {}
    /\ \A c \in access : c.user \in Accounts
    /\ \A u \in Accounts : role[u] \in had[u]

\* What is still true of role r, once read from account u or its token.
OnceRole(u, r) == u \in Accounts /\ r \in had[u] /\ (r = "owner" <=> u \in Owners)

\* What a request knows.
RequestsAreTrue ==
    \A h \in Handlers :
        /\ pc[h] \in {"admitted", "actor", "save"} => OnceRole(caller[h], claim[h])
        /\ pc[h] = "issue" => OnceRole(target[h], held[h])
        /\ pc[h] = "actor" => op[h] = "ChangeRole" /\ (held[h] = "owner" => caller[h] \in Owners)
        /\ pc[h] = "save" /\ op[h] # "ChangeRole" => OnceRole(target[h], held[h])

IInv ==
    /\ TypeOK
    /\ OneOwner
    /\ RequestsAreTrue
    /\ RoleChangedByOwner
    /\ OwnerClaimsAreTrue
    /\ ClaimsWereTrue
    /\ OthersSeenByManagers
==============================================================================
