------------------------------ MODULE Accounts ------------------------------
(***************************************************************************)
(* The users table and the four use cases that write it: RegisterUser,     *)
(* UpdateProfile, ChangePassword and ChangeUserRole, run by concurrent     *)
(* request handlers over the PostgreSQL repository.                        *)
(*                                                                         *)
(* A handler is a sequence of database accesses; between two of them any   *)
(* other handler may run.  Save writes every column of the row the handler *)
(* read earlier, so whatever was committed in between is overwritten.  One *)
(* action is one database access together with the code up to the next.    *)
(*                                                                         *)
(* Data: a password stands for its hash (Verify(p, Hash(q)) iff p = q);    *)
(* created_at, updated_at and is_active are left out (no use case changes  *)
(* is_active).  An uuid is a value no account or pending candidate holds.  *)
(***************************************************************************)
EXTENDS FiniteSets

CONSTANTS
    Handlers,     \* request goroutines, each serving any number of requests
    UserIds,      \* values uuid.New may return
    Emails, Passwords, Names,
    None,         \* no id, no row
    Faults        \* what may fail, see Fault

Roles == {"owner", "admin", "user"}

Rows == [email : Emails, password : Passwords, name : Names, role : Roles]

ASSUME NoneAssumption == /\ None \notin UserIds
                         /\ None \notin Rows

\* "database": a query fails, or the client goes away, before the query has an
\* effect, or a write is committed and its reply lost.  "redis": GeneratePair
\* cannot store the tokens.  "audit": an insert into audit_log fails.
Fault == {"database", "redis", "audit"}

ASSUME FaultAssumption == Faults \subseteq Fault

VARIABLES
    users,     \* the table: row of each id, None when there is no such row
    audit,     \* rows of audit_log
    pc,        \* next step of each handler
    op,        \* use case the handler runs
    actor,     \* authenticated caller
    uid,       \* id the handler reads or writes
    row,       \* *entity.User the handler holds
    granted    \* history: roles an owner has decided to give each account

tableVars == <<users, audit>>
handlerVars == <<pc, op, actor, uid, row>>
vars == <<users, audit, pc, op, actor, uid, row, granted>>

Steps == {"idle", "claim", "fallback", "issue", "target", "save"}
Ops == {"none", "register", "profile", "password", "changeRole"}
Events == [event : {"user_registered", "role_changed", "password_changed"},
           actor : UserIds, subject : UserIds \cup {None}]

\* What a handler holds at each step.
HandlerOK(h) ==
    /\ pc[h] = "idle" => op[h] = "none" /\ uid[h] = None /\ row[h] = None
    /\ pc[h] # "idle" => op[h] # "none" /\ uid[h] # None /\ row[h] # None
    /\ pc[h] \in {"claim", "fallback", "issue"} <=> op[h] = "register"
    /\ pc[h] = "target" => op[h] = "changeRole"
    /\ op[h] \in {"profile", "password", "changeRole"} <=> actor[h] # None

TypeOK ==
    /\ users \in [UserIds -> Rows \cup {None}]
    /\ audit \subseteq Events
    /\ pc \in [Handlers -> Steps]
    /\ op \in [Handlers -> Ops]
    /\ actor \in [Handlers -> UserIds \cup {None}]
    /\ uid \in [Handlers -> UserIds \cup {None}]
    /\ row \in [Handlers -> Rows \cup {None}]
    /\ granted \in [UserIds -> SUBSET Roles]
    /\ \A h \in Handlers : HandlerOK(h)

-----------------------------------------------------------------------------
(* The table *)

Accounts == {u \in UserIds : users[u] # None}

Owners == {u \in Accounts : users[u].role = "owner"}

\* An id nobody holds: the value uuid.New returns.
FreshIds == {u \in UserIds \ Accounts : \A h \in Handlers : uid[h] # u}

\* Faulty variant: a schema without uq_users_owner_role.
ConflictsWithoutOwnerIndex(u, r) == \E v \in Accounts \ {u} : users[v].email = r.email

\* Writing row r under id u would break users.email UNIQUE or uq_users_owner_role.
Conflicts(u, r) ==
    \E v \in Accounts \ {u} :
        \/ users[v].email = r.email
        \/ users[v].role = "owner" /\ r.role = "owner"

Write(u, r) == users' = [users EXCEPT ![u] = r]

\* AuditPort.Record: one insert whose failure is only logged.
Record(e) ==
    \/ audit' = audit \cup {e}
    \/ "audit" \in Faults /\ UNCHANGED audit

-----------------------------------------------------------------------------
(* Handlers *)

\* The request is answered, with a result or an error.
Finish(h) ==
    /\ pc' = [pc EXCEPT ![h] = "idle"]
    /\ op' = [op EXCEPT ![h] = "none"]
    /\ actor' = [actor EXCEPT ![h] = None]
    /\ uid' = [uid EXCEPT ![h] = None]
    /\ row' = [row EXCEPT ![h] = None]

\* The handler goes on to step s holding row r of id u.
GoOn(h, s, u, r) ==
    /\ pc' = [pc EXCEPT ![h] = s]
    /\ uid' = [uid EXCEPT ![h] = u]
    /\ row' = [row EXCEPT ![h] = r]

Begin(h, use, a, s, u, r) ==
    /\ pc[h] = "idle"
    /\ op' = [op EXCEPT ![h] = use]
    /\ actor' = [actor EXCEPT ![h] = a]
    /\ GoOn(h, s, u, r)

\* The next database access fails before it has an effect, or (at "issue")
\* GeneratePair fails: the use case returns the error and undoes nothing.
Fail(h) ==
    /\ \/ pc[h] \in {"claim", "fallback", "target", "save"} /\ "database" \in Faults
       \/ pc[h] = "issue" /\ "redis" \in Faults
    /\ Finish(h)
    /\ UNCHANGED <<users, audit, granted>>

\* A write of row r is committed; the handler learns it and goes on with next, or
\* the connection breaks and it sees an error.
Commit(h, r, next) ==
    /\ Write(uid[h], r)
    /\ \/ next
       \/ "database" \in Faults /\ Finish(h) /\ UNCHANGED audit
    /\ UNCHANGED granted

(* RegisterUser *)

NewUser(e, p, n, r) == [email |-> e, password |-> p, name |-> n, role |-> r]

\* Valid input, FindByEmail finds nothing, and the owner candidate is built.
\* (An e-mail already in the table ends the request with no effect.)
RegisterStart(h, e, p, n) ==
    /\ \A u \in Accounts : users[u].email # e
    /\ \E u \in FreshIds : Begin(h, "register", None, "claim", u, NewUser(e, p, n, "owner"))
    /\ UNCHANGED <<users, audit, granted>>

\* Faulty variant: the column is left out of the INSERT, which takes its default.
FirstOwnerRowByDefault(r) == [r EXCEPT !.role = "user"]

\* What SaveFirstOwner inserts: the role is a literal of the statement.
FirstOwnerRow(r) == [r EXCEPT !.role = "owner"]

\* SaveFirstOwner inserts the candidate; any unique violation means "not claimed",
\* and the use case builds a second user, with a new id and the role user.
ClaimOwner(h) ==
    /\ pc[h] = "claim"
    /\ IF Conflicts(uid[h], FirstOwnerRow(row[h]))
       THEN /\ \E u \in FreshIds : GoOn(h, "fallback", u, [row[h] EXCEPT !.role = "user"])
            /\ UNCHANGED <<users, audit, granted, op, actor>>
       ELSE Commit(h, FirstOwnerRow(row[h]),
                   GoOn(h, "issue", uid[h], row[h]) /\ UNCHANGED <<audit, op, actor>>)

\* Save of the second user: the e-mail may have been taken since FindByEmail.
SaveFallback(h) ==
    /\ pc[h] = "fallback"
    /\ ~Conflicts(uid[h], row[h])
    /\ Commit(h, row[h], GoOn(h, "issue", uid[h], row[h]) /\ UNCHANGED <<audit, op, actor>>)

\* GeneratePair succeeds, the registration is audited and answered.
IssueFirstTokens(h) ==
    /\ pc[h] = "issue"
    /\ Record([event |-> "user_registered", actor |-> uid[h], subject |-> None])
    /\ Finish(h)
    /\ UNCHANGED <<users, granted>>

(* UpdateProfile *)

ProfileStart(h, u, n) ==
    /\ u \in Accounts
    /\ Begin(h, "profile", u, "save", u, [users[u] EXCEPT !.name = n])
    /\ UNCHANGED <<users, audit, granted>>

(* ChangePassword *)

\* FindByID and Verify of the current password; a wrong one ends the request.
PasswordStart(h, u, current, new) ==
    /\ u \in Accounts
    /\ users[u].password = current
    /\ Begin(h, "password", u, "save", u, [users[u] EXCEPT !.password = new])
    /\ UNCHANGED <<users, audit, granted>>

(* ChangeUserRole *)

\* FindByID of the actor; u is the target of the request, which may not exist.
RoleStart(h, a, u) ==
    /\ a \in Accounts
    /\ Begin(h, "changeRole", a, "target", u, users[a])
    /\ UNCHANGED <<users, audit, granted>>

\* Faulty variants: owners may change their own role; Role.CanManageRoles is the
\* check instead of the role owner.
MayChangeOwnRole(actorRow, a, u) == actorRow.role = "owner"
ManagerMayChangeRole(actorRow, a, u) == actorRow.role \in {"owner", "admin"} /\ a # u

\* entity.User.ChangeRole's check, on the actor as read by RoleStart.
MayChangeRole(actorRow, a, u) == actorRow.role = "owner" /\ a # u

\* FindByID of the target, ChangeRole on the copy just read.
RoleTarget(h, r) ==
    /\ pc[h] = "target"
    /\ uid[h] \in Accounts
    /\ MayChangeRole(row[h], actor[h], uid[h])
    /\ GoOn(h, "save", uid[h], [users[uid[h]] EXCEPT !.role = r])
    /\ granted' = [granted EXCEPT ![uid[h]] =
                      IF actor[h] \in Owners THEN @ \cup {r} ELSE @]
    /\ UNCHANGED <<users, audit, op, actor>>

(* Save, at the end of the three use cases that change an account *)

\* Faulty variant: the ids of actor and target are swapped.
RecordChangeSwapped(h) ==
    CASE op[h] = "password" ->
            Record([event |-> "password_changed", actor |-> actor[h], subject |-> uid[h]])
      [] op[h] = "changeRole" ->
            Record([event |-> "role_changed", actor |-> uid[h], subject |-> actor[h]])
      [] OTHER -> UNCHANGED audit

\* The audit event of a use case; UpdateProfile records none.
RecordChange(h) ==
    CASE op[h] = "password" ->
            Record([event |-> "password_changed", actor |-> actor[h], subject |-> uid[h]])
      [] op[h] = "changeRole" ->
            Record([event |-> "role_changed", actor |-> actor[h], subject |-> uid[h]])
      [] OTHER -> UNCHANGED audit

Save(h) ==
    /\ pc[h] = "save"
    /\ ~Conflicts(uid[h], row[h])
    /\ Commit(h, row[h], RecordChange(h) /\ Finish(h))

\* The request is refused: a unique violation in Save, no such target, or
\* ErrInsufficientPerms.
Refuse(h) ==
    /\ \/ pc[h] \in {"fallback", "save"} /\ Conflicts(uid[h], row[h])
       \/ /\ pc[h] = "target"
          /\ uid[h] \in Accounts => ~MayChangeRole(row[h], actor[h], uid[h])
    /\ Finish(h)
    /\ UNCHANGED <<users, audit, granted>>

-----------------------------------------------------------------------------
Init ==
    /\ users = [u \in UserIds |-> None]
    /\ audit = {}
    /\ pc = [h \in Handlers |-> "idle"]
    /\ op = [h \in Handlers |-> "none"]
    /\ actor = [h \in Handlers |-> None]
    /\ uid = [h \in Handlers |-> None]
    /\ row = [h \in Handlers |-> None]
    /\ granted = [u \in UserIds |-> {}]

Next ==
    \E h \in Handlers :
        \/ \E e \in Emails, p \in Passwords, n \in Names : RegisterStart(h, e, p, n)
        \/ ClaimOwner(h)
        \/ SaveFallback(h)
        \/ IssueFirstTokens(h)
        \/ \E u \in UserIds, n \in Names : ProfileStart(h, u, n)
        \/ \E u \in UserIds, p, q \in Passwords : PasswordStart(h, u, p, q)
        \/ \E a, u \in UserIds : RoleStart(h, a, u)
        \/ \E r \in Roles : RoleTarget(h, r)
        \/ Save(h)
        \/ Refuse(h)
        \/ Fail(h)

Spec == Init /\ [][Next]_vars

-----------------------------------------------------------------------------
(* Properties *)

\* As soon as there is an account there is an owner: the fallback to the role
\* user is taken only behind an owner's insert, whatever the interleaving of
\* first registrations, role changes and stale saves.
OwnerExists == Accounts # {} => Owners # {}

\* SaveFirstOwner's contract "(false, nil) if an owner already exists": it maps
\* every unique violation to false, a duplicate e-mail included, and is right.
ClaimLostToOwner == \A h \in Handlers : pc[h] = "fallback" => Owners # {}

\* The owner stays the owner: no ChangeUserRole and no Save of an old copy of
\* any row takes the role away or gives it to a second account.
OwnerIsPermanent == [][Owners # {} => Owners' = Owners]_vars

\* What requests do to roles, all stale copies included, is what AccountRoles
\* allows, the specification that AccessControl implements as well.
RoleOf == [u \in UserIds |-> IF users[u] = None THEN "none" ELSE users[u].role]

Table == INSTANCE AccountRoles WITH role <- RoleOf

RolesSpec == Table!Spec

\* ChangeUserRole accepts the role owner, and its Save is then refused by
\* uq_users_owner_role: ownership is never shared, even for one step.
OwnershipIsNotGranted ==
    \A h \in Handlers :
        pc[h] = "save" /\ op[h] = "changeRole" /\ row[h].role = "owner"
            => Conflicts(uid[h], row[h])

\* A Save by UpdateProfile or ChangePassword meets no unique violation, however
\* old its copy: those requests have no error of that kind to answer.
SavesDoNotCollide ==
    \A h \in Handlers :
        pc[h] = "save" /\ op[h] \in {"profile", "password"}
            => ~Conflicts(uid[h], row[h])

\* An admin is an admin by an owner's decision: neither a registration nor a
\* stale copy brings in a role the owner never gave to that very account.
AdminIsGranted ==
    \A u \in Accounts : users[u].role = "admin" => "admin" \in granted[u]

\* role_changed is only ever audited for a decision of the one owner on another
\* account, and that account exists.
RoleAuditIsTrue ==
    \A e \in audit :
        e.event = "role_changed" =>
            /\ e.actor \in Owners
            /\ e.subject \in Accounts \ Owners
            /\ granted[e.subject] # {}

(* Stated by the repository and not so *)

\* "Change a user's role (Owner only, ...)": no other use case changes a role.
OnlyChangeRoleChangesRoles ==
    [][\A u \in Accounts :
          users'[u].role # users[u].role
              => \E h \in Handlers : op[h] = "changeRole" /\ pc[h] = "save" /\ pc'[h] = "idle"
      ]_vars

-----------------------------------------------------------------------------
(* Inductive invariant *)

UniqueKeys ==
    /\ \A u, v \in Accounts : users[u].email = users[v].email => u = v
    /\ \A u, v \in Owners : u = v

\* Ids of pending candidates are in no row and held by one handler.
CandidateIds ==
    \A h \in Handlers : pc[h] \in {"claim", "fallback"} =>
        /\ uid[h] \notin Accounts
        /\ row[h].role = IF pc[h] = "claim" THEN "owner" ELSE "user"
        /\ \A g \in Handlers \ {h} : pc[g] # "idle" /\ op[g] # "changeRole" => uid[g] # uid[h]

\* A copy of row u that was read from the table at some time: the e-mail and
\* whether it is the owner are still right, and an admin was granted.
CopyOf(r, u) ==
    /\ u \in Accounts
    /\ r.email = users[u].email
    /\ r.role = "owner" <=> u \in Owners
    /\ r.role = "admin" => "admin" \in granted[u]

Copies ==
    \A h \in Handlers :
        /\ pc[h] = "target" => CopyOf(row[h], actor[h])
        /\ pc[h] = "save" /\ op[h] # "changeRole" => CopyOf(row[h], uid[h])
        /\ pc[h] = "save" /\ op[h] = "changeRole" =>
              /\ actor[h] \in Owners
              /\ uid[h] \in Accounts \ Owners
              /\ row[h].email = users[uid[h]].email
              /\ row[h].role \in granted[uid[h]]

IInv ==
    /\ TypeOK
    /\ OwnerExists
    /\ ClaimLostToOwner
    /\ AdminIsGranted
    /\ RoleAuditIsTrue
    /\ UniqueKeys
    /\ CandidateIds
    /\ Copies
=============================================================================
