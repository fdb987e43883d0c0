--------------------------- MODULE AccountsProofs ---------------------------
(***************************************************************************)
(* Theorems about Accounts, for every number of handlers, ids, e-mails,    *)
(* passwords and names and every set of faults.                            *)
(***************************************************************************)
EXTENDS Accounts, TLAPS

-----------------------------------------------------------------------------
(* Type correctness *)

\* What a handler's step does to its own variables keeps their types.
LEMMA FinishType ==
    ASSUME TypeOK, NEW h \in Handlers, Finish(h)
    PROVE  /\ pc' \in [Handlers -> Steps]
           /\ op' \in [Handlers -> Ops]
           /\ actor' \in [Handlers -> UserIds \cup {None}]
           /\ uid' \in [Handlers -> UserIds \cup {None}]
           /\ row' \in [Handlers -> Rows \cup {None}]
           /\ pc'[h] = "idle" /\ op'[h] = "none"
           /\ actor'[h] = None /\ uid'[h] = None /\ row'[h] = None
           /\ \A g \in Handlers \ {h} :
                 /\ pc'[g] = pc[g] /\ op'[g] = op[g]
                 /\ actor'[g] = actor[g] /\ uid'[g] = uid[g] /\ row'[g] = row[g]
BY DEF TypeOK, HandlerOK, Finish, Steps, Ops

LEMMA GoOnType ==
    ASSUME TypeOK, NEW h \in Handlers, NEW s \in Steps, NEW u \in UserIds, NEW r \in Rows,
           GoOn(h, s, u, r)
    PROVE  /\ pc' \in [Handlers -> Steps]
           /\ uid' \in [Handlers -> UserIds \cup {None}]
           /\ row' \in [Handlers -> Rows \cup {None}]
           /\ pc'[h] = s /\ uid'[h] = u /\ row'[h] = r
           /\ \A g \in Handlers \ {h} :
                 pc'[g] = pc[g] /\ uid'[g] = uid[g] /\ row'[g] = row[g]
BY DEF TypeOK, GoOn

LEMMA BeginType ==
    ASSUME TypeOK, NEW h \in Handlers, NEW use \in Ops, NEW a \in UserIds \cup {None},
           NEW s \in Steps, NEW u \in UserIds, NEW r \in Rows, Begin(h, use, a, s, u, r),
           <<use, s>> \in {<<"register", "claim">>, <<"profile", "save">>,
                           <<"password", "save">>, <<"changeRole", "target">>},
           use = "register" <=> a = None,
           UNCHANGED <<users, audit, granted>>
    PROVE  /\ TypeOK'
           /\ pc[h] = "idle"
           /\ pc'[h] = s /\ op'[h] = use /\ actor'[h] = a /\ uid'[h] = u /\ row'[h] = r
           /\ \A g \in Handlers \ {h} :
                 /\ pc'[g] = pc[g] /\ op'[g] = op[g]
                 /\ actor'[g] = actor[g] /\ uid'[g] = uid[g] /\ row'[g] = row[g]
<1>1. GoOn(h, s, u, r)
    BY DEF Begin
<1>2. /\ pc[h] = "idle"
      /\ op' \in [Handlers -> Ops]
      /\ actor' \in [Handlers -> UserIds \cup {None}]
      /\ op'[h] = use /\ actor'[h] = a
      /\ \A g \in Handlers \ {h} : op'[g] = op[g] /\ actor'[g] = actor[g]
    BY DEF TypeOK, Begin
<1>3. /\ pc' \in [Handlers -> Steps]
      /\ uid' \in [Handlers -> UserIds \cup {None}]
      /\ row' \in [Handlers -> Rows \cup {None}]
      /\ pc'[h] = s /\ uid'[h] = u /\ row'[h] = r
      /\ \A g \in Handlers \ {h} :
            pc'[g] = pc[g] /\ uid'[g] = uid[g] /\ row'[g] = row[g]
    BY <1>1, GoOnType
<1>4. /\ users' \in [UserIds -> Rows \cup {None}]
      /\ audit' \subseteq Events
      /\ granted' \in [UserIds -> SUBSET Roles]
    BY DEF TypeOK
<1>5. \A g \in Handlers : HandlerOK(g)'
    BY <1>2, <1>3, NoneAssumption DEF TypeOK, HandlerOK
<1> QED
    BY <1>2, <1>3, <1>4, <1>5 DEF TypeOK

\* The use case builds the candidate with the role the INSERT has.
LEMMA ClaimedAsIs ==
    ASSUME NEW r \in Rows, r.role = "owner"
    PROVE  FirstOwnerRow(r) = r
BY DEF FirstOwnerRow, Rows

LEMMA TypeInit == Init => TypeOK
BY DEF Init, TypeOK, HandlerOK, Steps, Ops

LEMMA TypeStep == TypeOK /\ [Next]_vars => TypeOK'
<1> SUFFICES ASSUME TypeOK, [Next]_vars PROVE TypeOK'
    OBVIOUS
<1> USE NoneAssumption
<1>1. CASE UNCHANGED vars
    BY <1>1 DEF TypeOK, HandlerOK, vars
<1>2. ASSUME NEW h \in Handlers, NEW e \in Emails, NEW p \in Passwords, NEW n \in Names,
             RegisterStart(h, e, p, n)
      PROVE  TypeOK'
    <2>1. PICK u \in FreshIds :
              Begin(h, "register", None, "claim", u, NewUser(e, p, n, "owner"))
        BY <1>2 DEF RegisterStart
    <2>2. /\ "register" \in Ops \ {"none"} /\ "claim" \in Steps /\ u \in UserIds
          /\ NewUser(e, p, n, "owner") \in Rows
        BY DEF Ops, Steps, FreshIds, NewUser, Rows, Roles
    <2> QED
        BY <1>2, <2>1, <2>2, BeginType DEF RegisterStart, Ops
<1>3. ASSUME NEW h \in Handlers, ClaimOwner(h) PROVE TypeOK'
    <2>1. pc[h] = "claim" /\ uid[h] \in UserIds /\ row[h] \in Rows
          /\ "issue" \in Steps /\ "fallback" \in Steps /\ FirstOwnerRow(row[h]) \in Rows
        BY <1>3 DEF ClaimOwner, TypeOK, HandlerOK, Steps, FirstOwnerRow, Rows, Roles
    <2>2. CASE Conflicts(uid[h], FirstOwnerRow(row[h]))
        <3>1. PICK u \in FreshIds : GoOn(h, "fallback", u, [row[h] EXCEPT !.role = "user"])
            BY <1>3, <2>2 DEF ClaimOwner
        <3>2. u \in UserIds /\ [row[h] EXCEPT !.role = "user"] \in Rows
            BY <2>1 DEF FreshIds, Rows, Roles
        <3> QED
            BY <1>3, <2>1, <2>2, <3>1, <3>2, GoOnType DEF TypeOK, HandlerOK, ClaimOwner
    <2>3. CASE ~Conflicts(uid[h], FirstOwnerRow(row[h]))
        <3>1. /\ Write(uid[h], FirstOwnerRow(row[h]))
              /\ UNCHANGED <<audit, granted>>
              /\ \/ GoOn(h, "issue", uid[h], row[h]) /\ UNCHANGED <<op, actor>>
                 \/ Finish(h)
            BY <1>3, <2>3 DEF ClaimOwner, Commit
        <3>2. CASE Finish(h)
            BY <2>1, <3>1, <3>2, FinishType DEF TypeOK, HandlerOK, Write
        <3>3. CASE GoOn(h, "issue", uid[h], row[h]) /\ UNCHANGED <<op, actor>>
            BY <2>1, <3>1, <3>3, GoOnType DEF TypeOK, HandlerOK, Write
        <3> QED
            BY <3>1, <3>2, <3>3
    <2> QED
        BY <2>2, <2>3
<1>4. ASSUME NEW h \in Handlers, SaveFallback(h) PROVE TypeOK'
    <2>1. pc[h] = "fallback" /\ uid[h] \in UserIds /\ row[h] \in Rows /\ "issue" \in Steps
        BY <1>4 DEF SaveFallback, TypeOK, HandlerOK, Steps
    <2>2. /\ Write(uid[h], row[h])
          /\ UNCHANGED <<audit, granted>>
          /\ \/ GoOn(h, "issue", uid[h], row[h]) /\ UNCHANGED <<op, actor>>
             \/ Finish(h)
        BY <1>4 DEF SaveFallback, Commit
    <2>3. CASE Finish(h)
        BY <2>1, <2>2, <2>3, FinishType DEF TypeOK, HandlerOK, Write
    <2>4. CASE GoOn(h, "issue", uid[h], row[h]) /\ UNCHANGED <<op, actor>>
        BY <2>1, <2>2, <2>4, GoOnType DEF TypeOK, HandlerOK, Write
    <2> QED
        BY <2>2, <2>3, <2>4
<1>5. ASSUME NEW h \in Handlers, IssueFirstTokens(h) PROVE TypeOK'
    <2>1. uid[h] \in UserIds
        BY <1>5 DEF IssueFirstTokens, TypeOK, HandlerOK
    <2>2. audit' \subseteq Events
        BY <1>5, <2>1 DEF IssueFirstTokens, Record, Events, TypeOK, HandlerOK
    <2> QED
        BY <1>5, <2>2, FinishType DEF TypeOK, HandlerOK, IssueFirstTokens
<1>6. ASSUME NEW h \in Handlers, NEW u \in UserIds, NEW n \in Names, ProfileStart(h, u, n)
      PROVE  TypeOK'
    <2>1. /\ "profile" \in Ops \ {"none"} /\ "save" \in Steps
          /\ users[u] \in Rows
        BY <1>6 DEF ProfileStart, Accounts, TypeOK, HandlerOK, Ops, Steps
    <2>2. /\ Begin(h, "profile", u, "save", u, [users[u] EXCEPT !.name = n])
          /\ [users[u] EXCEPT !.name = n] \in Rows
        BY <1>6, <2>1 DEF ProfileStart, Rows
    <2> QED
        BY <1>6, <2>1, <2>2, BeginType DEF ProfileStart, Ops
<1>7. ASSUME NEW h \in Handlers, NEW u \in UserIds, NEW p \in Passwords, NEW q \in Passwords,
             PasswordStart(h, u, p, q)
      PROVE  TypeOK'
    <2>1. /\ "password" \in Ops \ {"none"} /\ "save" \in Steps
          /\ users[u] \in Rows
        BY <1>7 DEF PasswordStart, Accounts, TypeOK, HandlerOK, Ops, Steps
    <2>2. /\ Begin(h, "password", u, "save", u, [users[u] EXCEPT !.password = q])
          /\ [users[u] EXCEPT !.password = q] \in Rows
        BY <1>7, <2>1 DEF PasswordStart, Rows
    <2> QED
        BY <1>7, <2>1, <2>2, BeginType DEF PasswordStart, Ops
<1>8. ASSUME NEW h \in Handlers, NEW a \in UserIds, NEW u \in UserIds, RoleStart(h, a, u)
      PROVE  TypeOK'
    <2>1. /\ "changeRole" \in Ops \ {"none"} /\ "target" \in Steps
          /\ users[a] \in Rows
        BY <1>8 DEF RoleStart, Accounts, TypeOK, HandlerOK, Ops, Steps
    <2>2. Begin(h, "changeRole", a, "target", u, users[a])
        BY <1>8 DEF RoleStart
    <2> QED
        BY <1>8, <2>1, <2>2, BeginType DEF RoleStart, Ops
<1>9. ASSUME NEW h \in Handlers, NEW r \in Roles, RoleTarget(h, r) PROVE TypeOK'
    <2>1. /\ uid[h] \in UserIds /\ "save" \in Steps
          /\ users[uid[h]] \in Rows
        BY <1>9 DEF RoleTarget, Accounts, TypeOK, HandlerOK, Steps
    <2>2. /\ GoOn(h, "save", uid[h], [users[uid[h]] EXCEPT !.role = r])
          /\ [users[uid[h]] EXCEPT !.role = r] \in Rows
        BY <1>9, <2>1 DEF RoleTarget, Rows
    <2>3. granted' \in [UserIds -> SUBSET Roles]
        BY <1>9, <2>1 DEF RoleTarget, TypeOK, HandlerOK
    <2> QED
        BY <1>9, <2>1, <2>2, <2>3, GoOnType DEF TypeOK, HandlerOK, RoleTarget
<1>10. ASSUME NEW h \in Handlers, Save(h) PROVE TypeOK'
    <2>1. pc[h] = "save" /\ uid[h] \in UserIds /\ row[h] \in Rows
          /\ op[h] \in {"profile", "password", "changeRole"} /\ actor[h] \in UserIds
        BY <1>10 DEF Save, TypeOK, HandlerOK, Ops
    <2>2. Write(uid[h], row[h]) /\ Finish(h) /\ UNCHANGED granted
        BY <1>10 DEF Save, Commit
    <2>3. RecordChange(h) \/ UNCHANGED audit
        BY <1>10 DEF Save, Commit
    <2>4. audit' \subseteq Events
        BY <2>1, <2>3 DEF RecordChange, Record, Events, TypeOK, HandlerOK
    <2> QED
        BY <2>1, <2>2, <2>4, FinishType DEF TypeOK, HandlerOK, Write
<1>11. ASSUME NEW h \in Handlers, Refuse(h) \/ Fail(h) PROVE TypeOK'
    <2>1. Finish(h) /\ UNCHANGED <<users, audit, granted>>
        BY <1>11 DEF Refuse, Fail
    <2> QED
        BY <2>1, FinishType DEF TypeOK, HandlerOK
<1> QED
    BY <1>1, <1>2, <1>3, <1>4, <1>5, <1>6, <1>7, <1>8, <1>9, <1>10, <1>11 DEF Next

\* Every variable keeps its type, whatever requests run and whatever fails.
THEOREM TypeCorrect == Spec => []TypeOK
<1>1. Init => TypeOK
    BY TypeInit
<1>2. TypeOK /\ [Next]_vars => TypeOK'
    BY TypeStep
<1> QED
    BY <1>1, <1>2, PTL DEF Spec

-----------------------------------------------------------------------------
(* The inductive invariant *)

LEMMA InvInit == Init => IInv
<1> SUFFICES ASSUME Init PROVE IInv
    OBVIOUS
<1>1. TypeOK
    BY TypeInit
<1>2. Accounts = {} /\ Owners = {}
    BY DEF Init, Accounts, Owners
<1>3. \A h \in Handlers : pc[h] = "idle"
    BY DEF Init
<1> QED
    BY <1>1, <1>2, <1>3 DEF Init, IInv, OwnerExists, ClaimLostToOwner, AdminIsGranted,
                            RoleAuditIsTrue, UniqueKeys, CandidateIds, Copies

\* The table after a write of row r under id u.
LEMMA WriteFrame ==
    ASSUME TypeOK, NEW u \in UserIds, NEW r \in Rows, Write(u, r)
    PROVE  /\ users'[u] = r
           /\ \A v \in UserIds \ {u} : users'[v] = users[v]
           /\ Accounts' = Accounts \cup {u}
           /\ Owners' = IF r.role = "owner" THEN Owners \cup {u} ELSE Owners \ {u}
<1>1. /\ users'[u] = r
      /\ \A v \in UserIds \ {u} : users'[v] = users[v]
    BY DEF Write, TypeOK
<1>2. Accounts' = Accounts \cup {u}
    BY <1>1, NoneAssumption DEF Accounts
<1> QED
    BY <1>1, <1>2 DEF Owners, Accounts

\* Steps of handler h that leave the table and the decisions alone keep the parts
\* of the invariant that speak of them only.
LEMMA QuietStep ==
    ASSUME IInv, UNCHANGED <<users, granted>>
    PROVE  /\ Accounts' = Accounts /\ Owners' = Owners
           /\ OwnerExists' /\ AdminIsGranted' /\ UniqueKeys'
           /\ \A r, u : CopyOf(r, u) => CopyOf(r, u)'
<1>1. Accounts' = Accounts /\ Owners' = Owners
    BY DEF Accounts, Owners
<1> QED
    BY <1>1 DEF IInv, OwnerExists, AdminIsGranted, UniqueKeys, CopyOf

\* A handler that ends its request without writing the table.
LEMMA QuietFinish ==
    ASSUME IInv, TypeOK', NEW h \in Handlers, Finish(h), UNCHANGED <<users, granted>>,
           audit' = audit \/ \E e : e.event # "role_changed" /\ audit' = audit \cup {e}
    PROVE  IInv'
<1>1. /\ pc'[h] = "idle"
      /\ \A g \in Handlers \ {h} :
            /\ pc'[g] = pc[g] /\ op'[g] = op[g]
            /\ actor'[g] = actor[g] /\ uid'[g] = uid[g] /\ row'[g] = row[g]
    BY FinishType DEF IInv
<1>2. ClaimLostToOwner'
    BY <1>1, QuietStep DEF IInv, ClaimLostToOwner
<1>3. RoleAuditIsTrue'
    BY QuietStep DEF IInv, RoleAuditIsTrue
<1>4. CandidateIds'
    BY <1>1, QuietStep DEF IInv, CandidateIds
<1>5. Copies'
    BY <1>1, QuietStep DEF IInv, Copies
<1> QED
    BY <1>2, <1>3, <1>4, <1>5, QuietStep DEF IInv

\* A handler that starts a request on accounts it has just read.
LEMMA StartOnAccount ==
    ASSUME IInv, TypeOK', NEW h \in Handlers, UNCHANGED <<users, audit, granted>>,
           \A g \in Handlers \ {h} :
                 /\ pc'[g] = pc[g] /\ op'[g] = op[g]
                 /\ actor'[g] = actor[g] /\ uid'[g] = uid[g] /\ row'[g] = row[g],
           \/ pc'[h] = "target" /\ op'[h] = "changeRole" /\ CopyOf(row'[h], actor'[h])
           \/ /\ pc'[h] = "save" /\ op'[h] # "changeRole"
              /\ uid'[h] \in Accounts /\ CopyOf(row'[h], uid'[h])
    PROVE  IInv'
<1>1. ClaimLostToOwner'
    BY QuietStep DEF IInv, ClaimLostToOwner
<1>2. RoleAuditIsTrue'
    BY QuietStep DEF IInv, RoleAuditIsTrue
<1>3. CandidateIds'
    BY QuietStep DEF IInv, CandidateIds
<1>4. Copies'
    BY QuietStep DEF IInv, Copies, CopyOf
<1> QED
    BY <1>1, <1>2, <1>3, <1>4, QuietStep DEF IInv

\* A new account: the row of a candidate no other key stands in the way of.
LEMMA InsertStep ==
    ASSUME IInv, TypeOK', NEW h \in Handlers, pc[h] \in {"claim", "fallback"},
           ~Conflicts(uid[h], row[h]), Write(uid[h], row[h]), UNCHANGED <<audit, granted>>,
           pc'[h] \in {"issue", "idle"},
           \A g \in Handlers \ {h} :
                 /\ pc'[g] = pc[g] /\ op'[g] = op[g]
                 /\ actor'[g] = actor[g] /\ uid'[g] = uid[g] /\ row'[g] = row[g],
           pc'[h] = "idle" \/ uid'[h] = uid[h]
    PROVE  IInv'
<1> DEFINE u == uid[h]
           r == row[h]
<1>1. /\ u \in UserIds \ Accounts /\ r \in Rows
      /\ r.role = IF pc[h] = "claim" THEN "owner" ELSE "user"
    BY DEF IInv, TypeOK, HandlerOK, CandidateIds
<1>2. /\ users'[u] = r
      /\ \A v \in UserIds \ {u} : users'[v] = users[v]
      /\ Accounts' = Accounts \cup {u}
      /\ Owners' = IF r.role = "owner" THEN Owners \cup {u} ELSE Owners \ {u}
    BY <1>1, WriteFrame DEF IInv
<1>3. u \notin Owners /\ Owners \subseteq Owners' /\ Owners' # {}
    BY <1>1, <1>2 DEF IInv, Owners, ClaimLostToOwner
<1>4. OwnerExists' /\ ClaimLostToOwner'
    BY <1>3 DEF OwnerExists, ClaimLostToOwner
<1>5. AdminIsGranted'
    BY <1>1, <1>2 DEF IInv, AdminIsGranted, Accounts
<1>6. RoleAuditIsTrue'
    BY <1>1, <1>2, <1>3 DEF IInv, RoleAuditIsTrue
<1>7. UniqueKeys'
    <2>1. \A v, w \in Accounts' : users'[v].email = users'[w].email => v = w
        BY <1>1, <1>2 DEF IInv, UniqueKeys, Conflicts, Accounts
    <2>2. \A v, w \in Owners' : v = w
        BY <1>1, <1>2, <1>3 DEF IInv, UniqueKeys, Conflicts, Owners
    <2> QED
        BY <2>1, <2>2 DEF UniqueKeys
<1>8. CandidateIds'
    BY <1>1, <1>2 DEF IInv, CandidateIds, TypeOK, HandlerOK
<1>9. \A c, v : CopyOf(c, v) => CopyOf(c, v)'
    BY <1>1, <1>2, <1>3 DEF CopyOf, Accounts
<1>10. Copies'
    BY <1>1, <1>2, <1>3, <1>9 DEF IInv, Copies, Accounts
<1> QED
    BY <1>4, <1>5, <1>6, <1>7, <1>8, <1>10 DEF IInv

\* A candidate that gets an id nobody holds.
LEMMA CandidateStep ==
    ASSUME IInv, TypeOK', NEW h \in Handlers, NEW u \in FreshIds,
           UNCHANGED <<users, audit, granted>>,
           pc'[h] \in {"claim", "fallback"}, op'[h] = "register", uid'[h] = u,
           row'[h].role = IF pc'[h] = "claim" THEN "owner" ELSE "user",
           pc'[h] = "fallback" => Owners # {},
           \A g \in Handlers \ {h} :
                 /\ pc'[g] = pc[g] /\ op'[g] = op[g]
                 /\ actor'[g] = actor[g] /\ uid'[g] = uid[g] /\ row'[g] = row[g]
    PROVE  IInv'
<1>1. u \notin Accounts /\ \A g \in Handlers : uid[g] # u
    BY DEF FreshIds
<1>2. ClaimLostToOwner'
    BY QuietStep DEF IInv, ClaimLostToOwner
<1>3. RoleAuditIsTrue'
    BY QuietStep DEF IInv, RoleAuditIsTrue
<1>4. CandidateIds'
    BY <1>1, QuietStep DEF IInv, CandidateIds
<1>5. Copies'
    BY QuietStep DEF IInv, Copies
<1> QED
    BY <1>2, <1>3, <1>4, <1>5, QuietStep DEF IInv

\* ChangeUserRole decides: the actor's copy says owner, so the actor is the owner.
LEMMA DecideStep ==
    ASSUME IInv, TypeOK', NEW h \in Handlers, NEW r \in Roles, RoleTarget(h, r)
    PROVE  IInv'
<1> DEFINE u == uid[h]
<1>1. /\ pc[h] = "target" /\ op[h] = "changeRole" /\ actor[h] \in UserIds
      /\ u \in Accounts /\ actor[h] # u /\ row[h].role = "owner"
      /\ users[u] \in Rows
    BY DEF RoleTarget, MayChangeRole, IInv, TypeOK, HandlerOK, Accounts
<1>2. actor[h] \in Owners /\ CopyOf(row[h], actor[h])
    BY <1>1 DEF IInv, Copies, CopyOf
<1>3. u \notin Owners
    BY <1>1, <1>2 DEF IInv, UniqueKeys, Owners
<1>4. /\ pc'[h] = "save" /\ uid'[h] = u /\ row'[h] = [users[u] EXCEPT !.role = r]
      /\ op' = op /\ actor' = actor /\ users' = users /\ audit' = audit
      /\ \A g \in Handlers \ {h} :
            pc'[g] = pc[g] /\ uid'[g] = uid[g] /\ row'[g] = row[g]
    BY <1>1 DEF RoleTarget, GoOn, IInv, TypeOK
<1>5. row'[h].email = users[u].email /\ row'[h].role = r
    BY <1>1, <1>4 DEF Rows
<1>6. /\ r \in granted'[u]
      /\ \A v \in UserIds : granted[v] \subseteq granted'[v]
    BY <1>1, <1>2 DEF RoleTarget, IInv, TypeOK
<1>7. Accounts' = Accounts /\ Owners' = Owners
    BY <1>4 DEF Accounts, Owners
<1>8. OwnerExists' /\ ClaimLostToOwner' /\ UniqueKeys'
    BY <1>4, <1>7 DEF IInv, OwnerExists, ClaimLostToOwner, UniqueKeys
<1>9. AdminIsGranted'
    BY <1>4, <1>6, <1>7 DEF IInv, AdminIsGranted, Accounts
<1>10. RoleAuditIsTrue'
    BY <1>4, <1>6, <1>7 DEF IInv, RoleAuditIsTrue, Accounts
<1>11. CandidateIds'
    BY <1>1, <1>4, <1>7 DEF IInv, CandidateIds
<1>12. \A c, v : CopyOf(c, v) => CopyOf(c, v)'
    BY <1>4, <1>6, <1>7 DEF CopyOf, Accounts
<1>13. Copies'
    <2> SUFFICES ASSUME NEW g \in Handlers
        PROVE /\ pc'[g] = "target" => CopyOf(row[g], actor[g])'
              /\ pc'[g] = "save" /\ op'[g] # "changeRole" => CopyOf(row[g], uid[g])'
              /\ pc'[g] = "save" /\ op'[g] = "changeRole" =>
                    /\ actor'[g] \in Owners'
                    /\ uid'[g] \in Accounts' \ Owners'
                    /\ row'[g].email = users'[uid'[g]].email
                    /\ row'[g].role \in granted'[uid'[g]]
        BY DEF Copies
    <2>1. CASE g = h
        BY <2>1, <1>1, <1>2, <1>3, <1>4, <1>5, <1>6, <1>7
    <2>2. CASE g # h
        <3>1. CASE pc[g] = "save" /\ op[g] = "changeRole"
            BY <2>2, <3>1, <1>4, <1>6, <1>7 DEF IInv, Copies, Accounts
        <3>2. CASE ~(pc[g] = "save" /\ op[g] = "changeRole")
            BY <2>2, <3>2, <1>4, <1>12 DEF IInv, Copies, CopyOf
        <3> QED
            BY <3>1, <3>2
    <2> QED
        BY <2>1, <2>2
<1> QED
    BY <1>8, <1>9, <1>10, <1>11, <1>13 DEF IInv

\* What Save writes: an account, its own e-mail, and the role owner exactly where
\* it already was.
LEMMA SaveWrites ==
    ASSUME IInv, NEW h \in Handlers, pc[h] = "save", ~Conflicts(uid[h], row[h])
    PROVE  /\ uid[h] \in Accounts /\ row[h] \in Rows
           /\ row[h].email = users[uid[h]].email
           /\ row[h].role = "owner" <=> uid[h] \in Owners
           /\ row[h].role = "admin" => "admin" \in granted[uid[h]]
<1>1. row[h] \in Rows /\ op[h] \in Ops
    BY DEF IInv, TypeOK, HandlerOK
<1>2. CASE op[h] # "changeRole"
    BY <1>1, <1>2 DEF IInv, Copies, CopyOf
<1>3. CASE op[h] = "changeRole"
    <2>1. /\ actor[h] \in Owners
          /\ uid[h] \in Accounts \ Owners
          /\ row[h].email = users[uid[h]].email
          /\ row[h].role \in granted[uid[h]]
        BY <1>3 DEF IInv, Copies
    <2>2. row[h].role # "owner"
        BY <2>1 DEF Conflicts, Owners
    <2> QED
        BY <1>1, <2>1, <2>2
<1> QED
    BY <1>2, <1>3

LEMMA SaveStep ==
    ASSUME IInv, TypeOK', NEW h \in Handlers, Save(h)
    PROVE  IInv' /\ Accounts' = Accounts /\ Owners' = Owners
<1> DEFINE u == uid[h]
           r == row[h]
<1>1. pc[h] = "save" /\ Write(u, r) /\ Finish(h) /\ granted' = granted
      /\ (RecordChange(h) \/ audit' = audit)
    BY DEF Save, Commit
<1>2. /\ u \in Accounts /\ r \in Rows
      /\ r.email = users[u].email
      /\ r.role = "owner" <=> u \in Owners
      /\ r.role = "admin" => "admin" \in granted[u]
    BY <1>1, SaveWrites DEF Save
<1>3. /\ users'[u] = r
      /\ \A v \in UserIds \ {u} : users'[v] = users[v]
      /\ Accounts' = Accounts /\ Owners' = Owners
    BY <1>1, <1>2, WriteFrame DEF IInv, Accounts, Owners
<1>4. /\ pc'[h] = "idle"
      /\ \A g \in Handlers \ {h} :
            /\ pc'[g] = pc[g] /\ op'[g] = op[g]
            /\ actor'[g] = actor[g] /\ uid'[g] = uid[g] /\ row'[g] = row[g]
    BY <1>1, FinishType DEF IInv
<1>5. \A v \in Accounts : users'[v].email = users[v].email
    BY <1>2, <1>3 DEF Accounts
<1>6. OwnerExists' /\ ClaimLostToOwner'
    BY <1>3, <1>4 DEF IInv, OwnerExists, ClaimLostToOwner
<1>7. AdminIsGranted'
    BY <1>1, <1>2, <1>3 DEF IInv, AdminIsGranted, Accounts
<1>8. RoleAuditIsTrue'
    <2>1. CASE audit' = audit
        BY <2>1, <1>1, <1>3 DEF IInv, RoleAuditIsTrue
    <2>2. CASE RecordChange(h)
        <3>1. CASE op[h] = "changeRole"
            <4>1. /\ actor[h] \in Owners
                  /\ u \in Accounts \ Owners
                  /\ granted[u] # {}
                BY <1>1, <3>1 DEF IInv, Copies
            <4> QED
                BY <2>2, <3>1, <4>1, <1>1, <1>3 DEF IInv, RoleAuditIsTrue, RecordChange, Record
        <3>2. CASE op[h] # "changeRole"
            BY <2>2, <3>2, <1>1, <1>3 DEF IInv, RoleAuditIsTrue, RecordChange, Record
        <3> QED
            BY <3>1, <3>2
    <2> QED
        BY <1>1, <2>1, <2>2
<1>9. UniqueKeys'
    BY <1>3, <1>5 DEF IInv, UniqueKeys
<1>10. CandidateIds'
    BY <1>3, <1>4 DEF IInv, CandidateIds
<1>11. \A c, v : CopyOf(c, v) => CopyOf(c, v)'
    BY <1>1, <1>3, <1>5 DEF CopyOf
<1>12. Copies'
    BY <1>1, <1>3, <1>4, <1>5, <1>11 DEF IInv, Copies
<1> QED
    BY <1>3, <1>6, <1>7, <1>8, <1>9, <1>10, <1>12 DEF IInv

\* Every step of the specification keeps the invariant; only SaveFirstOwner's
\* insert, into an empty set of owners, changes who the owner is.
LEMMA InvStep == IInv /\ [Next]_vars => IInv' /\ (Owners # {} => Owners' = Owners)
<1> SUFFICES ASSUME IInv, [Next]_vars
             PROVE  IInv' /\ (Owners # {} => Owners' = Owners)
    OBVIOUS
<1>0. TypeOK /\ TypeOK'
    BY TypeStep DEF IInv
<1>1. CASE UNCHANGED vars
    <2>1. Accounts' = Accounts /\ Owners' = Owners
        BY <1>1 DEF vars, Accounts, Owners
    <2> QED
        BY <1>0, <1>1, <2>1 DEF vars, IInv, OwnerExists, ClaimLostToOwner, AdminIsGranted,
                                RoleAuditIsTrue, UniqueKeys, CandidateIds, Copies, CopyOf
<1>2. ASSUME NEW h \in Handlers, NEW e \in Emails, NEW p \in Passwords, NEW n \in Names,
             RegisterStart(h, e, p, n)
      PROVE  IInv' /\ Owners' = Owners
    <2>1. PICK u \in FreshIds :
              Begin(h, "register", None, "claim", u, NewUser(e, p, n, "owner"))
        BY <1>2 DEF RegisterStart
    <2>2. /\ "register" \in Ops /\ "claim" \in Steps /\ u \in UserIds
          /\ NewUser(e, p, n, "owner") \in Rows
          /\ UNCHANGED <<users, audit, granted>>
        BY <1>2 DEF Ops, Steps, FreshIds, NewUser, Rows, Roles, RegisterStart
    <2>3. /\ pc'[h] = "claim" /\ op'[h] = "register" /\ uid'[h] = u
          /\ row'[h] = NewUser(e, p, n, "owner")
          /\ \A g \in Handlers \ {h} :
                /\ pc'[g] = pc[g] /\ op'[g] = op[g]
                /\ actor'[g] = actor[g] /\ uid'[g] = uid[g] /\ row'[g] = row[g]
        BY <1>0, <2>1, <2>2, BeginType
    <2>4. row'[h].role = "owner"
        BY <2>3 DEF NewUser
    <2> QED
        BY <1>0, <2>2, <2>3, <2>4, CandidateStep, QuietStep
<1>3. ASSUME NEW h \in Handlers, ClaimOwner(h)
      PROVE  IInv' /\ (Owners # {} => Owners' = Owners)
    <2>1. /\ pc[h] = "claim" /\ op[h] = "register" /\ uid[h] \in UserIds /\ row[h] \in Rows
          /\ row[h].role = "owner" /\ "issue" \in Steps /\ "fallback" \in Steps
        BY <1>0, <1>3 DEF ClaimOwner, IInv, CandidateIds, TypeOK, HandlerOK, Steps
    <2>2. CASE Conflicts(uid[h], row[h])
        <3>1. /\ UNCHANGED <<users, audit, granted, op, actor>>
              /\ \E u \in FreshIds : GoOn(h, "fallback", u, [row[h] EXCEPT !.role = "user"])
            BY <1>3, <2>1, <2>2, ClaimedAsIs DEF ClaimOwner
        <3>2. PICK u \in FreshIds : GoOn(h, "fallback", u, [row[h] EXCEPT !.role = "user"])
            BY <3>1
        <3>3. u \in UserIds /\ [row[h] EXCEPT !.role = "user"] \in Rows
            BY <2>1 DEF FreshIds, Rows, Roles
        <3>4. /\ pc'[h] = "fallback" /\ op'[h] = "register" /\ uid'[h] = u
              /\ row'[h] = [row[h] EXCEPT !.role = "user"]
              /\ \A g \in Handlers \ {h} :
                    /\ pc'[g] = pc[g] /\ op'[g] = op[g]
                    /\ actor'[g] = actor[g] /\ uid'[g] = uid[g] /\ row'[g] = row[g]
            BY <1>0, <2>1, <3>1, <3>2, <3>3, GoOnType
        <3>5. row'[h].role = "user"
            BY <2>1, <3>4 DEF Rows
        <3>6. Owners # {}
            BY <2>2 DEF Conflicts, IInv, OwnerExists
        <3> QED
            BY <1>0, <3>1, <3>4, <3>5, <3>6, CandidateStep, QuietStep
    <2>3. CASE ~Conflicts(uid[h], row[h])
        <3>1. /\ Write(uid[h], row[h])
              /\ UNCHANGED <<audit, granted>>
              /\ \/ GoOn(h, "issue", uid[h], row[h]) /\ UNCHANGED <<op, actor>>
                 \/ Finish(h)
            BY <1>3, <2>1, <2>3, ClaimedAsIs DEF ClaimOwner, Commit
        <3>2. /\ pc'[h] \in {"issue", "idle"}
              /\ pc'[h] = "idle" \/ uid'[h] = uid[h]
              /\ \A g \in Handlers \ {h} :
                    /\ pc'[g] = pc[g] /\ op'[g] = op[g]
                    /\ actor'[g] = actor[g] /\ uid'[g] = uid[g] /\ row'[g] = row[g]
            BY <1>0, <2>1, <3>1, GoOnType, FinishType
        <3>3. Owners = {}
            BY <2>1, <2>3 DEF IInv, CandidateIds, Conflicts, Owners
        <3> QED
            BY <1>0, <2>1, <2>3, <3>1, <3>2, <3>3, InsertStep
    <2> QED
        BY <2>2, <2>3
<1>4. ASSUME NEW h \in Handlers, SaveFallback(h)
      PROVE  IInv' /\ Owners' = Owners
    <2>1. /\ pc[h] = "fallback" /\ uid[h] \in UserIds \ Accounts /\ row[h] \in Rows
          /\ row[h].role = "user" /\ "issue" \in Steps /\ ~Conflicts(uid[h], row[h])
        BY <1>0, <1>4 DEF SaveFallback, IInv, CandidateIds, TypeOK, HandlerOK, Steps
    <2>2. /\ Write(uid[h], row[h])
          /\ UNCHANGED <<audit, granted>>
          /\ \/ GoOn(h, "issue", uid[h], row[h]) /\ UNCHANGED <<op, actor>>
             \/ Finish(h)
        BY <1>4 DEF SaveFallback, Commit
    <2>3. /\ pc'[h] \in {"issue", "idle"}
          /\ pc'[h] = "idle" \/ uid'[h] = uid[h]
          /\ \A g \in Handlers \ {h} :
                /\ pc'[g] = pc[g] /\ op'[g] = op[g]
                /\ actor'[g] = actor[g] /\ uid'[g] = uid[g] /\ row'[g] = row[g]
        BY <1>0, <2>1, <2>2, GoOnType, FinishType
    <2>4. Owners' = Owners
        BY <1>0, <2>1, <2>2, WriteFrame DEF Owners
    <2> QED
        BY <1>0, <2>1, <2>2, <2>3, <2>4, InsertStep
<1>5. ASSUME NEW h \in Handlers, IssueFirstTokens(h)
      PROVE  IInv' /\ Owners' = Owners
    <2>1. /\ Finish(h) /\ UNCHANGED <<users, granted>>
          /\ audit' = audit \/ \E e : e.event # "role_changed" /\ audit' = audit \cup {e}
        BY <1>5 DEF IssueFirstTokens, Record
    <2> QED
        BY <1>0, <2>1, QuietFinish, QuietStep
<1>6. ASSUME NEW h \in Handlers, NEW u \in UserIds, NEW n \in Names, ProfileStart(h, u, n)
      PROVE  IInv' /\ Owners' = Owners
    <2>1. /\ "profile" \in Ops /\ "save" \in Steps
          /\ u \in Accounts /\ users[u] \in Rows
        BY <1>0, <1>6 DEF ProfileStart, Accounts, TypeOK, Ops, Steps
    <2>2. /\ Begin(h, "profile", u, "save", u, [users[u] EXCEPT !.name = n])
          /\ [users[u] EXCEPT !.name = n] \in Rows
          /\ UNCHANGED <<users, audit, granted>>
        BY <1>6, <2>1 DEF ProfileStart, Rows
    <2>3. /\ pc'[h] = "save" /\ op'[h] = "profile" /\ uid'[h] = u
          /\ row'[h] = [users[u] EXCEPT !.name = n]
          /\ \A g \in Handlers \ {h} :
                /\ pc'[g] = pc[g] /\ op'[g] = op[g]
                /\ actor'[g] = actor[g] /\ uid'[g] = uid[g] /\ row'[g] = row[g]
        BY <1>0, <2>1, <2>2, BeginType, NoneAssumption
    <2>4. row'[h].email = users[u].email /\ row'[h].role = users[u].role
        BY <2>1, <2>3 DEF Rows
    <2>5. CopyOf(row'[h], u)
        BY <2>1, <2>4 DEF CopyOf, Owners, IInv, AdminIsGranted
    <2> QED
        BY <1>0, <2>1, <2>2, <2>3, <2>5, StartOnAccount, QuietStep
<1>7. ASSUME NEW h \in Handlers, NEW u \in UserIds, NEW p \in Passwords, NEW q \in Passwords,
             PasswordStart(h, u, p, q)
      PROVE  IInv' /\ Owners' = Owners
    <2>1. /\ "password" \in Ops /\ "save" \in Steps
          /\ u \in Accounts /\ users[u] \in Rows
        BY <1>0, <1>7 DEF PasswordStart, Accounts, TypeOK, Ops, Steps
    <2>2. /\ Begin(h, "password", u, "save", u, [users[u] EXCEPT !.password = q])
          /\ [users[u] EXCEPT !.password = q] \in Rows
          /\ UNCHANGED <<users, audit, granted>>
        BY <1>7, <2>1 DEF PasswordStart, Rows
    <2>3. /\ pc'[h] = "save" /\ op'[h] = "password" /\ uid'[h] = u
          /\ row'[h] = [users[u] EXCEPT !.password = q]
          /\ \A g \in Handlers \ {h} :
                /\ pc'[g] = pc[g] /\ op'[g] = op[g]
                /\ actor'[g] = actor[g] /\ uid'[g] = uid[g] /\ row'[g] = row[g]
        BY <1>0, <2>1, <2>2, BeginType, NoneAssumption
    <2>4. row'[h].email = users[u].email /\ row'[h].role = users[u].role
        BY <2>1, <2>3 DEF Rows
    <2>5. CopyOf(row'[h], u)
        BY <2>1, <2>4 DEF CopyOf, Owners, IInv, AdminIsGranted
    <2> QED
        BY <1>0, <2>1, <2>2, <2>3, <2>5, StartOnAccount, QuietStep
<1>8. ASSUME NEW h \in Handlers, NEW a \in UserIds, NEW u \in UserIds, RoleStart(h, a, u)
      PROVE  IInv' /\ Owners' = Owners
    <2>1. /\ "changeRole" \in Ops /\ "target" \in Steps
          /\ a \in Accounts /\ users[a] \in Rows
          /\ UNCHANGED <<users, audit, granted>>
          /\ Begin(h, "changeRole", a, "target", u, users[a])
        BY <1>0, <1>8 DEF RoleStart, Accounts, TypeOK, Ops, Steps
    <2>2. /\ pc'[h] = "target" /\ op'[h] = "changeRole" /\ actor'[h] = a
          /\ row'[h] = users[a]
          /\ \A g \in Handlers \ {h} :
                /\ pc'[g] = pc[g] /\ op'[g] = op[g]
                /\ actor'[g] = actor[g] /\ uid'[g] = uid[g] /\ row'[g] = row[g]
        BY <1>0, <2>1, BeginType, NoneAssumption
    <2>3. CopyOf(row'[h], a)
        BY <2>1, <2>2 DEF CopyOf, Owners, IInv, AdminIsGranted
    <2> QED
        BY <1>0, <2>1, <2>2, <2>3, StartOnAccount, QuietStep
<1>9. ASSUME NEW h \in Handlers, NEW r \in Roles, RoleTarget(h, r)
      PROVE  IInv' /\ Owners' = Owners
    BY <1>0, <1>9, DecideStep DEF RoleTarget, Owners, Accounts
<1>10. ASSUME NEW h \in Handlers, Save(h)
       PROVE  IInv' /\ Owners' = Owners
    BY <1>0, <1>10, SaveStep
<1>11. ASSUME NEW h \in Handlers, Refuse(h) \/ Fail(h)
       PROVE  IInv' /\ Owners' = Owners
    <2>1. Finish(h) /\ UNCHANGED <<users, audit, granted>>
        BY <1>11 DEF Refuse, Fail
    <2> QED
        BY <1>0, <2>1, QuietFinish, QuietStep
<1>12. CASE Next
    BY <1>2, <1>3, <1>4, <1>5, <1>6, <1>7, <1>8, <1>9, <1>10, <1>11, <1>12 DEF Next
<1>13. CASE UNCHANGED vars
    BY <1>1, <1>13 DEF vars, Accounts, Owners
<1> QED
    BY <1>12, <1>13

-----------------------------------------------------------------------------
(* The properties *)

\* IInv holds in every reachable state.
THEOREM Inductive == Spec => []IInv
<1>1. Init => IInv
    BY InvInit
<1>2. IInv /\ [Next]_vars => IInv'
    BY InvStep
<1> QED
    BY <1>1, <1>2, PTL DEF Spec

\* Once there is an account there is an owner, whatever registrations race.
THEOREM AccountsHaveAnOwner == Spec => []OwnerExists
<1>1. IInv => OwnerExists
    BY DEF IInv
<1> QED
    BY <1>1, Inductive, PTL

\* SaveFirstOwner answers (false, nil) only when an owner exists.
THEOREM ClaimContract == Spec => []ClaimLostToOwner
<1>1. IInv => ClaimLostToOwner
    BY DEF IInv
<1> QED
    BY <1>1, Inductive, PTL

\* The first owner is the only owner for ever.
THEOREM OwnerForEver == Spec => OwnerIsPermanent
<1>1. IInv /\ [Next]_vars => [Owners # {} => Owners' = Owners]_vars
    BY InvStep
<1> QED
    BY <1>1, Inductive, PTL DEF Spec, OwnerIsPermanent

\* No account becomes an admin without the owner's decision about it.
THEOREM AdminsAreGranted == Spec => []AdminIsGranted
<1>1. IInv => AdminIsGranted
    BY DEF IInv
<1> QED
    BY <1>1, Inductive, PTL

\* role_changed is audited only for the owner's decision on another account.
THEOREM RoleAuditTruthful == Spec => []RoleAuditIsTrue
<1>1. IInv => RoleAuditIsTrue
    BY DEF IInv
<1> QED
    BY <1>1, Inductive, PTL

\* Saves by UpdateProfile and ChangePassword never break a unique index.
THEOREM SavesAreAccepted == Spec => []SavesDoNotCollide
<1>1. ASSUME IInv PROVE SavesDoNotCollide
    <2> SUFFICES ASSUME NEW h \in Handlers, pc[h] = "save", op[h] \in {"profile", "password"}
                 PROVE  ~Conflicts(uid[h], row[h])
        BY DEF SavesDoNotCollide
    <2>1. CopyOf(row[h], uid[h])
        BY <1>1 DEF IInv, Copies
    <2> SUFFICES ASSUME NEW v \in Accounts \ {uid[h]},
                        \/ users[v].email = row[h].email
                        \/ users[v].role = "owner" /\ row[h].role = "owner"
                 PROVE  FALSE
        BY DEF Conflicts
    <2>2. users[v].email # users[uid[h]].email
        BY <1>1, <2>1 DEF CopyOf, IInv, UniqueKeys
    <2>3. ~(v \in Owners /\ uid[h] \in Owners)
        BY <1>1 DEF IInv, UniqueKeys
    <2> QED
        BY <2>1, <2>2, <2>3 DEF CopyOf, Owners
<1> QED
    BY <1>1, Inductive, PTL

\* A decision to make another account owner is always refused by the index.
THEOREM OwnershipStays == Spec => []OwnershipIsNotGranted
<1>1. ASSUME IInv PROVE OwnershipIsNotGranted
    <2> SUFFICES ASSUME NEW h \in Handlers, pc[h] = "save", op[h] = "changeRole",
                        row[h].role = "owner"
                 PROVE  Conflicts(uid[h], row[h])
        BY DEF OwnershipIsNotGranted
    <2>1. actor[h] \in Owners /\ uid[h] \notin Owners
        BY <1>1 DEF IInv, Copies
    <2> QED
        BY <2>1 DEF Conflicts, Owners
<1> QED
    BY <1>1, Inductive, PTL

-----------------------------------------------------------------------------
(* The users table implements AccountRoles *)

\* A write changes the role of its own account only.
LEMMA RoleWritten ==
    ASSUME TypeOK, NEW u \in UserIds, NEW r \in Rows, Write(u, r)
    PROVE  RoleOf' = [RoleOf EXCEPT ![u] = r.role]
<1>1. /\ users'[u] = r
      /\ \A v \in UserIds \ {u} : users'[v] = users[v]
    BY WriteFrame
<1>2. \A v \in UserIds : RoleOf'[v] = [RoleOf EXCEPT ![u] = r.role][v]
    BY <1>1, NoneAssumption DEF RoleOf
<1> QED
    BY <1>2 DEF RoleOf

\* The accounts and the owners of the abstract table are those of the concrete one.
LEMMA RolesRead ==
    ASSUME TypeOK
    PROVE  /\ \A u \in UserIds : RoleOf[u] = "none" <=> u \notin Accounts
           /\ \A u \in Accounts : RoleOf[u] = users[u].role
           /\ Table!Owners = Owners
<1>1. \A u \in Accounts : users[u] \in Rows
    BY DEF TypeOK, Accounts
<1>2. \A u \in UserIds : RoleOf[u] = "none" <=> u \notin Accounts
    BY <1>1 DEF RoleOf, Accounts, Rows, Roles
<1>3. \A u \in Accounts : RoleOf[u] = users[u].role
    BY DEF RoleOf, Accounts
<1> QED
    BY <1>2, <1>3 DEF Table!Owners, Owners, Accounts

LEMMA RolesInit == Init => Table!Init
BY DEF Init, Table!Init, RoleOf

\* SaveFirstOwner's insert is the first account of the abstract table.
LEMMA ClaimIsFirst ==
    ASSUME IInv, NEW h \in Handlers, ClaimOwner(h)
    PROVE  [Table!Next]_RoleOf
<1>1. /\ pc[h] = "claim" /\ uid[h] \in UserIds /\ row[h] \in Rows /\ TypeOK
      /\ row[h].role = "owner"
    BY DEF ClaimOwner, IInv, CandidateIds, TypeOK, HandlerOK
<1>2. CASE Conflicts(uid[h], row[h])
    BY <1>1, <1>2, ClaimedAsIs DEF ClaimOwner, RoleOf
<1>3. CASE ~Conflicts(uid[h], row[h])
    <2>1. Write(uid[h], row[h])
        BY <1>1, <1>3, ClaimedAsIs DEF ClaimOwner, Commit
    <2>2. Owners = {}
        BY <1>1, <1>3 DEF IInv, CandidateIds, Conflicts, Owners
    <2>3. Accounts = {}
        BY <2>2 DEF IInv, OwnerExists
    <2>4. Table!ClaimOwnership(uid[h])
        BY <1>1, <2>1, <2>3, RoleWritten, RolesRead DEF Table!ClaimOwnership
    <2> QED
        BY <1>1, <2>4 DEF Table!Next
<1> QED
    BY <1>2, <1>3

\* The fallback's insert is a later account, a plain user's.
LEMMA FallbackJoins ==
    ASSUME IInv, NEW h \in Handlers, SaveFallback(h)
    PROVE  [Table!Next]_RoleOf
<1>1. /\ uid[h] \in UserIds \ Accounts /\ row[h] \in Rows /\ TypeOK
      /\ row[h].role = "user" /\ Owners # {}
    BY DEF SaveFallback, IInv, CandidateIds, TypeOK, HandlerOK, ClaimLostToOwner
<1>2. Write(uid[h], row[h])
    BY DEF SaveFallback, Commit
<1>3. Table!Join(uid[h])
    BY <1>1, <1>2, RoleWritten, RolesRead DEF Table!Join
<1> QED
    BY <1>1, <1>3 DEF Table!Next

\* A Save, of however old a copy, changes a role that is not the owner's or none.
LEMMA SaveChanges ==
    ASSUME IInv, NEW h \in Handlers, Save(h)
    PROVE  [Table!Next]_RoleOf
<1> DEFINE u == uid[h]
           r == row[h]
<1>1. TypeOK /\ pc[h] = "save" /\ Write(u, r) /\ ~Conflicts(u, r)
    BY DEF IInv, Save, Commit
<1>2. /\ u \in Accounts /\ u \in UserIds /\ r \in Rows
      /\ r.role = "owner" <=> u \in Owners
    BY <1>1, SaveWrites DEF Accounts
<1>3. RoleOf' = [RoleOf EXCEPT ![u] = r.role]
    BY <1>1, <1>2, RoleWritten
<1>4. RoleOf[u] = users[u].role /\ users[u] \in Rows
    BY <1>1, <1>2, RolesRead DEF TypeOK, Accounts
<1>5. CASE u \in Owners
    <2>1. RoleOf[u] = r.role
        BY <1>2, <1>4, <1>5 DEF Owners
    <2> QED
        BY <1>3, <2>1 DEF RoleOf
<1>6. CASE u \notin Owners
    <2>1. /\ r.role \in {"admin", "user"}
          /\ RoleOf[u] \in {"admin", "user"}
        BY <1>2, <1>4, <1>6 DEF Owners, Rows, Roles
    <2>2. Table!Change(u, r.role)
        BY <1>3, <2>1 DEF Table!Change
    <2> QED
        BY <1>2, <2>1, <2>2 DEF Table!Next
<1> QED
    BY <1>5, <1>6

LEMMA RolesStep == IInv /\ [Next]_vars => [Table!Next]_RoleOf
<1> SUFFICES ASSUME IInv, [Next]_vars PROVE [Table!Next]_RoleOf
    OBVIOUS
<1>1. CASE UNCHANGED users
    BY <1>1 DEF RoleOf
<1>2. ASSUME NEW h \in Handlers, ClaimOwner(h) \/ SaveFallback(h) \/ Save(h)
      PROVE  [Table!Next]_RoleOf
    BY <1>2, ClaimIsFirst, FallbackJoins, SaveChanges
<1> QED
    BY <1>1, <1>2 DEF Next, vars, RegisterStart, IssueFirstTokens, ProfileStart,
                      PasswordStart, RoleStart, RoleTarget, Refuse, Fail

\* Whatever requests race and whatever fails, the roles in the table change as
\* AccountRoles allows: the first account is the owner's for good, later ones
\* start as plain users, and no one else is made an owner.
THEOREM RolesAreKept == Spec => RolesSpec
<1>1. Init => Table!Init
    BY RolesInit
<1>2. IInv /\ [Next]_vars => [Table!Next]_RoleOf
    BY RolesStep
<1> QED
    BY <1>1, <1>2, Inductive, PTL DEF Spec, RolesSpec, Table!Spec
=============================================================================
