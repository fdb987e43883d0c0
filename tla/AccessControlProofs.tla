------------------------ MODULE AccessControlProofs ------------------------
(***************************************************************************)
(* Theorems about AccessControl, for any number of requests and accounts   *)
(* and any set of faults.                                                  *)
(***************************************************************************)
EXTENDS AccessControl, TLAPS

\* What the fields of one request have to do with each other.
Shape(s, o, c, r, t, k) ==
    /\ s = "idle" <=> o = "none"
    /\ s = "issue" <=> o = "session"
    /\ s \in {"admitted", "actor", "save"} <=> c # None
    /\ s \in {"admitted", "actor", "save"} <=> r # "none"
    /\ s \in {"issue", "actor", "save"} <=> t # None
    /\ s \in {"issue", "actor", "save"} <=> k # "none"

\* The part of TypeOK about requests.
RequestsOK ==
    /\ pc \in [Handlers -> Steps]
    /\ op \in [Handlers -> Ops]
    /\ caller \in [Handlers -> UserIds \cup {None}]
    /\ claim \in [Handlers -> Roles \cup {"none"}]
    /\ target \in [Handlers -> UserIds \cup {None}]
    /\ held \in [Handlers -> Roles \cup {"none"}]
    /\ \A h \in Handlers : Shape(pc[h], op[h], caller[h], claim[h], target[h], held[h])

LEMMA TypeSplit ==
    TypeOK <=> /\ role \in [UserIds -> Roles \cup {"none"}]
               /\ access \subseteq Claims
               /\ RequestsOK
               /\ had \in [UserIds -> SUBSET Roles]
               /\ seen \subseteq UserIds \X UserIds
BY DEF TypeOK, RequestsOK, Shape

\* What Set does: to request h, and to no other.
LEMMA SetEffect ==
    ASSUME RequestsOK, NEW h \in Handlers, NEW s, NEW o, NEW c, NEW r, NEW t, NEW k,
           Set(h, s, o, c, r, t, k)
    PROVE  /\ pc'[h] = s /\ op'[h] = o /\ caller'[h] = c
           /\ claim'[h] = r /\ target'[h] = t /\ held'[h] = k
           /\ \A g \in Handlers \ {h} :
                 /\ pc'[g] = pc[g] /\ op'[g] = op[g] /\ caller'[g] = caller[g]
                 /\ claim'[g] = claim[g] /\ target'[g] = target[g] /\ held'[g] = held[g]
BY DEF RequestsOK, Set

LEMMA SetType ==
    ASSUME RequestsOK, NEW h \in Handlers, NEW s \in Steps, NEW o \in Ops,
           NEW c \in UserIds \cup {None}, NEW r \in Roles \cup {"none"},
           NEW t \in UserIds \cup {None}, NEW k \in Roles \cup {"none"},
           Set(h, s, o, c, r, t, k), Shape(s, o, c, r, t, k)
    PROVE  RequestsOK'
<1>1. /\ pc' \in [Handlers -> Steps]
      /\ op' \in [Handlers -> Ops]
      /\ caller' \in [Handlers -> UserIds \cup {None}]
      /\ claim' \in [Handlers -> Roles \cup {"none"}]
      /\ target' \in [Handlers -> UserIds \cup {None}]
      /\ held' \in [Handlers -> Roles \cup {"none"}]
    BY DEF RequestsOK, Set
<1>2. ASSUME NEW g \in Handlers
      PROVE  Shape(pc'[g], op'[g], caller'[g], claim'[g], target'[g], held'[g])
    <2>1. CASE g = h
        <3>1. /\ pc'[g] = s /\ op'[g] = o /\ caller'[g] = c
              /\ claim'[g] = r /\ target'[g] = t /\ held'[g] = k
            BY <2>1, SetEffect
        <3> QED
            BY <3>1, Zenon
    <2>2. CASE g # h
        <3>1. Shape(pc[g], op[g], caller[g], claim[g], target[g], held[g])
            BY DEF RequestsOK
        <3> QED
            BY <2>2, <3>1, SetEffect
    <2> QED
        BY <2>1, <2>2
<1> QED
    BY <1>1, <1>2 DEF RequestsOK

LEMMA FinishType ==
    ASSUME RequestsOK, NEW h \in Handlers, Finish(h)
    PROVE  RequestsOK'
<1>1. Shape("idle", "none", None, "none", None, "none")
    BY DEF Shape
<1> QED
    BY <1>1, SetType DEF Finish, Steps, Ops

-----------------------------------------------------------------------------
(* Types *)

LEMMA TypeInit == Init => TypeOK
BY DEF Init, TypeOK, Steps, Ops, Roles, Claims

\* That a held role is a role needs that accounts, once read, stay.
LEMMA TypeStep == TypeOK /\ RequestsAreTrue /\ [Next]_vars => TypeOK'
<1> SUFFICES ASSUME TypeOK, RequestsAreTrue, [Next]_vars PROVE TypeOK'
    OBVIOUS
<1>0. /\ role \in [UserIds -> Roles \cup {"none"}]
      /\ access \subseteq Claims
      /\ RequestsOK
      /\ had \in [UserIds -> SUBSET Roles]
      /\ seen \subseteq UserIds \X UserIds
    BY TypeSplit
<1>a. None \notin UserIds /\ "none" \notin Roles /\ "owner" \in Roles /\ "user" \in Roles
    BY NoneAssumption DEF Roles
<1>b. ASSUME NEW t \in UserIds, NEW r \in Roles, Assign(t, r)
      PROVE  role' \in [UserIds -> Roles \cup {"none"}] /\ had' \in [UserIds -> SUBSET Roles]
    BY <1>0, <1>b DEF Assign
<1>c. ASSUME NEW h \in Handlers
      PROVE  /\ Shape(pc[h], op[h], caller[h], claim[h], target[h], held[h])
             /\ caller[h] \in UserIds \cup {None} /\ claim[h] \in Roles \cup {"none"}
             /\ target[h] \in UserIds \cup {None} /\ held[h] \in Roles \cup {"none"}
             /\ op[h] \in Ops
    BY <1>0 DEF RequestsOK
<1>1. ASSUME NEW h \in Handlers, NEW u \in UserIds, Register(h, u) PROVE TypeOK'
    <2> DEFINE r == IF Owners = {} THEN "owner" ELSE "user"
    <2>1. r \in Roles /\ Assign(u, r) /\ Set(h, "issue", "session", None, "none", u, r)
        BY <1>a, <1>1 DEF Register
    <2>2. Shape("issue", "session", None, "none", u, r)
        BY <1>a, <2>1 DEF Shape
    <2>3. RequestsOK'
        BY <1>0, <1>a, <2>1, <2>2, SetType DEF Steps, Ops
    <2> QED
        BY <1>0, <1>1, <1>b, <2>1, <2>3, TypeSplit DEF Register, TypeOK, RequestsOK, Shape
<1>2. ASSUME NEW h \in Handlers, NEW u \in UserIds, StartSession(h, u) PROVE TypeOK'
    <2>1. role[u] \in Roles
        BY <1>0, <1>2 DEF StartSession, Accounts
    <2>2. Shape("issue", "session", None, "none", u, role[u])
        BY <1>a, <2>1 DEF Shape
    <2>3. RequestsOK'
        BY <1>0, <1>2, <2>1, <2>2, SetType DEF Steps, Ops, StartSession
    <2> QED
        BY <1>0, <1>2, <2>3 DEF StartSession, history, TypeOK, RequestsOK, Shape
<1>3. ASSUME NEW h \in Handlers, NEW via \in Transports, NEW o \in Ops, NEW c \in Claims,
             Authenticate(h, via, o, c)
      PROVE  TypeOK'
    <2>1. c.user \in UserIds /\ c.role \in Roles /\ o \notin {"none", "session"}
        BY <1>3 DEF Claims, Authenticate, Protected, Offered
    <2>2. Shape("admitted", o, c.user, c.role, None, "none")
        BY <1>a, <2>1 DEF Shape
    <2>3. RequestsOK'
        BY <1>0, <1>3, <2>1, <2>2, SetType DEF Steps, Authenticate
    <2> QED
        BY <1>0, <1>3, <2>3 DEF Authenticate, history, TypeOK, RequestsOK, Shape
<1>4. ASSUME NEW h \in Handlers, GeneratePair(h) PROVE TypeOK'
    <2>1. target[h] \in UserIds /\ held[h] \in Roles
        BY <1>4, <1>c DEF GeneratePair, Shape
    <2>2. access' \subseteq Claims
        BY <1>0, <1>4, <2>1 DEF GeneratePair, Claims
    <2>3. RequestsOK'
        BY <1>0, <1>4, FinishType DEF GeneratePair
    <2> QED
        BY <1>0, <1>4, <2>2, <2>3 DEF GeneratePair, history, TypeOK, RequestsOK, Shape
<1>5. ASSUME NEW h \in Handlers, NEW t \in UserIds, GetUser(h, t) PROVE TypeOK'
    <2>1. caller[h] \in UserIds
        BY <1>5, <1>c DEF GetUser, Shape
    <2>2. RequestsOK'
        BY <1>0, <1>5, FinishType DEF GetUser
    <2> QED
        BY <1>0, <1>5, <2>1, <2>2 DEF GetUser, TypeOK, RequestsOK, Shape
<1>6. ASSUME NEW h \in Handlers, NEW page \in SUBSET UserIds, ListUsers(h, page) PROVE TypeOK'
    <2>1. caller[h] \in UserIds
        BY <1>6, <1>c DEF ListUsers, Shape
    <2>2. RequestsOK'
        BY <1>0, <1>6, FinishType DEF ListUsers
    <2>3. seen' \subseteq UserIds \X UserIds
        <3>1. {caller[h]} \X page \subseteq UserIds \X UserIds
            BY <2>1
        <3>2. seen' = seen \cup ({caller[h]} \X page)
            BY <1>6 DEF ListUsers
        <3> QED
            BY <1>0, <3>1, <3>2, Zenon
    <2> QED
        BY <1>0, <1>6, <2>2, <2>3 DEF ListUsers, TypeOK, RequestsOK, Shape
<1>7. ASSUME NEW h \in Handlers, NEW s \in {"actor", "save"}, NEW t \in UserIds, NEW k \in Roles,
             pc[h] \in {"admitted", "actor"}, Hold(h, s, t, k), UNCHANGED <<role, access, history>>
      PROVE  TypeOK'
    <2>1. Shape(s, op[h], caller[h], claim[h], t, k)
        BY <1>7, <1>c, <1>a DEF Shape
    <2>2. /\ s \in Steps /\ op[h] \in Ops
          /\ caller[h] \in UserIds \cup {None} /\ claim[h] \in Roles \cup {"none"}
          /\ t \in UserIds \cup {None} /\ k \in Roles \cup {"none"}
        BY <1>c DEF Steps
    <2>3. RequestsOK'
        BY <1>0, <1>7, <2>1, <2>2, SetType DEF Hold
    <2> QED
        BY <1>0, <1>7, <2>3 DEF history, TypeOK, RequestsOK, Shape
<1>8. ASSUME NEW h \in Handlers, Save(h) PROVE TypeOK'
    <2>1. target[h] \in UserIds /\ held[h] \in Roles
        BY <1>8, <1>c DEF Save, Shape
    <2>2. RequestsOK'
        BY <1>0, <1>8, FinishType DEF Save
    <2> QED
        BY <1>0, <1>8, <1>b, <2>1, <2>2 DEF Save, TypeOK, RequestsOK, Shape
<1>9. ASSUME NEW h \in Handlers, Refuse(h) PROVE TypeOK'
    BY <1>0, <1>9, FinishType DEF Refuse, history, TypeOK, RequestsOK, Shape
<1>10. ASSUME NEW c \in Claims, Expire(c) PROVE TypeOK'
    BY <1>10 DEF Expire, request, history, TypeOK
<1>11. ASSUME NEW h \in Handlers, pc[h] = "admitted"
       PROVE  caller[h] \in UserIds /\ role[caller[h]] \in Roles
    BY <1>0, <1>11 DEF RequestsAreTrue, OnceRole, Accounts
<1>12. ASSUME NEW h \in Handlers, ReadOwnRow(h) PROVE TypeOK'
    BY <1>7, <1>11, <1>12 DEF ReadOwnRow
<1>13. ASSUME NEW h \in Handlers, NEW t \in UserIds, ChangeRole(h, t) PROVE TypeOK'
    BY <1>7, <1>11, <1>13 DEF ChangeRole
<1>14. ASSUME NEW h \in Handlers, NEW r \in Roles, ReadTarget(h, r) PROVE TypeOK'
    BY <1>7, <1>14 DEF ReadTarget, Accounts
<1>15. CASE UNCHANGED vars
    BY <1>15 DEF vars, TypeOK
<1> QED
    BY <1>1, <1>2, <1>3, <1>4, <1>5, <1>6, <1>8, <1>9, <1>10, <1>12, <1>13, <1>14, <1>15
    DEF Next, Step

-----------------------------------------------------------------------------
(* The inductive invariant *)

\* A step that leaves the requests of others alone, and what it says of its own.
Own(h) ==
    \A g \in Handlers \ {h} :
        /\ pc'[g] = pc[g] /\ op'[g] = op[g] /\ caller'[g] = caller[g]
        /\ claim'[g] = claim[g] /\ target'[g] = target[g] /\ held'[g] = held[g]

\* What a step keeps of the accounts there are.
Keeps ==
    /\ \A u \in Accounts : u \in Accounts' /\ (u \in Owners <=> u \in Owners')
    /\ \A u \in UserIds : had[u] \subseteq had'[u]

\* What Save writes: the role owner on the owner's row and on no other.
LEMMA SaveWrites ==
    ASSUME IInv, NEW h \in Handlers, Save(h)
    PROVE  /\ target[h] \in Accounts /\ held[h] \in Roles
           /\ held[h] = "owner" <=> target[h] \in Owners
<1> DEFINE t == target[h]
<1>1. held[h] \in Roles /\ t \in UserIds
    BY NoneAssumption DEF IInv, TypeOK, Save
<1>2. CASE op[h] = "ChangeRole"
    <2>1. caller[h] \in Owners /\ t \in Accounts \ Owners
        BY <1>2 DEF IInv, RoleChangedByOwner, Save
    <2>2. held[h] # "owner"
        BY <2>1 DEF Save, SaveAccepted
    <2> QED
        BY <1>1, <2>1, <2>2
<1>3. CASE op[h] # "ChangeRole"
    BY <1>1, <1>3 DEF IInv, RequestsAreTrue, OnceRole, Save
<1> QED
    BY <1>2, <1>3

\* Writing a role that is true of the account, or that is no ownership for an account
\* that is not the owner's, keeps the owner.
LEMMA SaveKeeps ==
    ASSUME IInv, NEW h \in Handlers, Save(h)
    PROVE  Keeps /\ Owners' = Owners /\ Accounts' = Accounts
<1> DEFINE t == target[h]
<1>1. t \in Accounts /\ held[h] \in Roles /\ (held[h] = "owner" <=> t \in Owners)
    BY SaveWrites
<1>2. /\ \A u \in UserIds : role'[u] = IF u = t THEN held[h] ELSE role[u]
      /\ \A u \in UserIds : had[u] \subseteq had'[u]
    BY DEF IInv, TypeOK, Save, Assign
<1>3. Owners' = Owners /\ Accounts' = Accounts
    BY <1>1, <1>2 DEF Owners, Accounts, Roles
<1> QED
    BY <1>2, <1>3 DEF Keeps, Accounts

\* The first account becomes the owner's; later ones change nothing for the others.
LEMMA RegisterKeeps ==
    ASSUME IInv, NEW h \in Handlers, NEW u \in UserIds, Register(h, u)
    PROVE  /\ Keeps
           /\ Accounts' = Accounts \cup {u}
           /\ Owners' = IF Owners = {} THEN {u} ELSE Owners
           /\ role'[u] \in had'[u]
           /\ \A v \in Accounts : role'[v] = role[v] /\ had'[v] = had[v]
<1>1. /\ \A v \in UserIds :
            role'[v] = IF v = u THEN (IF Owners = {} THEN "owner" ELSE "user") ELSE role[v]
      /\ had' = [had EXCEPT ![u] = @ \cup {role'[u]}]
      /\ u \notin Accounts
    BY DEF IInv, TypeOK, Register, Assign
<1>2. Accounts' = Accounts \cup {u}
    BY <1>1 DEF Accounts
<1>3. Owners' = IF Owners = {} THEN {u} ELSE Owners
    BY <1>1 DEF Owners, Accounts
<1>4. /\ role'[u] \in had'[u]
      /\ \A v \in Accounts : role'[v] = role[v] /\ had'[v] = had[v]
    BY <1>1 DEF IInv, TypeOK, Accounts
<1>5. Keeps
    <2>1. ASSUME NEW v \in Accounts
          PROVE  v \in Accounts' /\ (v \in Owners <=> v \in Owners')
        <3>1. Owners # {}
            BY DEF IInv, OneOwner
        <3> QED
            BY <1>2, <1>3, <3>1
    <2>2. \A v \in UserIds : had[v] \subseteq had'[v]
        BY <1>1 DEF IInv, TypeOK
    <2> QED
        BY <2>1, <2>2 DEF Keeps
<1> QED
    BY <1>2, <1>3, <1>4, <1>5

\* Any other step leaves the accounts as they are.
LEMMA OthersKeep ==
    ASSUME UNCHANGED <<role, had>>
    PROVE  Keeps /\ Accounts' = Accounts /\ Owners' = Owners
BY DEF Keeps, Accounts, Owners

\* What was once true of an account remains once true.
LEMMA OnceRemains ==
    ASSUME Keeps, NEW u, NEW r, OnceRole(u, r)
    PROVE  OnceRole(u, r)'
BY DEF Keeps, OnceRole, Accounts

\* What requests know stays true when the account, the request or nobody moves on.
LEMMA RequestsKeep ==
    ASSUME IInv, Keeps, NEW h \in Handlers, Own(h),
           \/ pc'[h] = "idle"
           \/ /\ pc'[h] = "issue"
              /\ OnceRole(target[h], held[h])'
           \/ /\ pc'[h] \in {"admitted", "actor", "save"}
              /\ OnceRole(caller[h], claim[h])'
              /\ pc'[h] = "actor" => /\ op'[h] = "ChangeRole"
                                     /\ held'[h] = "owner" => caller'[h] \in Owners'
              /\ pc'[h] = "save" =>
                    IF op'[h] = "ChangeRole"
                    THEN caller'[h] \in Owners' /\ target'[h] \in Accounts' \ Owners'
                    ELSE OnceRole(target[h], held[h])'
    PROVE  RequestsAreTrue' /\ RoleChangedByOwner'
<1> SUFFICES ASSUME NEW g \in Handlers
             PROVE  /\ pc'[g] \in {"admitted", "actor", "save"} => OnceRole(caller[g], claim[g])'
                    /\ pc'[g] = "issue" => OnceRole(target[g], held[g])'
                    /\ pc'[g] = "actor" => /\ op'[g] = "ChangeRole"
                                           /\ held'[g] = "owner" => caller'[g] \in Owners'
                    /\ pc'[g] = "save" /\ op'[g] # "ChangeRole" => OnceRole(target[g], held[g])'
                    /\ pc'[g] = "save" /\ op'[g] = "ChangeRole" =>
                          caller'[g] \in Owners' /\ target'[g] \in Accounts' \ Owners'
    BY DEF RequestsAreTrue, RoleChangedByOwner
<1>1. CASE g = h
    BY <1>1
<1>2. CASE g # h
    <2>1. /\ pc'[g] = pc[g] /\ op'[g] = op[g] /\ caller'[g] = caller[g]
          /\ claim'[g] = claim[g] /\ target'[g] = target[g] /\ held'[g] = held[g]
        BY <1>2 DEF Own
    <2>2. ASSUME NEW u, NEW r, OnceRole(u, r)
          PROVE  OnceRole(u, r)'
        BY <2>2, OnceRemains
    <2>3. \A u \in Owners : u \in Accounts /\ u \in Owners'
        BY DEF Keeps, Owners, Accounts
    <2>4. \A u \in Accounts \ Owners : u \in Accounts' \ Owners'
        BY DEF Keeps
    <2> QED
        BY <2>1, <2>2, <2>3, <2>4 DEF IInv, RequestsAreTrue, RoleChangedByOwner
<1> QED
    BY <1>1, <1>2

\* Tokens stay true, and a new one is if the account was read.
LEMMA ClaimsKeep ==
    ASSUME IInv, Keeps,
           \A c \in access' : c \in access \/ OnceRole(c.user, c.role)'
    PROVE  OwnerClaimsAreTrue' /\ ClaimsWereTrue' /\ \A c \in access' : c.user \in Accounts'
<1>1. ASSUME NEW c \in access'
      PROVE  OnceRole(c.user, c.role)'
    <2>1. CASE c \in access
        <3>1. OnceRole(c.user, c.role)
            BY <2>1 DEF IInv, OneOwner, OwnerClaimsAreTrue, ClaimsWereTrue, OnceRole
        <3> QED
            BY <3>1, OnceRemains
    <2> QED
        BY <1>1, <2>1
<1> QED
    BY <1>1 DEF OwnerClaimsAreTrue, ClaimsWereTrue, OnceRole

\* What managers have seen stays seen by managers.
LEMMA SeenKeeps ==
    ASSUME IInv, TypeOK', Keeps,
           \A s \in seen' : \/ s \in seen
                            \/ s[1] # s[2] => \E r \in had[s[1]] : CanManageRoles(r)
    PROVE  OthersSeenByManagers'
<1>1. \A s \in seen' : s[1] # s[2] => \E r \in had[s[1]] : CanManageRoles(r)
    BY DEF IInv, OthersSeenByManagers
<1> QED
    BY <1>1 DEF OthersSeenByManagers, Keeps, TypeOK

LEMMA InvInit == Init => IInv
<1> SUFFICES ASSUME Init PROVE IInv
    OBVIOUS
<1>1. Accounts = {} /\ Owners = {}
    BY DEF Init, Accounts, Owners
<1> QED
    BY <1>1, TypeInit DEF Init, IInv, OneOwner, RequestsAreTrue, RoleChangedByOwner,
       OwnerClaimsAreTrue, ClaimsWereTrue, OthersSeenByManagers

\* A step that changes no account: what is left to show is about its request, the
\* tokens it adds and the account it has read.
LEMMA QuietStep ==
    ASSUME IInv, TypeOK', UNCHANGED <<role, had>>, RequestsAreTrue', RoleChangedByOwner',
           \A c \in access' : c \in access \/ OnceRole(c.user, c.role)',
           \A s \in seen' : \/ s \in seen
                            \/ s[1] # s[2] => \E r \in had[s[1]] : CanManageRoles(r)
    PROVE  IInv'
<1>1. Keeps /\ Accounts' = Accounts /\ Owners' = Owners
    BY OthersKeep
<1>2. OneOwner'
    BY <1>1, ClaimsKeep DEF IInv, OneOwner
<1> QED
    BY <1>1, <1>2, ClaimsKeep, SeenKeeps DEF IInv

LEMMA InvStep == IInv /\ [Next]_vars => IInv'
<1> SUFFICES ASSUME IInv, [Next]_vars PROVE IInv'
    OBVIOUS
<1>0. TypeOK /\ TypeOK' /\ RequestsOK
    BY TypeStep, TypeSplit DEF IInv
<1>a. ASSUME NEW h \in Handlers, NEW s, NEW o, NEW c, NEW r, NEW t, NEW k,
             Set(h, s, o, c, r, t, k)
      PROVE  /\ pc'[h] = s /\ op'[h] = o /\ caller'[h] = c
             /\ claim'[h] = r /\ target'[h] = t /\ held'[h] = k
             /\ Own(h)
    BY <1>0, <1>a, SetEffect DEF Own
<1>b. ASSUME NEW h \in Handlers, Keeps, Finish(h)
      PROVE  RequestsAreTrue' /\ RoleChangedByOwner'
    <2>1. pc'[h] = "idle" /\ Own(h)
        BY <1>a, <1>b DEF Finish
    <2> QED
        BY <1>b, <2>1, RequestsKeep
<1>1. ASSUME NEW h \in Handlers, NEW u \in UserIds, Register(h, u) PROVE IInv'
    <2>1. /\ Keeps
          /\ Accounts' = Accounts \cup {u}
          /\ Owners' = IF Owners = {} THEN {u} ELSE Owners
          /\ role'[u] \in had'[u]
          /\ \A v \in Accounts : role'[v] = role[v] /\ had'[v] = had[v]
        BY <1>1, RegisterKeeps
    <2>2. pc'[h] = "issue" /\ target'[h] = u /\ held'[h] = role'[u] /\ Own(h)
        <3> DEFINE r == IF Owners = {} THEN "owner" ELSE "user"
        <3>1. Assign(u, r) /\ Set(h, "issue", "session", None, "none", u, r)
            BY <1>1 DEF Register
        <3>2. role'[u] = r
            BY <1>0, <3>1 DEF Assign, TypeOK
        <3> QED
            BY <1>a, <3>1, <3>2
    <2>3. OnceRole(target[h], held[h])'
        BY <2>1, <2>2 DEF OnceRole, Owners
    <2>4. RequestsAreTrue' /\ RoleChangedByOwner'
        BY <2>1, <2>2, <2>3, RequestsKeep
    <2>5. access' = access /\ seen' = seen
        BY <1>1 DEF Register
    <2>6. OwnerClaimsAreTrue' /\ ClaimsWereTrue' /\ \A c \in access' : c.user \in Accounts'
        BY <2>1, <2>5, ClaimsKeep
    <2>7. OneOwner'
        <3>1. \A v, w \in Owners' : v = w
            BY <2>1 DEF IInv, OneOwner
        <3>2. Owners' # {}
            BY <2>1
        <3>3. \A v \in Accounts' : role'[v] \in had'[v]
            BY <2>1 DEF IInv, OneOwner
        <3> QED
            BY <2>6, <3>1, <3>2, <3>3 DEF OneOwner
    <2> QED
        BY <1>0, <2>1, <2>4, <2>5, <2>6, <2>7, SeenKeeps DEF IInv
<1>2. ASSUME NEW h \in Handlers, Save(h) PROVE IInv'
    <2>1. Keeps /\ Owners' = Owners /\ Accounts' = Accounts
        BY <1>2, SaveKeeps
    <2>2. RequestsAreTrue' /\ RoleChangedByOwner'
        BY <1>2, <1>b, <2>1 DEF Save
    <2>3. access' = access /\ seen' = seen
        BY <1>2 DEF Save
    <2>4. OwnerClaimsAreTrue' /\ ClaimsWereTrue' /\ \A c \in access' : c.user \in Accounts'
        BY <2>1, <2>3, ClaimsKeep
    <2>5. \A v \in Accounts : role'[v] \in had'[v]
        BY <1>0, <1>2 DEF Save, Assign, IInv, OneOwner, TypeOK, Accounts
    <2>6. OneOwner'
        BY <2>1, <2>4, <2>5 DEF IInv, OneOwner
    <2> QED
        BY <1>0, <2>1, <2>2, <2>3, <2>4, <2>6, SeenKeeps DEF IInv
<1>3. ASSUME NEW h \in Handlers, NEW u \in UserIds, StartSession(h, u) PROVE IInv'
    <2>1. UNCHANGED <<role, access, history>> /\ u \in Accounts
        BY <1>3 DEF StartSession
    <2>2. pc'[h] = "issue" /\ target'[h] = u /\ held'[h] = role[u] /\ Own(h)
        BY <1>3, <1>a DEF StartSession
    <2>3. OnceRole(target[h], held[h])'
        BY <2>1, <2>2 DEF history, OnceRole, Owners, Accounts, IInv, OneOwner
    <2>4. RequestsAreTrue' /\ RoleChangedByOwner'
        BY <2>1, <2>2, <2>3, OthersKeep, RequestsKeep DEF history
    <2> QED
        BY <1>0, <2>1, <2>4, QuietStep DEF history
<1>4. ASSUME NEW h \in Handlers, GeneratePair(h) PROVE IInv'
    <2>1. UNCHANGED <<role, history>> /\ Finish(h)
        BY <1>4 DEF GeneratePair
    <2>2. OnceRole(target[h], held[h])
        BY <1>4 DEF GeneratePair, IInv, RequestsAreTrue
    <2>3. \A c \in access' : c \in access \/ OnceRole(c.user, c.role)'
        <3>1. \A c \in access' : \/ c \in access
                                 \/ c.user = target[h] /\ c.role = held[h]
            BY <1>4 DEF GeneratePair
        <3> QED
            BY <2>1, <2>2, <3>1 DEF history, OnceRole, Owners, Accounts
    <2>4. RequestsAreTrue' /\ RoleChangedByOwner'
        BY <1>b, <2>1, OthersKeep DEF history
    <2> QED
        BY <1>0, <2>1, <2>3, <2>4, QuietStep DEF history
<1>5. ASSUME NEW c \in Claims, Expire(c) PROVE IInv'
    <2>1. UNCHANGED <<role, request, history>> /\ access' \subseteq access
        BY <1>5 DEF Expire
    <2>2. RequestsAreTrue' /\ RoleChangedByOwner'
        BY <2>1 DEF request, history, IInv, RequestsAreTrue, RoleChangedByOwner, OnceRole,
           Owners, Accounts
    <2> QED
        BY <1>0, <2>1, <2>2, QuietStep DEF history
<1>6. ASSUME NEW h \in Handlers, NEW via \in Transports, NEW o \in Ops, NEW c \in Claims,
             Authenticate(h, via, o, c)
      PROVE  IInv'
    <2>1. UNCHANGED <<role, access, history>> /\ c \in access /\ c.user \in Accounts
        BY <1>6 DEF Authenticate, Authentic
    <2>2. pc'[h] = "admitted" /\ caller'[h] = c.user /\ claim'[h] = c.role /\ Own(h)
        BY <1>6, <1>a DEF Authenticate
    <2>3. OnceRole(caller[h], claim[h])'
        BY <2>1, <2>2 DEF history, OnceRole, Owners, Accounts, IInv, OwnerClaimsAreTrue, ClaimsWereTrue
    <2>4. RequestsAreTrue' /\ RoleChangedByOwner'
        BY <2>1, <2>2, <2>3, OthersKeep, RequestsKeep DEF history
    <2> QED
        BY <1>0, <2>1, <2>4, QuietStep DEF history
<1>7. ASSUME NEW h \in Handlers, NEW t \in UserIds, GetUser(h, t) PROVE IInv'
    <2>1. UNCHANGED <<role, access, had>> /\ Finish(h) /\ seen' = seen \cup {<<caller[h], t>>}
        BY <1>7 DEF GetUser
    <2>2. caller[h] # t => CanManageRoles(claim[h]) /\ claim[h] \in had[caller[h]]
        BY <1>7 DEF GetUser, MayRead, IInv, RequestsAreTrue, OnceRole
    <2>3. RequestsAreTrue' /\ RoleChangedByOwner'
        BY <1>b, <2>1, OthersKeep
    <2> QED
        BY <1>0, <2>1, <2>2, <2>3, QuietStep
<1>8. ASSUME NEW h \in Handlers, NEW page \in SUBSET UserIds, ListUsers(h, page) PROVE IInv'
    <2>1. UNCHANGED <<role, access, had>> /\ Finish(h) /\ seen' = seen \cup ({caller[h]} \X page)
        BY <1>8 DEF ListUsers
    <2>2. CanManageRoles(claim[h]) /\ claim[h] \in had[caller[h]]
        BY <1>8 DEF ListUsers, MayList, IInv, RequestsAreTrue, OnceRole
    <2>3. RequestsAreTrue' /\ RoleChangedByOwner'
        BY <1>b, <2>1, OthersKeep
    <2>4. \A s \in seen' : s \in seen \/ s[1] = caller[h]
        BY <2>1
    <2> QED
        BY <1>0, <2>1, <2>2, <2>3, <2>4, QuietStep
<1>9. ASSUME NEW h \in Handlers, ReadOwnRow(h) PROVE IInv'
    <2>1. UNCHANGED <<role, access, history>> /\ OnceRole(caller[h], claim[h])
        BY <1>9 DEF ReadOwnRow, IInv, RequestsAreTrue
    <2>2. /\ pc'[h] = "save" /\ op'[h] # "ChangeRole" /\ caller'[h] = caller[h]
          /\ claim'[h] = claim[h] /\ target'[h] = caller[h] /\ held'[h] = role[caller[h]]
          /\ Own(h)
        BY <1>9, <1>a DEF ReadOwnRow, Hold
    <2>3. OnceRole(caller[h], claim[h])' /\ OnceRole(target[h], held[h])'
        BY <2>1, <2>2 DEF history, OnceRole, Owners, Accounts, IInv, OneOwner
    <2>4. RequestsAreTrue' /\ RoleChangedByOwner'
        BY <2>1, <2>2, <2>3, OthersKeep, RequestsKeep DEF history
    <2> QED
        BY <1>0, <2>1, <2>4, QuietStep DEF history
<1>10. ASSUME NEW h \in Handlers, NEW t \in UserIds, ChangeRole(h, t) PROVE IInv'
    <2>1. UNCHANGED <<role, access, history>> /\ OnceRole(caller[h], claim[h])
        BY <1>10 DEF ChangeRole, IInv, RequestsAreTrue
    <2>2. /\ pc'[h] = "actor" /\ op'[h] = "ChangeRole" /\ caller'[h] = caller[h]
          /\ claim'[h] = claim[h] /\ held'[h] = role[caller[h]] /\ Own(h)
        BY <1>10, <1>a DEF ChangeRole, Hold
    <2>3. OnceRole(caller[h], claim[h])' /\ (held'[h] = "owner" => caller'[h] \in Owners')
        BY <2>1, <2>2 DEF history, OnceRole, Owners, Accounts
    <2>4. RequestsAreTrue' /\ RoleChangedByOwner'
        BY <2>1, <2>2, <2>3, OthersKeep, RequestsKeep DEF history
    <2> QED
        BY <1>0, <2>1, <2>4, QuietStep DEF history
<1>11. ASSUME NEW h \in Handlers, NEW r \in Roles, ReadTarget(h, r) PROVE IInv'
    <2>1. UNCHANGED <<role, access, history>> /\ OnceRole(caller[h], claim[h])
        BY <1>11 DEF ReadTarget, IInv, RequestsAreTrue
    <2>2. /\ pc'[h] = "save" /\ op'[h] = "ChangeRole" /\ caller'[h] = caller[h]
          /\ claim'[h] = claim[h] /\ target'[h] = target[h] /\ Own(h)
        BY <1>11, <1>a DEF ReadTarget, Hold, IInv, RequestsAreTrue
    <2>3. caller[h] \in Owners /\ target[h] \in Accounts \ Owners
        BY <1>11 DEF ReadTarget, MayChangeRole, IInv, RequestsAreTrue, OneOwner
    <2>4. OnceRole(caller[h], claim[h])' /\ caller'[h] \in Owners' /\ target'[h] \in Accounts' \ Owners'
        BY <2>1, <2>2, <2>3 DEF history, OnceRole, Owners, Accounts
    <2>5. RequestsAreTrue' /\ RoleChangedByOwner'
        BY <2>1, <2>2, <2>4, OthersKeep, RequestsKeep DEF history
    <2> QED
        BY <1>0, <2>1, <2>5, QuietStep DEF history
<1>12. ASSUME NEW h \in Handlers, Refuse(h) PROVE IInv'
    <2>1. UNCHANGED <<role, access, history>> /\ Finish(h)
        BY <1>12 DEF Refuse
    <2>2. RequestsAreTrue' /\ RoleChangedByOwner'
        BY <1>b, <2>1, OthersKeep DEF history
    <2> QED
        BY <1>0, <2>1, <2>2, QuietStep DEF history
<1>13. CASE UNCHANGED vars
    BY <1>13 DEF vars, IInv, TypeOK, OneOwner, RequestsAreTrue, RoleChangedByOwner,
       OwnerClaimsAreTrue, ClaimsWereTrue, OthersSeenByManagers, OnceRole, Owners, Accounts
<1> QED
    BY <1>1, <1>2, <1>3, <1>4, <1>5, <1>6, <1>7, <1>8, <1>9, <1>10, <1>11, <1>12, <1>13
    DEF Next, Step

-----------------------------------------------------------------------------
(* Theorems *)

\* Roles in the hands of requests and tokens were once true, and are still right
\* about the ownership.
THEOREM Inductive == Spec => []IInv
BY InvInit, InvStep, PTL DEF Spec

\* Every variable of AccessControl keeps its type.
THEOREM TypeCorrect == Spec => []TypeOK
<1>1. IInv => TypeOK
    BY DEF IInv
<1> QED
    BY <1>1, Inductive, PTL

\* A token says owner if and only if it is for the owner (the checks of ChangeRole in
\* the handlers, by the token, and in User.ChangeRole, by the table, never part).
THEOREM OwnerTokensAreTrue == Spec => []OwnerClaimsAreTrue
<1>1. IInv => OwnerClaimsAreTrue
    BY DEF IInv
<1> QED
    BY <1>1, Inductive, PTL

\* GeneratePair never signs a role the account has not had.
THEOREM TokensWereTrue == Spec => []ClaimsWereTrue
<1>1. IInv => ClaimsWereTrue
    BY DEF IInv
<1> QED
    BY <1>1, Inductive, PTL

\* GetUser and ListUsers answer about others only to accounts that are or were
\* managers.
THEOREM ReadersWereManagers == Spec => []OthersSeenByManagers
<1>1. IInv => OthersSeenByManagers
    BY DEF IInv
<1> QED
    BY <1>1, Inductive, PTL

\* ChangeUserRole saves only what the present owner asked for, and never touches the
\* owner's own row.
THEOREM OwnerChangesRoles == Spec => []RoleChangedByOwner
<1>1. IInv => RoleChangedByOwner
    BY DEF IInv
<1> QED
    BY <1>1, Inductive, PTL

-----------------------------------------------------------------------------
(* The roles implement AccountRoles *)

\* A registration is the first account of the abstract table or a later one.
LEMMA RegisterIsAllowed ==
    ASSUME IInv, NEW h \in Handlers, NEW u \in UserIds, Register(h, u)
    PROVE  Table!Next
<1>1. role' = [role EXCEPT ![u] = IF Owners = {} THEN "owner" ELSE "user"] /\ role[u] = "none"
    BY DEF Register, Assign, Accounts
<1>2. CASE Owners = {}
    <2>1. \A v \in UserIds : role[v] = "none"
        BY <1>2 DEF IInv, OneOwner, Accounts
    <2> QED
        BY <1>1, <1>2, <2>1 DEF Table!Next, Table!ClaimOwnership
<1>3. CASE Owners # {}
    BY <1>1, <1>3 DEF Table!Next, Table!Join, Table!Owners, Owners
<1> QED
    BY <1>2, <1>3

\* A Save changes a role that is not the owner's, or none.
LEMMA SaveIsAllowed ==
    ASSUME IInv, NEW h \in Handlers, Save(h)
    PROVE  [Table!Next]_role
<1> DEFINE t == target[h]
<1>1. /\ t \in Accounts /\ t \in UserIds /\ held[h] \in Roles
      /\ held[h] = "owner" <=> t \in Owners
    BY SaveWrites DEF Accounts
<1>2. role' = [role EXCEPT ![t] = held[h]] /\ role \in [UserIds -> Roles \cup {"none"}]
    BY DEF IInv, TypeOK, Save, Assign
<1>3. CASE t \in Owners
    BY <1>1, <1>2, <1>3 DEF Owners
<1>4. CASE t \notin Owners
    <2>1. held[h] \in {"admin", "user"} /\ role[t] \in {"admin", "user"}
        BY <1>1, <1>2, <1>4 DEF Owners, Accounts, Roles
    <2> QED
        BY <1>1, <1>2, <2>1 DEF Table!Next, Table!Change
<1> QED
    BY <1>3, <1>4

LEMMA RolesStep == IInv /\ [Next]_vars => [Table!Next]_role
<1> SUFFICES ASSUME IInv, [Next]_vars PROVE [Table!Next]_role
    OBVIOUS
<1>1. ASSUME NEW h \in Handlers, NEW u \in UserIds, Register(h, u) PROVE Table!Next
    BY <1>1, RegisterIsAllowed
<1>2. ASSUME NEW h \in Handlers, Save(h) PROVE [Table!Next]_role
    BY <1>2, SaveIsAllowed
<1> QED
    BY <1>1, <1>2 DEF Next, Step, vars, StartSession, Authenticate, GeneratePair, GetUser,
                      ChangeRole, ListUsers, ReadOwnRow, ReadTarget, Refuse, Expire

\* The roles that requests and tokens act on change as AccountRoles allows: what
\* AccessControl takes a registration and a save to be is no more than what
\* Accounts, which implements AccountRoles too, makes of them.
THEOREM RolesAreKept == Spec => RolesSpec
<1>1. Init => Table!Init
    BY DEF Init, Table!Init
<1>2. IInv /\ [Next]_vars => [Table!Next]_role
    BY RolesStep
<1> QED
    BY <1>1, <1>2, Inductive, PTL DEF Spec, RolesSpec, Table!Spec

-----------------------------------------------------------------------------
(* What the end of lost rights rests on *)

\* A step of request h that leaves the role of u alone and does not make h hold u as
\* an admin.
LEMMA GoneRemains ==
    ASSUME NEW u \in UserIds, AdminIsGone(u), NEW h \in Handlers, Own(h),
           role'[u] = "user", target'[h] = u => held'[h] # "admin"
    PROVE  AdminIsGone(u)'
BY DEF AdminIsGone, Own

LEMMA GoneStep ==
    ASSUME IInv, [Next]_vars, NEW u \in UserIds, AdminIsGone(u)
    PROVE  /\ AdminIsGone(u)' \/ NewDecision(u)
           /\ [user |-> u, role |-> "admin"] \notin access' \ access
<1> DEFINE admin == [user |-> u, role |-> "admin"]
           Goal == /\ AdminIsGone(u)' \/ NewDecision(u)
                   /\ admin \notin access' \ access
<1>0. TypeOK /\ RequestsOK /\ u \in Accounts /\ u \notin Owners /\ u # None /\ role[u] = "user"
    BY TypeSplit, NoneAssumption DEF IInv, AdminIsGone, Accounts, Owners
<1>a. ASSUME NEW h \in Handlers, NEW s, NEW o, NEW c, NEW r, NEW t, NEW k,
             Set(h, s, o, c, r, t, k)
      PROVE  target'[h] = t /\ held'[h] = k /\ Own(h)
    BY <1>0, <1>a, SetEffect DEF Own
<1>b. ASSUME NEW h \in Handlers, Finish(h), role'[u] = "user" PROVE AdminIsGone(u)'
    <2>1. target'[h] = None /\ Own(h)
        BY <1>a, <1>b DEF Finish
    <2> QED
        BY <1>0, <1>b, <2>1, GoneRemains
<1>1. ASSUME NEW h \in Handlers, NEW v \in UserIds, Register(h, v) PROVE Goal
    <2>1. v # u /\ access' = access
        BY <1>0, <1>1 DEF Register
    <2>2. target'[h] = v /\ Own(h)
        BY <1>1, <1>a DEF Register
    <2>3. role'[u] = role[u]
        BY <1>0, <1>1, <2>1 DEF Register, Assign, TypeOK
    <2> QED
        BY <1>0, <2>1, <2>2, <2>3, GoneRemains
<1>2. ASSUME NEW h \in Handlers, NEW v \in UserIds, StartSession(h, v) PROVE Goal
    <2>1. target'[h] = v /\ held'[h] = role[v] /\ Own(h)
        BY <1>2, <1>a DEF StartSession
    <2> QED
        BY <1>0, <1>2, <2>1, GoneRemains DEF StartSession
<1>3. ASSUME NEW h \in Handlers, GeneratePair(h) PROVE Goal
    <2>1. access' \subseteq access \cup {[user |-> target[h], role |-> held[h]]}
        BY <1>3 DEF GeneratePair
    <2>2. ~(target[h] = u /\ held[h] = "admin")
        BY DEF AdminIsGone
    <2>3. admin # [user |-> target[h], role |-> held[h]]
        BY <2>2
    <2>4. AdminIsGone(u)'
        BY <1>0, <1>3, <1>b DEF GeneratePair
    <2> QED
        BY <2>1, <2>3, <2>4
<1>4. ASSUME NEW h \in Handlers, NEW via, NEW o, NEW c, Authenticate(h, via, o, c) PROVE Goal
    <2>1. target'[h] = None /\ Own(h)
        BY <1>4, <1>a DEF Authenticate
    <2> QED
        BY <1>0, <1>4, <2>1, GoneRemains DEF Authenticate
<1>5. ASSUME NEW h \in Handlers, Finish(h), UNCHANGED <<role, access>> PROVE Goal
    BY <1>0, <1>5, <1>b
<1>6. ASSUME NEW h \in Handlers, ReadOwnRow(h) PROVE Goal
    <2>1. target'[h] = caller[h] /\ held'[h] = role[caller[h]] /\ Own(h)
        BY <1>6, <1>a DEF ReadOwnRow, Hold
    <2> QED
        BY <1>0, <1>6, <2>1, GoneRemains DEF ReadOwnRow
<1>7. ASSUME NEW h \in Handlers, NEW t \in UserIds, ChangeRole(h, t) PROVE Goal
    <2>1. held'[h] = role[caller[h]] /\ Own(h)
        BY <1>7, <1>a DEF ChangeRole, Hold
    <2>2. caller[h] \in Owners
        BY <1>7 DEF ChangeRole, IInv, RequestsAreTrue, OnceRole
    <2>3. held'[h] = "owner"
        BY <2>1, <2>2 DEF Owners
    <2> QED
        BY <1>0, <1>7, <2>1, <2>3, GoneRemains DEF ChangeRole
<1>8. ASSUME NEW h \in Handlers, NEW r \in Roles, ReadTarget(h, r) PROVE Goal
    <2>1. target'[h] = target[h] /\ held'[h] = r /\ Own(h) /\ UNCHANGED <<role, access>>
        BY <1>8, <1>a DEF ReadTarget, Hold
    <2>2. pc[h] = "actor" /\ caller[h] \in Owners
        BY <1>8 DEF ReadTarget, MayChangeRole, IInv, RequestsAreTrue
    <2>3. CASE target[h] = u /\ r = "admin"
        BY <2>1, <2>2, <2>3 DEF NewDecision
    <2>4. CASE ~(target[h] = u /\ r = "admin")
        BY <1>0, <2>1, <2>4, GoneRemains
    <2> QED
        BY <2>1, <2>3, <2>4
<1>9. ASSUME NEW h \in Handlers, Save(h) PROVE Goal
    <2>1. role' = [role EXCEPT ![target[h]] = held[h]] /\ Finish(h) /\ access' = access
        BY <1>9 DEF Save, Assign
    <2>2. target[h] = u => held[h] = "user"
        BY <1>0, <1>9, SaveWrites DEF AdminIsGone, Roles
    <2>3. role'[u] = "user"
        BY <1>0, <2>1, <2>2 DEF TypeOK
    <2> QED
        BY <1>b, <2>1, <2>3
<1>10. ASSUME NEW c, Expire(c) PROVE Goal
    BY <1>10 DEF Expire, request, AdminIsGone
<1>11. CASE UNCHANGED vars
    BY <1>11 DEF vars, AdminIsGone
<1> QED
    BY <1>1, <1>2, <1>3, <1>4, <1>5, <1>6, <1>7, <1>8, <1>9, <1>10, <1>11
    DEF Next, Step, GetUser, ListUsers, Refuse

\* A right that is lost stays lost: once no request holds a plain user as an admin, no
\* stale copy or token brings the role back, into the table or into a new token.
THEOREM LostForGood == Spec => LostRightsStayLost
<1>1. IInv /\ [Next]_vars =>
          [\A u \in UserIds : AdminIsGone(u) =>
              /\ AdminIsGone(u)' \/ NewDecision(u)
              /\ [user |-> u, role |-> "admin"] \notin access' \ access]_vars
    BY GoneStep
<1> QED
    BY <1>1, Inductive, PTL DEF Spec, LostRightsStayLost
=============================================================================
