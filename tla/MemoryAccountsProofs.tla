------------------------ MODULE MemoryAccountsProofs ------------------------
(***************************************************************************)
(* Theorems about MemoryAccounts, for any handlers, ids, addresses and     *)
(* e-mails.                                                                *)
(***************************************************************************)
EXTENDS MemoryAccounts, FiniteSetTheorems, TLAPS

USE NoneAssumption

LEMMA InitIInv == Init => IInv
BY DEF Init, IInv, TypeOK, HandlerOK, Steps, Registering, StoreOK, ReferencesOK, ReferenceOK, OwnersOK, EmailsOK,
       ClaimsOK, EmailsClashOnlyInRaces, Accounts, Stored

\* What a handler past its first step holds.
LEMMA Holding ==
    ASSUME IInv, NEW h \in Handlers, pc[h] # "idle"
    PROVE  /\ ref[h] \in Objects
           /\ heap[ref[h]] \in Users
<1>1. ref[h] \in Objects
    BY DEF IInv, TypeOK, HandlerOK
<1>2. heap[ref[h]] # None
    BY DEF IInv, TypeOK, Steps, ReferencesOK, ReferenceOK, CandidateOK, Stored, Accounts, StoreOK
<1> QED
    BY <1>1, <1>2 DEF IInv, TypeOK

\* The types, without what TypeOK says of the handlers and of the accounts.
Shape ==
    /\ heap \in [Objects -> Users \cup {None}]
    /\ store \in [UserIds -> Objects \cup {None}]
    /\ mu \in Handlers \cup {None}
    /\ pc \in [Handlers -> Steps]
    /\ me \in [Handlers -> Objects \cup {None}]
    /\ ref \in [Handlers -> Objects \cup {None}]
    /\ arg \in [Handlers -> Roles \cup {None}]
    /\ todo \in [Handlers -> SUBSET (Halves \cup Objects)]
    /\ made \subseteq UserIds
    /\ claimed \subseteq UserIds
    /\ demoted \in BOOLEAN
    /\ raced \subseteq Emails

LEMMA ShapeStep == IInv /\ [Next]_vars => Shape'
<1> SUFFICES ASSUME IInv, [Next]_vars PROVE Shape'
    OBVIOUS
<1> Shape
    BY DEF IInv, TypeOK, Shape
<1> USE DEF Shape, Steps, Registering, Goto, Finish, Accounts, history
<1>1. ASSUME NEW h \in Handlers, NEW e \in Emails, Register(h, e) PROVE Shape'
    <2> PICK o \in Free, u \in FreshIds :
            /\ heap' = [heap EXCEPT ![o] = NewUser(u, e, "owner")]
            /\ ref' = [ref EXCEPT ![h] = o]
        BY <1>1 DEF Register
    <2>1. o \in Objects /\ NewUser(u, e, "owner") \in Users
        BY DEF Free, FreshIds, NewUser, Users, Roles, Length
    <2>2. raced' \subseteq Emails
        BY <1>1 DEF Register
    <2> QED
        BY <1>1, <2>1, <2>2 DEF Register
<1>2. ASSUME NEW h \in Handlers, SaveFirstOwner(h) PROVE Shape'
    <2>1. Stored \subseteq Objects
        BY DEF Stored
    <2> QED
        BY <1>2, <2>1 DEF SaveFirstOwner
<1>3. ASSUME NEW h \in Handlers, NEW o \in Objects, Scan(h, o) PROVE Shape'
    BY <1>3 DEF Scan
<1>4. ASSUME NEW h \in Handlers, NEW o \in Objects, NotFirst(h, o) PROVE Shape'
    <2>1. ref[h] \in Objects /\ heap[ref[h]] \in Users
        BY <1>4, Holding DEF NotFirst
    <2>2. NewUser(heap[ref[h]].id, heap[ref[h]].email, "user") \in Users
        BY <2>1 DEF NewUser, Users, Roles, Length
    <2> QED
        BY <1>4, <2>1, <2>2 DEF NotFirst
<1>5. ASSUME NEW h \in Handlers, Claim(h) PROVE Shape'
    <2>1. ref[h] \in Objects /\ heap[ref[h]].id \in UserIds
        BY <1>5, Holding DEF Claim, Users
    <2> QED
        BY <1>5, <2>1 DEF Claim
<1>6. ASSUME NEW h \in Handlers, SaveFallback(h) PROVE Shape'
    BY <1>6 DEF SaveFallback
<1>7. ASSUME NEW h \in Handlers, NEW u \in UserIds, ChangeOther(h, u) PROVE Shape'
    BY <1>7 DEF ChangeOther, FindByID
<1>8. ASSUME NEW h \in Handlers, NEW a \in UserIds, NEW u \in UserIds, ChangeUserRole(h, a, u) PROVE Shape'
    BY <1>8 DEF ChangeUserRole, FindByID
<1>9. ASSUME NEW h \in Handlers, NEW r \in Roles, ChangeRole(h, r) PROVE Shape'
    <2>1. ref[h] \in Objects /\ heap[ref[h]].id \in UserIds
        BY <1>9, Holding DEF ChangeRole, Users
    <2> QED
        BY <1>9, <2>1 DEF ChangeRole
<1>10. ASSUME NEW h \in Handlers, Refuse(h) PROVE Shape'
    BY <1>10 DEF Refuse
<1>11. ASSUME NEW h \in Handlers, NEW half \in Halves, AssignHalf(h, half) PROVE Shape'
    <2>1. ref[h] \in Objects /\ heap[ref[h]] \in Users /\ arg[h] \in Roles
        BY <1>11, Holding DEF AssignHalf, IInv, TypeOK, HandlerOK
    <2>2. /\ [heap[ref[h]] EXCEPT !.text = arg[h]] \in Users
          /\ [heap[ref[h]] EXCEPT !.length = Length(arg[h])] \in Users
        BY <2>1 DEF Users, Length
    <2>3. heap' \in [Objects -> Users \cup {None}]
        BY <1>11, <2>1, <2>2 DEF AssignHalf
    <2>4. demoted' \in BOOLEAN
        BY <1>11 DEF AssignHalf
    <2> QED
        BY <1>11, <2>3, <2>4 DEF AssignHalf
<1>12. ASSUME NEW h \in Handlers, Save(h) PROVE Shape'
    BY <1>12 DEF Save
<1>13. CASE UNCHANGED vars
    BY <1>13 DEF vars
<1> QED
    BY <1>1, <1>2, <1>3, <1>4, <1>5, <1>6, <1>7, <1>8, <1>9, <1>10, <1>11, <1>12, <1>13 DEF Next

LEMMA HandlersStep == IInv /\ [Next]_vars => \A g \in Handlers : HandlerOK(g)'
<1> SUFFICES ASSUME IInv, [Next]_vars, NEW g \in Handlers PROVE HandlerOK(g)'
    OBVIOUS
<1> Shape /\ \A f \in Handlers : HandlerOK(f)
    BY DEF IInv, TypeOK, Shape
<1> USE DEF Shape, HandlerOK, Steps, Registering, Goto, Finish, Accounts, Halves, history
<1>1. ASSUME NEW h \in Handlers, NEW e \in Emails, Register(h, e) PROVE HandlerOK(g)'
    <2> PICK o \in Objects : ref' = [ref EXCEPT ![h] = o]
        BY <1>1 DEF Register, Free
    <2> QED
        BY <1>1 DEF Register
<1>2. ASSUME NEW h \in Handlers, SaveFirstOwner(h) PROVE HandlerOK(g)'
    <2>1. Stored \subseteq Objects
        BY DEF Stored
    <2>2. todo' = [todo EXCEPT ![h] = Stored] /\ pc' = [pc EXCEPT ![h] = "scan"] /\ pc[h] = "claim"
          /\ mu = None /\ mu' = h /\ UNCHANGED <<me, ref, arg>>
        BY <1>2 DEF SaveFirstOwner
    <2>3. CASE g = h
        BY <2>1, <2>2, <2>3
    <2>4. CASE g # h
        BY <2>2, <2>4
    <2> QED
        BY <2>3, <2>4
<1>3. ASSUME NEW h \in Handlers, NEW o \in Objects, Scan(h, o) PROVE HandlerOK(g)'
    BY <1>3 DEF Scan
<1>4. ASSUME NEW h \in Handlers, NEW o \in Objects, NotFirst(h, o) PROVE HandlerOK(g)'
    BY <1>4 DEF NotFirst
<1>5. ASSUME NEW h \in Handlers, Claim(h) PROVE HandlerOK(g)'
    BY <1>5 DEF Claim
<1>6. ASSUME NEW h \in Handlers, SaveFallback(h) PROVE HandlerOK(g)'
    BY <1>6 DEF SaveFallback
<1>7. ASSUME NEW h \in Handlers, NEW u \in UserIds, ChangeOther(h, u) PROVE HandlerOK(g)'
    BY <1>7 DEF ChangeOther, FindByID
<1>8. ASSUME NEW h \in Handlers, NEW a \in UserIds, NEW u \in UserIds, ChangeUserRole(h, a, u) PROVE HandlerOK(g)'
    BY <1>8 DEF ChangeUserRole, FindByID
<1>9. ASSUME NEW h \in Handlers, NEW r \in Roles, ChangeRole(h, r) PROVE HandlerOK(g)'
    BY <1>9 DEF ChangeRole
<1>10. ASSUME NEW h \in Handlers, Refuse(h) PROVE HandlerOK(g)'
    BY <1>10 DEF Refuse
<1>11. ASSUME NEW h \in Handlers, NEW half \in Halves, AssignHalf(h, half) PROVE HandlerOK(g)'
    BY <1>11 DEF AssignHalf
<1>12. ASSUME NEW h \in Handlers, Save(h) PROVE HandlerOK(g)'
    BY <1>12 DEF Save
<1>13. CASE UNCHANGED vars
    BY <1>13 DEF vars
<1> QED
    BY <1>1, <1>2, <1>3, <1>4, <1>5, <1>6, <1>7, <1>8, <1>9, <1>10, <1>11, <1>12, <1>13 DEF Next

LEMMA TypeStep == IInv /\ [Next]_vars => TypeOK'
BY ShapeStep, HandlersStep DEF Shape, TypeOK

-----------------------------------------------------------------------------
(* What the steps do to the store *)

LEMMA SameStore == UNCHANGED store => Accounts' = Accounts /\ Stored' = Stored
BY DEF Accounts, Stored

\* A registration adds one account and its object.
LEMMA Storing ==
    ASSUME IInv, NEW h \in Handlers, pc[h] \in Registering,
           store' = [store EXCEPT ![heap[ref[h]].id] = ref[h]]
    PROVE  /\ heap[ref[h]].id \in UserIds
           /\ heap[ref[h]].id \notin Accounts
           /\ Accounts' = Accounts \cup {heap[ref[h]].id}
           /\ Stored' = Stored \cup {ref[h]}
<1>1. /\ ref[h] \in Objects
      /\ heap[ref[h]].id \in UserIds
    BY Holding DEF Registering, Users
<1>2. heap[ref[h]].id \notin Accounts
    BY DEF IInv, ReferencesOK, ReferenceOK, CandidateOK
<1>3. Accounts' = Accounts \cup {heap[ref[h]].id}
    BY <1>1 DEF Accounts, IInv, TypeOK
<1>4. \A u \in Accounts' : store'[u] = IF u = heap[ref[h]].id THEN ref[h] ELSE store[u]
    BY <1>1, <1>3 DEF Accounts, IInv, TypeOK
<1>5. Stored' = Stored \cup {ref[h]}
    BY <1>2, <1>3, <1>4 DEF Stored
<1> QED
    BY <1>1, <1>2, <1>3, <1>5

\* The object of an account is the one that its id leads to.
LEMMA Reached == ASSUME IInv, NEW o \in Stored
                 PROVE  o \in Objects /\ heap[o] \in Users /\ heap[o].id \in Accounts /\ store[heap[o].id] = o
BY DEF IInv, TypeOK, Stored, Accounts, StoreOK

\* Save at the end of a change puts back what is there.
LEMMA SaveChangesNothing == ASSUME IInv, NEW h \in Handlers, Save(h) PROVE UNCHANGED <<heap, store>>
<1>1. ref[h] \in Stored
    BY DEF IInv, ReferencesOK, ReferenceOK, Save
<1>2. store[heap[ref[h]].id] = ref[h]
    BY <1>1, Reached
<1> QED
    BY <1>2 DEF Save, IInv, TypeOK

-----------------------------------------------------------------------------
LEMMA StoreStep == IInv /\ [Next]_vars => StoreOK'
<1> SUFFICES ASSUME IInv, [Next]_vars PROVE StoreOK'
    OBVIOUS
<1> TypeOK /\ StoreOK
    BY DEF IInv
<1>1. ASSUME NEW h \in Handlers, NEW e \in Emails, Register(h, e) PROVE StoreOK'
    <2>1. PICK o \in Free, u \in FreshIds : heap' = [heap EXCEPT ![o] = NewUser(u, e, "owner")]
        BY <1>1 DEF Register
    <2>2. UNCHANGED store /\ o \notin Stored
        BY <1>1 DEF Register, Free
    <2>3. \A v \in Accounts : heap'[store[v]] = heap[store[v]]
        BY <2>1, <2>2 DEF Stored, TypeOK
    <2> QED
        BY <2>2, <2>3, SameStore DEF StoreOK
<1>2. ASSUME NEW h \in Handlers, SaveFirstOwner(h) PROVE StoreOK'
    <2>1. UNCHANGED <<heap, store>>
        BY <1>2 DEF SaveFirstOwner
    <2> QED
        BY <2>1, SameStore DEF StoreOK
<1>3. ASSUME NEW h \in Handlers, NEW o \in Objects, Scan(h, o) PROVE StoreOK'
    <2>1. UNCHANGED <<heap, store>>
        BY <1>3 DEF Scan
    <2> QED
        BY <2>1, SameStore DEF StoreOK
<1>4. ASSUME NEW h \in Handlers, NEW o \in Objects, NotFirst(h, o) PROVE StoreOK'
    <2>1. UNCHANGED store /\ ref[h] \notin Stored
        BY <1>4 DEF NotFirst, IInv, ReferencesOK, ReferenceOK, Registering, CandidateOK
    <2>2. \A v \in Accounts : heap'[store[v]] = heap[store[v]]
        BY <1>4, <2>1 DEF NotFirst, Stored, TypeOK
    <2> QED
        BY <2>1, <2>2, SameStore DEF StoreOK
<1>5. ASSUME NEW h \in Handlers, Claim(h) PROVE StoreOK'
    <2>1. pc[h] \in Registering /\ UNCHANGED heap
          /\ store' = [store EXCEPT ![heap[ref[h]].id] = ref[h]]
        BY <1>5 DEF Claim, Registering
    <2>2. heap[ref[h]] \in Users
        BY <2>1, Holding DEF Registering
    <2> QED
        BY <2>1, <2>2, Storing DEF StoreOK, TypeOK, Accounts
<1>6. ASSUME NEW h \in Handlers, SaveFallback(h) PROVE StoreOK'
    <2>1. pc[h] \in Registering /\ UNCHANGED heap
          /\ store' = [store EXCEPT ![heap[ref[h]].id] = ref[h]]
        BY <1>6 DEF SaveFallback, Registering
    <2>2. heap[ref[h]] \in Users
        BY <2>1, Holding DEF Registering
    <2> QED
        BY <2>1, <2>2, Storing DEF StoreOK, TypeOK, Accounts
<1>7. ASSUME NEW h \in Handlers, NEW u \in UserIds, ChangeOther(h, u) PROVE StoreOK'
    <2>1. UNCHANGED <<heap, store>>
        BY <1>7 DEF ChangeOther, FindByID
    <2> QED
        BY <2>1, SameStore DEF StoreOK
<1>8. ASSUME NEW h \in Handlers, NEW a \in UserIds, NEW u \in UserIds, ChangeUserRole(h, a, u) PROVE StoreOK'
    <2>1. UNCHANGED <<heap, store>>
        BY <1>8 DEF ChangeUserRole, FindByID
    <2> QED
        BY <2>1, SameStore DEF StoreOK
<1>9. ASSUME NEW h \in Handlers, NEW r \in Roles, ChangeRole(h, r) PROVE StoreOK'
    <2>1. UNCHANGED <<heap, store>>
        BY <1>9 DEF ChangeRole
    <2> QED
        BY <2>1, SameStore DEF StoreOK
<1>10. ASSUME NEW h \in Handlers, Refuse(h) PROVE StoreOK'
    <2>1. UNCHANGED <<heap, store>>
        BY <1>10 DEF Refuse
    <2> QED
        BY <2>1, SameStore DEF StoreOK
<1>11. ASSUME NEW h \in Handlers, NEW half \in Halves, AssignHalf(h, half) PROVE StoreOK'
    <2>1. UNCHANGED store
        BY <1>11 DEF AssignHalf
    <2>2. ref[h] \in Objects /\ heap[ref[h]] \in Users
        BY <1>11, Holding DEF AssignHalf
    <2>3. \A o \in Stored : heap'[o] # None /\ heap'[o].id = heap[o].id
        <3>1. /\ heap'[ref[h]].id = heap[ref[h]].id
              /\ heap'[ref[h]] \in Users
            BY <1>11, <2>2, TypeStep DEF AssignHalf, Users, TypeOK, Length, HandlerOK
        <3>2. \A o \in Objects : o # ref[h] => heap'[o] = heap[o]
            BY <1>11 DEF AssignHalf, TypeOK
        <3> QED
            BY <3>1, <3>2, Reached
    <2> QED
        BY <2>1, <2>3, SameStore DEF StoreOK, Stored
<1>12. ASSUME NEW h \in Handlers, Save(h) PROVE StoreOK'
    BY <1>12, SaveChangesNothing, SameStore DEF StoreOK
<1>13. CASE UNCHANGED vars
    BY <1>13, SameStore DEF vars, StoreOK
<1> QED
    BY <1>1, <1>2, <1>3, <1>4, <1>5, <1>6, <1>7, <1>8, <1>9, <1>10, <1>11, <1>12, <1>13 DEF Next

-----------------------------------------------------------------------------
(* What handlers hold *)

LEMMA ReferencesStep == IInv /\ [Next]_vars => ReferencesOK'
<1> SUFFICES ASSUME IInv, [Next]_vars, NEW g \in Handlers PROVE ReferenceOK(g)'
    BY DEF ReferencesOK
<1> TypeOK /\ ReferencesOK
    BY DEF IInv
<1> USE DEF TypeOK, HandlerOK, Registering, Steps, Goto, Finish, history
<1>1. ASSUME NEW h \in Handlers, NEW e \in Emails, Register(h, e) PROVE ReferenceOK(g)'
    <2> PICK o \in Free, u \in FreshIds :
            /\ heap' = [heap EXCEPT ![o] = NewUser(u, e, "owner")]
            /\ ref' = [ref EXCEPT ![h] = o]
        BY <1>1 DEF Register
    <2>1. o \in Objects \ Stored /\ \A f \in Handlers : ref[f] # o /\ me[f] # o
        BY DEF Free, Held
    <2>2. /\ heap'[o] = NewUser(u, e, "owner")
          /\ \A p \in Objects \ {o} : heap'[p] = heap[p]
        BY <2>1
    <2>3. \A f \in Handlers : ref[f] \in Objects => heap[ref[f]].id # u
        BY DEF FreshIds, Free, Held
    <2>4. u \notin Accounts
        <3>1. \A p \in Stored : heap[p].id # u
            BY Reached DEF FreshIds, Free
        <3> QED
            BY <3>1 DEF Stored, IInv, StoreOK
    <2>5. NewUser(u, e, "owner").id = u /\ NewUser(u, e, "owner") # None
          /\ NewUser(u, e, "owner").text = "owner" /\ NewUser(u, e, "owner").length = Length("owner")
        BY DEF NewUser, Users, FreshIds, Roles, Length
    <2>6. Stored' = Stored /\ Accounts' = Accounts
        BY <1>1, SameStore DEF Register
    <2>7. pc' = [pc EXCEPT ![h] = "claim"] /\ UNCHANGED <<me, store>> /\ pc[h] = "idle"
        BY <1>1 DEF Register
    <2>8. CASE g = h
        <3>1. CandidateOK(g)'
            BY <2>1, <2>2, <2>3, <2>4, <2>5, <2>6, <2>7, <2>8 DEF CandidateOK
        <3> QED
            BY <2>6, <2>7, <2>8, <3>1 DEF ReferencesOK, ReferenceOK
    <2>9. CASE g # h
        <3>1. ASSUME pc[g] \in Registering PROVE CandidateOK(g)'
            BY <2>1, <2>2, <2>3, <2>5, <2>6, <2>7, <2>9, <3>1 DEF CandidateOK, ReferencesOK, ReferenceOK
        <3> QED
            BY <2>6, <2>7, <2>9, <3>1 DEF ReferencesOK, ReferenceOK
    <2> QED
        BY <2>8, <2>9
<1>2. ASSUME NEW h \in Handlers, SaveFirstOwner(h) PROVE ReferenceOK(g)'
    <2>1. UNCHANGED <<heap, store>>
        BY <1>2 DEF SaveFirstOwner
    <2> QED
        BY <1>2, <2>1, SameStore DEF SaveFirstOwner, ReferencesOK, ReferenceOK, CandidateOK
<1>3. ASSUME NEW h \in Handlers, NEW o \in Objects, Scan(h, o) PROVE ReferenceOK(g)'
    <2>1. UNCHANGED <<heap, store>>
        BY <1>3 DEF Scan
    <2> QED
        BY <1>3, <2>1, SameStore DEF Scan, ReferencesOK, ReferenceOK, CandidateOK
<1>4. ASSUME NEW h \in Handlers, NEW o \in Objects, NotFirst(h, o) PROVE ReferenceOK(g)'
    <2>1. ref[h] \in Objects /\ heap[ref[h]] \in Users /\ CandidateOK(h)
        BY <1>4, Holding DEF NotFirst, ReferencesOK, ReferenceOK
    <2>2. NewUser(heap[ref[h]].id, heap[ref[h]].email, "user") \in Users
        BY <2>1 DEF NewUser, Users, Roles, Length
    <2>3. /\ heap'[ref[h]] = NewUser(heap[ref[h]].id, heap[ref[h]].email, "user")
          /\ \A p \in Objects \ {ref[h]} : heap'[p] = heap[p]
        BY <1>4, <2>1 DEF NotFirst
    <2>4. /\ heap'[ref[h]].id = heap[ref[h]].id /\ heap'[ref[h]] # None
          /\ heap'[ref[h]].text = "user" /\ heap'[ref[h]].length = Length("user")
        BY <2>2, <2>3 DEF NewUser
    <2>5. /\ UNCHANGED <<store, ref, me>> /\ pc' = [pc EXCEPT ![h] = "fallback"] /\ pc[h] = "scan"
        BY <1>4 DEF NotFirst
    <2>6. Stored' = Stored /\ Accounts' = Accounts
        BY <2>5, SameStore
    <2>7. CASE g = h
        <3>1. CandidateOK(g)'
            BY <2>1, <2>3, <2>4, <2>5, <2>6, <2>7 DEF CandidateOK
        <3> QED
            BY <2>5, <2>6, <2>7, <3>1 DEF ReferencesOK, ReferenceOK
    <2>8. CASE g # h
        <3>1. ASSUME pc[g] \in Registering PROVE CandidateOK(g)'
            BY <2>1, <2>3, <2>4, <2>5, <2>6, <2>8, <3>1 DEF CandidateOK, ReferencesOK, ReferenceOK
        <3> QED
            BY <2>5, <2>6, <2>8, <3>1 DEF ReferencesOK, ReferenceOK
    <2> QED
        BY <2>7, <2>8
<1>5. ASSUME NEW h \in Handlers, Claim(h) PROVE ReferenceOK(g)'
    <2>1. /\ pc[h] \in Registering /\ UNCHANGED heap
          /\ store' = [store EXCEPT ![heap[ref[h]].id] = ref[h]]
          /\ pc' = [pc EXCEPT ![h] = "idle"] /\ ref' = [ref EXCEPT ![h] = None]
          /\ me' = [me EXCEPT ![h] = None]
        BY <1>5 DEF Claim
    <2>2. /\ Accounts' = Accounts \cup {heap[ref[h]].id}
          /\ Stored' = Stored \cup {ref[h]}
        BY <2>1, Storing
    <2>3. CASE g = h
        BY <2>1, <2>3 DEF ReferenceOK
    <2>4. CASE g # h
        <3>1. ASSUME pc[g] \in Registering PROVE CandidateOK(g)'
            <4>1. CandidateOK(g) /\ CandidateOK(h) /\ ref[g] \in Objects
                BY <2>1, <3>1 DEF ReferencesOK, ReferenceOK
            <4>2. ref[g] \notin Stored' /\ heap[ref[g]].id \notin Accounts'
                BY <2>1, <2>2, <2>4, <3>1, <4>1 DEF CandidateOK
            <4> QED
                BY <2>1, <2>4, <3>1, <4>1, <4>2 DEF CandidateOK
        <3> QED
            BY <2>1, <2>2, <2>4, <3>1 DEF ReferencesOK, ReferenceOK
    <2> QED
        BY <2>3, <2>4
<1>6. ASSUME NEW h \in Handlers, SaveFallback(h) PROVE ReferenceOK(g)'
    <2>1. /\ pc[h] \in Registering /\ UNCHANGED heap
          /\ store' = [store EXCEPT ![heap[ref[h]].id] = ref[h]]
          /\ pc' = [pc EXCEPT ![h] = "idle"] /\ ref' = [ref EXCEPT ![h] = None]
          /\ me' = [me EXCEPT ![h] = None]
        BY <1>6 DEF SaveFallback
    <2>2. /\ Accounts' = Accounts \cup {heap[ref[h]].id}
          /\ Stored' = Stored \cup {ref[h]}
        BY <2>1, Storing
    <2>3. CASE g = h
        BY <2>1, <2>3 DEF ReferenceOK
    <2>4. CASE g # h
        <3>1. ASSUME pc[g] \in Registering PROVE CandidateOK(g)'
            <4>1. CandidateOK(g) /\ CandidateOK(h) /\ ref[g] \in Objects
                BY <2>1, <3>1 DEF ReferencesOK, ReferenceOK
            <4>2. ref[g] \notin Stored' /\ heap[ref[g]].id \notin Accounts'
                BY <2>1, <2>2, <2>4, <3>1, <4>1 DEF CandidateOK
            <4> QED
                BY <2>1, <2>4, <3>1, <4>1, <4>2 DEF CandidateOK
        <3> QED
            BY <2>1, <2>2, <2>4, <3>1 DEF ReferencesOK, ReferenceOK
    <2> QED
        BY <2>3, <2>4
<1>7. ASSUME NEW h \in Handlers, NEW u \in UserIds, ChangeOther(h, u) PROVE ReferenceOK(g)'
    <2>1. UNCHANGED <<heap, store>>
        BY <1>7 DEF ChangeOther, FindByID, Stored
    <2> QED
        BY <1>7, <2>1, SameStore DEF ChangeOther, FindByID, Stored, ReferencesOK, ReferenceOK, CandidateOK
<1>8. ASSUME NEW h \in Handlers, NEW a \in UserIds, NEW u \in UserIds, ChangeUserRole(h, a, u) PROVE ReferenceOK(g)'
    <2>1. UNCHANGED <<heap, store>>
        BY <1>8 DEF ChangeUserRole, FindByID, Stored
    <2> QED
        BY <1>8, <2>1, SameStore DEF ChangeUserRole, FindByID, Stored, ReferencesOK, ReferenceOK, CandidateOK
<1>9. ASSUME NEW h \in Handlers, NEW r \in Roles, ChangeRole(h, r) PROVE ReferenceOK(g)'
    <2>1. UNCHANGED <<heap, store>>
        BY <1>9 DEF ChangeRole
    <2> QED
        BY <1>9, <2>1, SameStore DEF ChangeRole, ReferencesOK, ReferenceOK, CandidateOK
<1>10. ASSUME NEW h \in Handlers, Refuse(h) PROVE ReferenceOK(g)'
    <2>1. UNCHANGED <<heap, store>>
        BY <1>10 DEF Refuse
    <2> QED
        BY <1>10, <2>1, SameStore DEF Refuse, ReferencesOK, ReferenceOK, CandidateOK
<1>11. ASSUME NEW h \in Handlers, NEW half \in Halves, AssignHalf(h, half) PROVE ReferenceOK(g)'
    <2>1. ref[h] \in Stored /\ UNCHANGED <<store, ref, me>>
        BY <1>11 DEF AssignHalf, ReferencesOK, ReferenceOK
    <2>2. \A p \in Objects \ {ref[h]} : heap'[p] = heap[p]
        BY <1>11 DEF AssignHalf
    <2>3. \A f \in Handlers : pc'[f] \in Registering <=> pc[f] \in Registering
        BY <1>11 DEF AssignHalf
    <2>4. /\ \A f \in Handlers : pc[f] \in Registering => pc'[f] = pc[f] /\ ref[f] # ref[h] /\ ref[f] \in Objects
          /\ pc'[g] \in {"check", "role", "save"} => pc[g] \in {"check", "role", "save"}
        BY <1>11, <2>1 DEF AssignHalf, ReferencesOK, ReferenceOK, CandidateOK
    <2>5. Stored' = Stored /\ Accounts' = Accounts
        BY <2>1, SameStore
    <2>6. ASSUME pc[g] \in Registering PROVE CandidateOK(g)'
        <3>1. CandidateOK(g)
            BY <2>6 DEF ReferencesOK, ReferenceOK
        <3> QED
            BY <2>1, <2>2, <2>3, <2>4, <2>5, <2>6, <3>1 DEF CandidateOK
    <2> QED
        BY <2>1, <2>3, <2>4, <2>5, <2>6 DEF ReferencesOK, ReferenceOK
<1>12. ASSUME NEW h \in Handlers, Save(h) PROVE ReferenceOK(g)'
    <2>1. UNCHANGED <<heap, store>>
        BY <1>12, SaveChangesNothing DEF Save
    <2> QED
        BY <1>12, <2>1, SameStore DEF Save, ReferencesOK, ReferenceOK, CandidateOK
<1>13. CASE UNCHANGED vars
    <2>1. UNCHANGED <<heap, store>>
        BY <1>13 DEF vars
    <2> QED
        BY <1>13, <2>1, SameStore DEF vars, ReferencesOK, ReferenceOK, CandidateOK
<1> QED
    BY <1>1, <1>2, <1>3, <1>4, <1>5, <1>6, <1>7, <1>8, <1>9, <1>10, <1>11, <1>12, <1>13 DEF Next

-----------------------------------------------------------------------------
(* Owners *)

\* A step of RegisterUser other than its last leaves the objects in the store alone.
LEMMA StoredUntouched ==
    ASSUME IInv, NEW h \in Handlers,
           (\E e \in Emails : Register(h, e)) \/ (\E o \in Objects : NotFirst(h, o))
    PROVE  UNCHANGED store /\ \A p \in Stored : heap'[p] = heap[p]
<1>1. ASSUME NEW e \in Emails, Register(h, e) PROVE UNCHANGED store /\ \A p \in Stored : heap'[p] = heap[p]
    BY <1>1 DEF Register, Free, Stored, IInv, TypeOK
<1>2. ASSUME NEW o \in Objects, NotFirst(h, o) PROVE UNCHANGED store /\ \A p \in Stored : heap'[p] = heap[p]
    BY <1>2 DEF NotFirst, IInv, TypeOK, ReferencesOK, ReferenceOK, Registering, CandidateOK, Stored, Accounts
<1> QED
    BY <1>1, <1>2

LEMMA OwnersStep == IInv /\ [Next]_vars => OwnersOK'
<1> SUFFICES ASSUME IInv, [Next]_vars PROVE OwnersOK'
    OBVIOUS
<1> TypeOK /\ OwnersOK
    BY DEF IInv
<1> USE DEF TypeOK, HandlerOK, Registering, Goto, Finish, history
<1>1. ASSUME NEW h \in Handlers, NEW e \in Emails, Register(h, e) PROVE OwnersOK'
    <2>1. UNCHANGED store /\ \A p \in Stored : heap'[p] = heap[p]
        BY <1>1, StoredUntouched
    <2>2. \A f \in Handlers : pc'[f] = "role" => pc[f] = "role" /\ ref'[f] = ref[f] /\ ref[f] \in Stored
        BY <1>1 DEF Register, IInv, ReferencesOK, ReferenceOK
    <2> QED
        BY <1>1, <2>1, <2>2, SameStore DEF Register, OwnersOK, Stored
<1>2. ASSUME NEW h \in Handlers, SaveFirstOwner(h) PROVE OwnersOK'
    <2>1. UNCHANGED <<heap, store>>
        BY <1>2 DEF SaveFirstOwner
    <2> QED
        BY <1>2, <2>1, SameStore DEF SaveFirstOwner, OwnersOK
<1>3. ASSUME NEW h \in Handlers, NEW o \in Objects, Scan(h, o) PROVE OwnersOK'
    <2>1. UNCHANGED <<heap, store>>
        BY <1>3 DEF Scan
    <2> QED
        BY <1>3, <2>1, SameStore DEF Scan, OwnersOK
<1>4. ASSUME NEW h \in Handlers, NEW o \in Objects, NotFirst(h, o) PROVE OwnersOK'
    <2>1. UNCHANGED store /\ \A p \in Stored : heap'[p] = heap[p]
        BY <1>4, StoredUntouched
    <2>2. \A f \in Handlers : pc'[f] = "role" => pc[f] = "role" /\ ref'[f] = ref[f] /\ ref[f] \in Stored
        BY <1>4 DEF NotFirst, IInv, ReferencesOK, ReferenceOK
    <2> QED
        BY <1>4, <2>1, <2>2, SameStore DEF NotFirst, OwnersOK, Stored
<1>5. ASSUME NEW h \in Handlers, Claim(h) PROVE OwnersOK'
    <2>1. /\ pc[h] \in Registering /\ UNCHANGED heap
          /\ store' = [store EXCEPT ![heap[ref[h]].id] = ref[h]]
          /\ claimed' = claimed \cup {heap[ref[h]].id} /\ made' = made
          /\ \A f \in Handlers : pc'[f] = "role" => pc[f] = "role" /\ ref'[f] = ref[f] /\ arg'[f] = arg[f]
        BY <1>5 DEF Claim
    <2>2. /\ Accounts' = Accounts \cup {heap[ref[h]].id}
          /\ heap[ref[h]].id \notin Accounts
        BY <2>1, Storing
    <2>3. \A u \in Accounts : store'[u] = store[u]
        BY <2>1, <2>2 DEF Accounts
    <2> QED
        BY <2>1, <2>2, <2>3 DEF OwnersOK
<1>6. ASSUME NEW h \in Handlers, SaveFallback(h) PROVE OwnersOK'
    <2>1. /\ pc[h] \in Registering /\ pc[h] = "fallback" /\ UNCHANGED heap
          /\ store' = [store EXCEPT ![heap[ref[h]].id] = ref[h]]
          /\ claimed' = claimed /\ made' = made
          /\ \A f \in Handlers : pc'[f] = "role" => pc[f] = "role" /\ ref'[f] = ref[f] /\ arg'[f] = arg[f]
        BY <1>6 DEF SaveFallback
    <2>2. /\ Accounts' = Accounts \cup {heap[ref[h]].id}
          /\ heap[ref[h]].id \notin Accounts
          /\ heap[ref[h]].id \in UserIds
        BY <2>1, Storing
    <2>3. \A u \in Accounts : store'[u] = store[u]
        BY <2>1, <2>2 DEF Accounts
    <2>4. heap[ref[h]].text = "user"
        BY <2>1 DEF IInv, ReferencesOK, ReferenceOK, CandidateOK
    <2> QED
        BY <2>1, <2>2, <2>3, <2>4 DEF OwnersOK
<1>7. ASSUME NEW h \in Handlers, NEW u \in UserIds, ChangeOther(h, u) PROVE OwnersOK'
    <2>1. UNCHANGED <<heap, store>>
        BY <1>7 DEF ChangeOther, FindByID
    <2> QED
        BY <1>7, <2>1, SameStore DEF ChangeOther, FindByID, OwnersOK
<1>8. ASSUME NEW h \in Handlers, NEW a \in UserIds, NEW u \in UserIds, ChangeUserRole(h, a, u) PROVE OwnersOK'
    <2>1. UNCHANGED <<heap, store>>
        BY <1>8 DEF ChangeUserRole, FindByID
    <2> QED
        BY <1>8, <2>1, SameStore DEF ChangeUserRole, FindByID, OwnersOK
<1>9. ASSUME NEW h \in Handlers, NEW r \in Roles, ChangeRole(h, r) PROVE OwnersOK'
    <2>1. UNCHANGED <<heap, store, claimed>> /\ made \subseteq made'
        BY <1>9 DEF ChangeRole
    <2>2. r = "owner" => heap[ref[h]].id \in made'
        BY <1>9 DEF ChangeRole, MayChange
    <2>3. arg' = [arg EXCEPT ![h] = r] /\ pc' = [pc EXCEPT ![h] = "role"] /\ UNCHANGED ref
        BY <1>9 DEF ChangeRole
    <2> QED
        BY <2>1, <2>2, <2>3, SameStore DEF OwnersOK
<1>10. ASSUME NEW h \in Handlers, Refuse(h) PROVE OwnersOK'
    <2>1. UNCHANGED <<heap, store>>
        BY <1>10 DEF Refuse
    <2> QED
        BY <1>10, <2>1, SameStore DEF Refuse, OwnersOK
<1>11. ASSUME NEW h \in Handlers, NEW half \in Halves, AssignHalf(h, half) PROVE OwnersOK'
    <2>1. UNCHANGED <<store, ref, arg, made, claimed>> /\ pc[h] = "role" /\ ref[h] \in Stored
        BY <1>11 DEF AssignHalf, IInv, ReferencesOK, ReferenceOK
    <2>2. /\ \A p \in Objects \ {ref[h]} : heap'[p] = heap[p]
          /\ heap'[ref[h]].id = heap[ref[h]].id
          /\ heap'[ref[h]].text \in {heap[ref[h]].text, arg[h]}
        BY <1>11, <2>1, Reached DEF AssignHalf, Users
    <2>3. \A f \in Handlers : pc'[f] = "role" => pc[f] = "role" /\ ref[f] \in Objects
        BY <1>11 DEF AssignHalf
    <2>4. \A u \in Accounts : heap'[store[u]].text = "owner" => u \in claimed \cup made
        <3>1. ASSUME NEW u \in Accounts, store[u] = ref[h], heap'[ref[h]].text = "owner"
              PROVE  u \in claimed \cup made
            <4>1. heap[ref[h]].id = u
                BY <3>1 DEF IInv, StoreOK
            <4> QED
                BY <2>1, <2>2, <3>1, <4>1 DEF OwnersOK
        <3>2. \A u \in Accounts : store[u] # ref[h] => heap'[store[u]] = heap[store[u]]
            BY <2>2 DEF Accounts
        <3> QED
            BY <3>1, <3>2 DEF OwnersOK
    <2> QED
        BY <2>1, <2>2, <2>3, <2>4, SameStore DEF OwnersOK
<1>12. ASSUME NEW h \in Handlers, Save(h) PROVE OwnersOK'
    <2>1. UNCHANGED <<heap, store>>
        BY <1>12, SaveChangesNothing DEF Save
    <2> QED
        BY <1>12, <2>1, SameStore DEF Save, OwnersOK
<1>13. CASE UNCHANGED vars
    <2>1. UNCHANGED <<heap, store>>
        BY <1>13 DEF vars
    <2> QED
        BY <1>13, <2>1, SameStore DEF vars, OwnersOK
<1> QED
    BY <1>1, <1>2, <1>3, <1>4, <1>5, <1>6, <1>7, <1>8, <1>9, <1>10, <1>11, <1>12, <1>13 DEF Next

-----------------------------------------------------------------------------
(* E-mails *)

Emailed == EmailsOK /\ EmailsClashOnlyInRaces

\* A step that neither begins nor ends a registration.
LEMMA EmailsKept ==
    ASSUME IInv, UNCHANGED <<store, raced>>,
           \A f \in Handlers : pc'[f] \in Registering => pc[f] \in Registering /\ ref'[f] = ref[f],
           \A o \in Objects : heap[o] \in Users => heap'[o].email = heap[o].email
    PROVE  Emailed'
<1>1. Stored' = Stored /\ Accounts' = Accounts
    BY SameStore
<1>2. \A o \in Stored : heap'[o].email = heap[o].email
    BY Reached
<1>3. \A f \in Handlers : pc'[f] \in Registering =>
          /\ pc[f] \in Registering /\ ref'[f] = ref[f]
          /\ heap'[ref[f]].email = heap[ref[f]].email
    BY Holding DEF Registering
<1>4. EmailsOK'
    BY <1>1, <1>2, <1>3 DEF EmailsOK, IInv
<1>5. EmailsClashOnlyInRaces'
    BY <1>1, <1>2 DEF EmailsClashOnlyInRaces, IInv, Stored
<1> QED
    BY <1>4, <1>5 DEF Emailed

\* The end of a registration: its candidate becomes an account.
LEMMA EmailsStored ==
    ASSUME IInv, NEW h \in Handlers, pc[h] \in Registering, UNCHANGED <<heap, raced>>,
           store' = [store EXCEPT ![heap[ref[h]].id] = ref[h]],
           pc' = [pc EXCEPT ![h] = "idle"], ref' = [ref EXCEPT ![h] = None]
    PROVE  Emailed'
<1>1. /\ heap[ref[h]].id \notin Accounts
      /\ Accounts' = Accounts \cup {heap[ref[h]].id}
      /\ Stored' = Stored \cup {ref[h]}
      /\ heap[ref[h]].id \in UserIds
    BY Storing
<1>2. \A f \in Handlers : pc'[f] \in Registering => f # h /\ pc[f] \in Registering /\ ref'[f] = ref[f]
    BY DEF IInv, TypeOK, Registering
<1>3. EmailsOK'
    BY <1>1, <1>2 DEF EmailsOK, IInv
<1>4. /\ \A u \in Accounts : store'[u] = store[u] /\ store[u] \in Stored
      /\ store'[heap[ref[h]].id] = ref[h]
    BY <1>1 DEF IInv, TypeOK, Accounts, Stored
<1>5. EmailsClashOnlyInRaces'
    BY <1>1, <1>4 DEF EmailsClashOnlyInRaces, EmailsOK, IInv
<1> QED
    BY <1>3, <1>5 DEF Emailed

LEMMA EmailsStep == IInv /\ [Next]_vars => Emailed'
<1> SUFFICES ASSUME IInv, [Next]_vars PROVE Emailed'
    OBVIOUS
<1> TypeOK
    BY DEF IInv
<1> USE DEF TypeOK, HandlerOK, Registering, Goto, Finish, history
<1>1. ASSUME NEW h \in Handlers, NEW e \in Emails, Register(h, e) PROVE Emailed'
    <2> PICK o \in Free, u \in FreshIds :
            /\ heap' = [heap EXCEPT ![o] = NewUser(u, e, "owner")]
            /\ ref' = [ref EXCEPT ![h] = o]
        BY <1>1 DEF Register
    <2>1. o \in Objects \ Stored /\ \A f \in Handlers : ref[f] # o
        BY DEF Free, Held
    <2>2. /\ heap'[o].email = e
          /\ \A p \in Objects \ {o} : heap'[p] = heap[p]
        BY <2>1 DEF NewUser
    <2>3. /\ UNCHANGED store /\ pc' = [pc EXCEPT ![h] = "claim"] /\ pc[h] = "idle"
          /\ \A p \in Stored : heap[p].email # e
          /\ raced \subseteq raced'
          /\ \A f \in Handlers : pc[f] \in Registering /\ heap[ref[f]].email = e => e \in raced'
        BY <1>1 DEF Register
    <2>4. Stored' = Stored /\ Accounts' = Accounts /\ Stored \subseteq Objects
        BY <2>3, SameStore, Reached
    <2>5. \A f \in Handlers \ {h} : pc'[f] \in Registering =>
              pc[f] \in Registering /\ ref'[f] = ref[f] /\ heap'[ref[f]] = heap[ref[f]]
        BY <2>1, <2>2, <2>3
    <2>6. ref'[h] = o
        OBVIOUS
    <2>7. \A p \in Stored : heap'[p] = heap[p]
        BY <2>1, <2>2, <2>4
    <2>8. ASSUME NEW f \in Handlers, pc'[f] \in Registering
          PROVE  LET m == heap'[ref'[f]].email IN
                 /\ \A p \in Stored' : heap'[p].email = m => m \in raced'
                 /\ \A g \in Handlers \ {f} : pc'[g] \in Registering /\ heap'[ref'[g]].email = m => m \in raced'
        <3>1. CASE f = h
            BY <2>2, <2>3, <2>4, <2>5, <2>6, <2>7, <3>1
        <3>2. CASE f # h
            BY <2>2, <2>3, <2>4, <2>5, <2>6, <2>7, <2>8, <3>2 DEF EmailsOK, IInv
        <3> QED
            BY <3>1, <3>2
    <2>9. EmailsOK'
        BY <2>8 DEF EmailsOK
    <2>10. EmailsClashOnlyInRaces'
        BY <2>3, <2>4, <2>7 DEF EmailsClashOnlyInRaces, IInv, Stored
    <2> QED
        BY <2>9, <2>10 DEF Emailed
<1>2. ASSUME NEW h \in Handlers, SaveFirstOwner(h) PROVE Emailed'
    BY <1>2, EmailsKept DEF SaveFirstOwner
<1>3. ASSUME NEW h \in Handlers, NEW o \in Objects, Scan(h, o) PROVE Emailed'
    BY <1>3, EmailsKept DEF Scan
<1>4. ASSUME NEW h \in Handlers, NEW o \in Objects, NotFirst(h, o) PROVE Emailed'
    <2>1. heap'[ref[h]].email = heap[ref[h]].email
        BY <1>4, Holding DEF NotFirst, NewUser
    <2> QED
        BY <1>4, <2>1, EmailsKept DEF NotFirst
<1>5. ASSUME NEW h \in Handlers, Claim(h) PROVE Emailed'
    BY <1>5, EmailsStored DEF Claim
<1>6. ASSUME NEW h \in Handlers, SaveFallback(h) PROVE Emailed'
    BY <1>6, EmailsStored DEF SaveFallback
<1>7. ASSUME NEW h \in Handlers, NEW u \in UserIds, ChangeOther(h, u) PROVE Emailed'
    BY <1>7, EmailsKept DEF ChangeOther, FindByID
<1>8. ASSUME NEW h \in Handlers, NEW a \in UserIds, NEW u \in UserIds, ChangeUserRole(h, a, u) PROVE Emailed'
    BY <1>8, EmailsKept DEF ChangeUserRole, FindByID
<1>9. ASSUME NEW h \in Handlers, NEW r \in Roles, ChangeRole(h, r) PROVE Emailed'
    BY <1>9, EmailsKept DEF ChangeRole
<1>10. ASSUME NEW h \in Handlers, Refuse(h) PROVE Emailed'
    BY <1>10, EmailsKept DEF Refuse
<1>11. ASSUME NEW h \in Handlers, NEW half \in Halves, AssignHalf(h, half) PROVE Emailed'
    <2>1. heap'[ref[h]].email = heap[ref[h]].email
        BY <1>11, Holding DEF AssignHalf, Users
    <2> QED
        BY <1>11, <2>1, EmailsKept DEF AssignHalf
<1>12. ASSUME NEW h \in Handlers, Save(h) PROVE Emailed'
    BY <1>12, EmailsKept, SaveChangesNothing DEF Save
<1>13. CASE UNCHANGED vars
    BY <1>13, EmailsKept DEF vars
<1> QED
    BY <1>1, <1>2, <1>3, <1>4, <1>5, <1>6, <1>7, <1>8, <1>9, <1>10, <1>11, <1>12, <1>13 DEF Next

-----------------------------------------------------------------------------
(* The first owner *)

\* A step that has no part in a claim.
LEMMA ClaimsKept ==
    ASSUME IInv, UNCHANGED <<store, claimed, demoted>>,
           \A o \in Stored : heap'[o] = heap[o],
           \A f \in Handlers : /\ pc'[f] = "fallback" => pc[f] = "fallback"
                               /\ pc'[f] = "scan" => pc[f] = "scan" /\ todo'[f] = todo[f]
    PROVE  ClaimsOK'
<1>1. Stored' = Stored /\ Accounts' = Accounts
    BY SameStore
<1>2. \A u \in Accounts : Role(u)' = Role(u)
    BY DEF Role, Stored
<1> QED
    BY <1>1, <1>2 DEF ClaimsOK, IInv

LEMMA ClaimsStep == IInv /\ [Next]_vars => ClaimsOK'
<1> SUFFICES ASSUME IInv, [Next]_vars PROVE ClaimsOK'
    OBVIOUS
<1> TypeOK /\ ClaimsOK
    BY DEF IInv
<1> USE DEF TypeOK, HandlerOK, Registering, Goto, Finish, history
<1>1. ASSUME NEW h \in Handlers, NEW e \in Emails, Register(h, e) PROVE ClaimsOK'
    <2>1. \A o \in Stored : heap'[o] = heap[o]
        BY <1>1, StoredUntouched
    <2> QED
        BY <1>1, <2>1, ClaimsKept DEF Register
<1>2. ASSUME NEW h \in Handlers, SaveFirstOwner(h) PROVE ClaimsOK'
    <2>1. UNCHANGED <<heap, store, claimed, demoted>> /\ todo' = [todo EXCEPT ![h] = Stored]
          /\ pc' = [pc EXCEPT ![h] = "scan"]
        BY <1>2 DEF SaveFirstOwner
    <2>2. Stored' = Stored /\ Accounts' = Accounts /\ \A u \in Accounts : Role(u)' = Role(u)
        BY <2>1, SameStore DEF Role
    <2>3. \A u \in Accounts : store[u] \in Stored
        BY DEF Stored
    <2> QED
        BY <2>1, <2>2, <2>3 DEF ClaimsOK
<1>3. ASSUME NEW h \in Handlers, NEW o \in Objects, Scan(h, o) PROVE ClaimsOK'
    <2>1. UNCHANGED <<heap, store, claimed, demoted, pc>> /\ todo' = [todo EXCEPT ![h] = @ \ {o}]
          /\ RoleIn(heap[o]) # "owner"
        BY <1>3 DEF Scan
    <2>2. Stored' = Stored /\ Accounts' = Accounts /\ \A u \in Accounts : Role(u)' = Role(u)
        BY <2>1, SameStore DEF Role
    <2>3. \A u \in Accounts : Role(u) = "owner" => store[u] # o
        BY <2>1 DEF Role
    <2> QED
        BY <2>1, <2>2, <2>3 DEF ClaimsOK
<1>4. ASSUME NEW h \in Handlers, NEW o \in Objects, NotFirst(h, o) PROVE ClaimsOK'
    <2>1. UNCHANGED <<store, claimed, demoted>> /\ todo' = [todo EXCEPT ![h] = {}]
          /\ pc' = [pc EXCEPT ![h] = "fallback"] /\ o \in todo[h] /\ pc[h] = "scan"
        BY <1>4 DEF NotFirst
    <2>2. \A p \in Stored : heap'[p] = heap[p]
        BY <1>4, StoredUntouched
    <2>3. Stored' = Stored /\ Accounts' = Accounts /\ \A u \in Accounts : Role(u)' = Role(u)
        BY <2>1, <2>2, SameStore DEF Role, Stored
    <2>4. claimed # {}
        BY <2>1 DEF ClaimsOK, Stored
    <2> QED
        BY <2>1, <2>3, <2>4 DEF ClaimsOK
<1>5. ASSUME NEW h \in Handlers, Claim(h) PROVE ClaimsOK'
    <2> PICK u : u = heap[ref[h]].id
        OBVIOUS
    <2>1. /\ pc[h] = "scan" /\ todo[h] = {} /\ UNCHANGED <<heap, demoted>>
          /\ store' = [store EXCEPT ![u] = ref[h]] /\ claimed' = claimed \cup {u}
          /\ pc' = [pc EXCEPT ![h] = "idle"]
        BY <1>5 DEF Claim
    <2>2. /\ u \in UserIds
          /\ Accounts' = Accounts \cup {u}
        BY <2>1, Storing
    <2>3. \A f \in Handlers : pc'[f] # "scan"
        BY <2>1
    <2>4. \A f \in Handlers : pc'[f] = "fallback" => pc[f] = "fallback"
        BY <2>1
    <2>5. ~demoted => claimed = {}
        BY <2>1 DEF ClaimsOK
    <2>6. Role(u)' = "owner"
        <3>1. CandidateOK(h)
            BY <2>1 DEF IInv, ReferencesOK, ReferenceOK
        <3>2. store'[u] = ref[h]
            BY <2>1, <2>2
        <3> QED
            BY <2>1, <3>1, <3>2 DEF CandidateOK, Role, RoleIn
    <2>7. ~demoted' => claimed' = {u}
        BY <2>1, <2>5
    <2>8. u \in claimed' /\ u \in Accounts'
        BY <2>1, <2>2
    <2> QED
        BY <2>3, <2>4, <2>6, <2>7, <2>8 DEF ClaimsOK
<1>6. ASSUME NEW h \in Handlers, SaveFallback(h) PROVE ClaimsOK'
    <2> PICK u : u = heap[ref[h]].id
        OBVIOUS
    <2>1. /\ pc[h] = "fallback" /\ mu = None /\ UNCHANGED <<heap, demoted, claimed, todo>>
          /\ store' = [store EXCEPT ![u] = ref[h]]
          /\ pc' = [pc EXCEPT ![h] = "idle"]
        BY <1>6 DEF SaveFallback
    <2>2. /\ u \in UserIds /\ u \notin Accounts
          /\ Accounts' = Accounts \cup {u}
        BY <2>1, Storing
    <2>3. \A f \in Handlers : pc'[f] # "scan"
        BY <2>1
    <2>4. \A v \in Accounts : Role(v)' = Role(v)
        BY <2>1, <2>2 DEF Role, Accounts
    <2>5. claimed # {}
        BY <2>1 DEF ClaimsOK
    <2> QED
        BY <2>1, <2>2, <2>3, <2>4, <2>5 DEF ClaimsOK
<1>7. ASSUME NEW h \in Handlers, NEW u \in UserIds, ChangeOther(h, u) PROVE ClaimsOK'
    BY <1>7, ClaimsKept DEF ChangeOther, FindByID
<1>8. ASSUME NEW h \in Handlers, NEW a \in UserIds, NEW u \in UserIds, ChangeUserRole(h, a, u) PROVE ClaimsOK'
    BY <1>8, ClaimsKept DEF ChangeUserRole, FindByID
<1>9. ASSUME NEW h \in Handlers, NEW r \in Roles, ChangeRole(h, r) PROVE ClaimsOK'
    BY <1>9, ClaimsKept DEF ChangeRole
<1>10. ASSUME NEW h \in Handlers, Refuse(h) PROVE ClaimsOK'
    BY <1>10, ClaimsKept DEF Refuse
<1>11. ASSUME NEW h \in Handlers, NEW half \in Halves, AssignHalf(h, half) PROVE ClaimsOK'
    <2>1. /\ UNCHANGED <<store, claimed>>
          /\ \A f \in Handlers : /\ pc'[f] = "fallback" => pc[f] = "fallback"
                                 /\ pc'[f] = "scan" => pc[f] = "scan" /\ todo'[f] = todo[f]
        BY <1>11 DEF AssignHalf
    <2>2. Stored' = Stored /\ Accounts' = Accounts
        BY <2>1, SameStore
    <2>3. ~demoted' => ~demoted /\ (RoleIn(heap[ref[h]]) = "owner" => RoleIn(heap'[ref[h]]) = "owner")
        BY <1>11 DEF AssignHalf
    <2>4. \A o \in Objects \ {ref[h]} : heap'[o] = heap[o]
        BY <1>11 DEF AssignHalf
    <2>5. ASSUME ~demoted', NEW v \in Accounts, Role(v) = "owner" PROVE Role(v)' = "owner"
        BY <2>1, <2>3, <2>4, <2>5 DEF Role, Accounts
    <2> QED
        BY <2>1, <2>2, <2>3, <2>5 DEF ClaimsOK
<1>12. ASSUME NEW h \in Handlers, Save(h) PROVE ClaimsOK'
    BY <1>12, ClaimsKept, SaveChangesNothing DEF Save
<1>13. CASE UNCHANGED vars
    BY <1>13, ClaimsKept DEF vars
<1> QED
    BY <1>1, <1>2, <1>3, <1>4, <1>5, <1>6, <1>7, <1>8, <1>9, <1>10, <1>11, <1>12, <1>13 DEF Next

-----------------------------------------------------------------------------
(* Theorems *)

LEMMA Invariance == Spec => []IInv
<1>1. IInv /\ [Next]_vars => IInv'
    BY TypeStep, StoreStep, ReferencesStep, OwnersStep, EmailsStep, ClaimsStep DEF IInv, Emailed
<1> QED
    BY InitIInv, <1>1, PTL DEF Spec

\* The variables have their types, and mu is locked by the handler that scans.
THEOREM TypeCorrect == Spec => []TypeOK
BY Invariance, PTL DEF IInv

\* An account is an owner by the first claim or by an owner's decision, whatever
\* the halves of racing assignments make of its role.
THEOREM OwnersAreMadeOnly == Spec => []OwnersAreMade
<1>1. IInv => OwnersAreMade
    BY DEF IInv, TypeOK, OwnersOK, OwnersAreMade, Role, RoleIn
<1> QED
    BY <1>1, Invariance, PTL

\* As long as no owner has lost the role, SaveFirstOwner has let one account in.
THEOREM FirstOwnerIsOne == Spec => []OneFirstOwner
<1>1. IInv => OneFirstOwner
    <2> SUFFICES ASSUME IInv, ~demoted
                 PROVE  /\ Cardinality(claimed) <= 1
                        /\ Accounts # {} => \E u \in claimed \cap Accounts : Role(u) = "owner"
        BY DEF OneFirstOwner
    <2>1. CASE claimed = {}
        BY <2>1, FS_EmptySet DEF IInv, ClaimsOK
    <2>2. CASE \E u : claimed = {u}
        <3> PICK u : claimed = {u}
            BY <2>2
        <3>1. Cardinality(claimed) = 1
            BY FS_Singleton
        <3>2. Cardinality(claimed) <= 1
            BY <3>1
        <3> QED
            BY <3>2 DEF IInv, ClaimsOK
    <2>3. claimed = {} \/ \E u : claimed = {u}
        <3>1. \A u, v \in claimed : u = v
            BY DEF IInv, ClaimsOK
        <3> QED
            BY <3>1
    <2> QED
        BY <2>1, <2>2, <2>3
<1> QED
    BY <1>1, Invariance, PTL

\* Two accounts share an e-mail only when both were being registered at once.
THEOREM EmailsClashSeldom == Spec => []EmailsClashOnlyInRaces
BY Invariance, PTL DEF IInv

\* No request undoes a change of role: every step but the assignment in ChangeRole
\* leaves each account's object as it is.
THEOREM NoLostRole == Spec => SavesUndoNothing
<1>1. IInv /\ [Next]_vars => NothingUndone
    <2> SUFFICES ASSUME IInv, [Next]_vars, NEW u \in Accounts
                 PROVE  LET old == heap[store[u]]
                            new == heap'[store'[u]]
                        IN  /\ new.id = u /\ new.email = old.email
                            /\ new # old => \E h \in Handlers : /\ pc[h] = "role" /\ ref[h] = store[u]
                                                               /\ todo'[h] # todo[h]
        BY DEF NothingUndone
    <2>1. store[u] \in Stored /\ store[u] \in Objects /\ heap[store[u]].id = u /\ heap[store[u]] \in Users
        BY Reached DEF Stored, IInv, StoreOK
    <2>2. ASSUME NEW h \in Handlers, (\E e \in Emails : Register(h, e)) \/ (\E o \in Objects : NotFirst(h, o))
          PROVE  heap'[store'[u]] = heap[store[u]]
        BY <2>1, <2>2, StoredUntouched
    <2>3. ASSUME NEW h \in Handlers, Claim(h) \/ SaveFallback(h)
          PROVE  heap'[store'[u]] = heap[store[u]]
        <3>1. /\ pc[h] \in Registering /\ UNCHANGED heap
              /\ store' = [store EXCEPT ![heap[ref[h]].id] = ref[h]]
            BY <2>3 DEF Claim, SaveFallback, Registering
        <3>2. heap[ref[h]].id # u
            BY <3>1, Storing
        <3> QED
            BY <3>1, <3>2 DEF IInv, TypeOK
    <2>4. ASSUME NEW h \in Handlers, Save(h)
          PROVE  heap'[store'[u]] = heap[store[u]]
        BY <2>4, SaveChangesNothing
    <2>5. ASSUME NEW h \in Handlers, \/ SaveFirstOwner(h) \/ Refuse(h)
                                     \/ \E o \in Objects : Scan(h, o)
                                     \/ \E v \in UserIds : ChangeOther(h, v)
                                     \/ \E a, v \in UserIds : ChangeUserRole(h, a, v)
                                     \/ \E r \in Roles : ChangeRole(h, r)
          PROVE  heap'[store'[u]] = heap[store[u]]
        BY <2>5 DEF SaveFirstOwner, Refuse, Scan, ChangeOther, ChangeUserRole, ChangeRole, FindByID
    <2>6. ASSUME NEW h \in Handlers, NEW half \in Halves, AssignHalf(h, half)
          PROVE  /\ heap'[store'[u]].id = u /\ heap'[store'[u]].email = heap[store[u]].email
                 /\ heap'[store'[u]] # heap[store[u]] => /\ pc[h] = "role" /\ ref[h] = store[u]
                                                         /\ todo'[h] # todo[h]
        BY <2>1, <2>6 DEF AssignHalf, IInv, TypeOK, Users
    <2>7. CASE UNCHANGED vars
        BY <2>1, <2>7 DEF vars
    <2> QED
        BY <2>1, <2>2, <2>3, <2>4, <2>5, <2>6, <2>7 DEF Next
<1> QED
    BY <1>1, Invariance, PTL DEF Spec, SavesUndoNothing
=============================================================================
