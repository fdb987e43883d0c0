--------------------------- MODULE MemoryAccounts ---------------------------
(***************************************************************************)
(* The in-memory UserRepository under the use cases that write accounts.   *)
(*                                                                         *)
(* The map is guarded by a RWMutex, but what it holds are pointers, and    *)
(* FindByID hands them out: ChangeRole changes the stored object itself,   *)
(* without the lock and before Save.  Save only puts the pointer back.     *)
(* Assigning a role, a Go string, is two stores, of its text and of its    *)
(* length, which race with those of another request.                       *)
(*                                                                         *)
(* Data: of a user only id, e-mail and role are kept, so UpdateProfile and *)
(* ChangePassword are a lookup and a Save.  Reading a role is one step.    *)
(* Redis and the audit log come after the last access to the repository    *)
(* and are left out.  No use case calls Delete or Count.                   *)
(***************************************************************************)
EXTENDS Naturals, FiniteSets

CONSTANTS
    Handlers,    \* request goroutines
    UserIds,     \* values uuid.New may return
    Objects,     \* addresses of *entity.User
    Emails,
    None

Roles == {"owner", "admin", "user"}

Length(role) == IF role = "user" THEN 4 ELSE 5

Users == [id : UserIds, email : Emails, text : Roles, length : {4, 5}]

ASSUME NoneAssumption == None \notin UserIds \cup Objects \cup Handlers \cup Roles \cup Users

VARIABLES
    heap,       \* the objects
    store,      \* UserRepository.store: object of each id
    mu,         \* handler that has locked mu for writing over several steps
    pc,         \* next step of each handler
    me,         \* object of the actor of ChangeUserRole
    ref,        \* object the handler creates or changes
    arg,        \* role it is about to assign
    todo,       \* halves of the role to assign; objects SaveFirstOwner has to read
    made,       \* history: accounts an owner has decided to make an owner
    claimed,    \* history: accounts that claimed to be the first owner
    demoted,    \* history: an owner has lost the role
    raced       \* history: e-mails two requests were registering at once

handlers == <<pc, me, ref, arg, todo>>
history == <<made, claimed, demoted, raced>>
vars == <<heap, store, mu, pc, me, ref, arg, todo, made, claimed, demoted, raced>>

Halves == {"text", "length"}
Registering == {"claim", "scan", "fallback"}
Steps == {"idle", "check", "role", "save"} \cup Registering

\* What a handler holds at each step.
HandlerOK(h) ==
    /\ pc[h] = "idle" <=> ref[h] = None
    /\ pc[h] \in {"check", "role"} => me[h] # None
    /\ pc[h] = "role" => arg[h] # None
    /\ pc[h] = "scan" <=> mu = h
    /\ pc[h] = "scan" => todo[h] \subseteq Objects
    /\ pc[h] = "role" => todo[h] \subseteq Halves
    /\ pc[h] \notin {"scan", "role"} => todo[h] = {}

TypeOK ==
    /\ heap \in [Objects -> Users \cup {None}]
    /\ store \in [UserIds -> Objects \cup {None}]
    /\ mu \in Handlers \cup {None}
    /\ pc \in [Handlers -> Steps]
    /\ me \in [Handlers -> Objects \cup {None}]
    /\ ref \in [Handlers -> Objects \cup {None}]
    /\ arg \in [Handlers -> Roles \cup {None}]
    /\ todo \in [Handlers -> SUBSET (Halves \cup Objects)]
    /\ made \subseteq UserIds
    /\ claimed \subseteq UserIds
    /\ demoted \in BOOLEAN
    /\ raced \subseteq Emails
    /\ \A h \in Handlers : HandlerOK(h)

-----------------------------------------------------------------------------
(* Objects *)

Accounts == {u \in UserIds : store[u] # None}

Stored == {store[u] : u \in Accounts}

Held == {ref[h] : h \in Handlers} \cup {me[h] : h \in Handlers}

Free == Objects \ (Stored \cup Held)

\* An id no object in use has: the value uuid.New returns.
FreshIds == {u \in UserIds : \A o \in Objects \ Free : heap[o].id # u}

\* A string whose halves come from two assignments is none of the roles.
RoleIn(o) == IF o.length = Length(o.text) THEN o.text ELSE "torn"

Role(u) == RoleIn(heap[store[u]])

\* entity.NewUser
NewUser(u, e, r) ==
    [id |-> u, email |-> e, text |-> r, length |-> Length(r)]

\* Faulty variant: the caller gets a copy of the stored user, if there is room.
FindByIDCopied(h, u) ==
    \E o \in IF Free = {} THEN {store[u]} ELSE Free :
        /\ heap' = [heap EXCEPT ![o] = heap[store[u]]]
        /\ ref' = [ref EXCEPT ![h] = o]

\* The caller gets the stored pointer.
FindByID(h, u) ==
    /\ ref' = [ref EXCEPT ![h] = store[u]]
    /\ UNCHANGED heap

\* The next step of the use case that h runs.
Goto(h, s) == pc' = [pc EXCEPT ![h] = s]

Finish(h) ==
    /\ Goto(h, "idle")
    /\ me' = [me EXCEPT ![h] = None]
    /\ ref' = [ref EXCEPT ![h] = None]
    /\ arg' = [arg EXCEPT ![h] = None]

-----------------------------------------------------------------------------
(* RegisterUser *)

\* Faulty variant: FindByEmail is left to Save.
RegisterUnchecked(h, e) ==
    /\ pc[h] = "idle" /\ mu = None
    /\ \E o \in Free, u \in FreshIds :
          /\ heap' = [heap EXCEPT ![o] = NewUser(u, e, "owner")]
          /\ ref' = [ref EXCEPT ![h] = o]
    /\ Goto(h, "claim")
    /\ raced' = IF \E g \in Handlers : pc[g] \in Registering /\ heap[ref[g]].email = e
                THEN raced \cup {e} ELSE raced
    /\ UNCHANGED <<store, mu, me, arg, todo, made, claimed, demoted>>

\* FindByEmail finds nothing, and the owner candidate is built.
Register(h, e) ==
    /\ pc[h] = "idle" /\ mu = None
    /\ \A o \in Stored : heap[o].email # e
    /\ \E o \in Free, u \in FreshIds :
          /\ heap' = [heap EXCEPT ![o] = NewUser(u, e, "owner")]
          /\ ref' = [ref EXCEPT ![h] = o]
    /\ Goto(h, "claim")
    /\ raced' = IF \E g \in Handlers : pc[g] \in Registering /\ heap[ref[g]].email = e
                THEN raced \cup {e} ELSE raced
    /\ UNCHANGED <<store, mu, me, arg, todo, made, claimed, demoted>>

\* SaveFirstOwner takes the lock and begins to range over the map.
SaveFirstOwner(h) ==
    /\ pc[h] = "claim" /\ mu = None
    /\ mu' = h
    /\ Goto(h, "scan")
    /\ todo' = [todo EXCEPT ![h] = Stored]
    /\ UNCHANGED <<heap, store, me, ref, arg, history>>

\* Faulty variant: the first user read decides.
ScanOne(h, o) ==
    /\ pc[h] = "scan" /\ o \in todo[h]
    /\ RoleIn(heap[o]) # "owner"
    /\ todo' = [todo EXCEPT ![h] = {}]
    /\ UNCHANGED <<heap, store, mu, pc, me, ref, arg, history>>

\* existing.Role() # RoleOwner: the roles it has read may change while it goes on.
Scan(h, o) ==
    /\ pc[h] = "scan" /\ o \in todo[h]
    /\ RoleIn(heap[o]) # "owner"
    /\ todo' = [todo EXCEPT ![h] = @ \ {o}]
    /\ UNCHANGED <<heap, store, mu, pc, me, ref, arg, history>>

\* There is an owner: the use case builds a plain user instead.  (A second object
\* with an id of its own; the first was seen by nobody, and both are reused here.)
NotFirst(h, o) ==
    /\ pc[h] = "scan" /\ o \in todo[h]
    /\ RoleIn(heap[o]) = "owner"
    /\ mu' = None
    /\ Goto(h, "fallback")
    /\ todo' = [todo EXCEPT ![h] = {}]
    /\ heap' = [heap EXCEPT ![ref[h]] = NewUser(@.id, @.email, "user")]
    /\ UNCHANGED <<store, me, ref, arg, history>>

\* No owner was read: the candidate is stored, and the lock released.
Claim(h) ==
    LET u == heap[ref[h]].id IN
    /\ pc[h] = "scan" /\ todo[h] = {}
    /\ mu' = None
    /\ store' = [store EXCEPT ![u] = ref[h]]
    /\ claimed' = claimed \cup {u}
    /\ Finish(h)
    /\ UNCHANGED <<heap, todo, made, demoted, raced>>

\* Save of the plain user: nothing is checked.
SaveFallback(h) ==
    LET u == heap[ref[h]].id IN
    /\ pc[h] = "fallback" /\ mu = None
    /\ store' = [store EXCEPT ![u] = ref[h]]
    /\ Finish(h)
    /\ UNCHANGED <<heap, mu, todo, history>>

-----------------------------------------------------------------------------
(* UpdateProfile, ChangePassword and ChangeUserRole *)

\* What the two do to fields other than the role is left out.
ChangeOther(h, u) ==
    /\ pc[h] = "idle" /\ mu = None
    /\ u \in Accounts
    /\ FindByID(h, u)
    /\ Goto(h, "save")
    /\ UNCHANGED <<store, mu, me, arg, todo, history>>

\* FindByID of the actor a and of the target u.
ChangeUserRole(h, a, u) ==
    /\ pc[h] = "idle" /\ mu = None
    /\ a \in Accounts /\ u \in Accounts
    /\ me' = [me EXCEPT ![h] = store[a]]
    /\ FindByID(h, u)
    /\ Goto(h, "check")
    /\ UNCHANGED <<store, mu, arg, todo, history>>

\* Faulty variant: Role.CanManageRoles in place of the role owner.
ManagerMayChange(h) ==
    RoleIn(heap[me[h]]) \in {"owner", "admin"} /\ heap[me[h]].id # heap[ref[h]].id

\* entity.User.ChangeRole reads the actor's role as it is now.
MayChange(h) == RoleIn(heap[me[h]]) = "owner" /\ heap[me[h]].id # heap[ref[h]].id

\* r is the role of the request, any of the three.
ChangeRole(h, r) ==
    /\ pc[h] = "check"
    /\ MayChange(h)
    /\ arg' = [arg EXCEPT ![h] = r]
    /\ todo' = [todo EXCEPT ![h] = Halves]
    /\ Goto(h, "role")
    /\ made' = IF r = "owner" /\ RoleIn(heap[me[h]]) = "owner"
               THEN made \cup {heap[ref[h]].id} ELSE made
    /\ UNCHANGED <<heap, store, mu, me, ref, claimed, demoted, raced>>

\* ErrInsufficientPerms
Refuse(h) ==
    /\ pc[h] = "check"
    /\ ~MayChange(h)
    /\ Finish(h)
    /\ UNCHANGED <<heap, store, mu, todo, history>>

\* One of the two stores of u.role = newRole, in the order of the compiler.
AssignHalf(h, half) ==
    /\ pc[h] = "role" /\ half \in todo[h]
    /\ heap' = [heap EXCEPT ![ref[h]] =
                   IF half = "text" THEN [@ EXCEPT !.text = arg[h]]
                                    ELSE [@ EXCEPT !.length = Length(arg[h])]]
    /\ todo' = [todo EXCEPT ![h] = @ \ {half}]
    /\ IF todo'[h] = {} THEN Goto(h, "save") ELSE UNCHANGED pc
    /\ demoted' = (demoted \/ (RoleIn(heap[ref[h]]) = "owner" /\ RoleIn(heap'[ref[h]]) # "owner"))
    /\ UNCHANGED <<store, mu, me, ref, arg, made, claimed, raced>>

\* r.store[u.ID()] = u
Save(h) ==
    /\ pc[h] = "save" /\ mu = None
    /\ store' = [store EXCEPT ![heap[ref[h]].id] = ref[h]]
    /\ Finish(h)
    /\ UNCHANGED <<heap, mu, todo, history>>

-----------------------------------------------------------------------------
Init ==
    /\ heap = [o \in Objects |-> None]
    /\ store = [u \in UserIds |-> None]
    /\ mu = None
    /\ pc = [h \in Handlers |-> "idle"]
    /\ me = [h \in Handlers |-> None]
    /\ ref = [h \in Handlers |-> None]
    /\ arg = [h \in Handlers |-> None]
    /\ todo = [h \in Handlers |-> {}]
    /\ made = {}
    /\ claimed = {}
    /\ demoted = FALSE
    /\ raced = {}

Next ==
    \E h \in Handlers :
        \/ \E e \in Emails : Register(h, e)
        \/ SaveFirstOwner(h)
        \/ \E o \in Objects : Scan(h, o) \/ NotFirst(h, o)
        \/ Claim(h)
        \/ SaveFallback(h)
        \/ \E u \in UserIds : ChangeOther(h, u)
        \/ \E a, u \in UserIds : ChangeUserRole(h, a, u)
        \/ \E r \in Roles : ChangeRole(h, r)
        \/ Refuse(h)
        \/ \E half \in Halves : AssignHalf(h, half)
        \/ Save(h)

Spec == Init /\ [][Next]_vars

-----------------------------------------------------------------------------
(* Properties *)

\* An account is an owner by the first claim or by an owner's decision, also when
\* the halves of two assignments mix.
OwnersAreMade == \A u \in Accounts : Role(u) = "owner" => u \in claimed \cup made

\* "preventing TOCTOU races": as long as no owner loses the role, there is one
\* claim to be the first owner, and it comes before any other account.
OneFirstOwner ==
    ~demoted => /\ Cardinality(claimed) <= 1
                /\ Accounts # {} => \E u \in claimed \cap Accounts : Role(u) = "owner"

\* Save checks nothing, so two accounts may share an e-mail, but only when both
\* were being registered at once.
EmailsClashOnlyInRaces ==
    \A u, v \in Accounts :
        u # v /\ heap[store[u]].email = heap[store[v]].email => heap[store[u]].email \in raced

\* Nothing a request does undoes a change of role: Save puts back the pointer that
\* is already there, and only the assignment in ChangeRole changes the role.
NothingUndone ==
    \A u \in Accounts :
        LET old == heap[store[u]]
            new == heap'[store'[u]]
        IN  /\ new.id = u /\ new.email = old.email
            /\ new # old => \E h \in Handlers : /\ pc[h] = "role" /\ ref[h] = store[u]
                                               /\ todo'[h] # todo[h]

SavesUndoNothing == [][NothingUndone]_vars

-----------------------------------------------------------------------------
(* Inductive invariant *)

\* The object of an account carries its id.
StoreOK == \A u \in Accounts : heap[store[u]] # None /\ heap[store[u]].id = u

\* The candidate of a registration is its own; every other object that a handler
\* holds is in the store.
CandidateOK(h) ==
    LET o == heap[ref[h]] IN
    /\ o # None
    /\ ref[h] \notin Stored
    /\ o.id \notin Accounts
    /\ o.text = IF pc[h] = "fallback" THEN "user" ELSE "owner"
    /\ o.length = Length(o.text)
    /\ \A g \in Handlers \ {h} : /\ ref[g] # ref[h]
                                 /\ pc[g] \in Registering => heap[ref[g]].id # o.id

ReferenceOK(h) ==
    /\ pc[h] \in Registering => CandidateOK(h)
    /\ pc[h] \in {"check", "role", "save"} => ref[h] \in Stored
    /\ me[h] # None => me[h] \in Stored

ReferencesOK == \A h \in Handlers : ReferenceOK(h)

\* The text "owner" is written only by the claim and by a decision.
OwnersOK ==
    /\ \A u \in Accounts : heap[store[u]].text = "owner" => u \in claimed \cup made
    /\ \A h \in Handlers : pc[h] = "role" /\ arg[h] = "owner" => heap[ref[h]].id \in made

EmailsOK ==
    \A h \in Handlers : pc[h] \in Registering =>
        LET e == heap[ref[h]].email IN
        /\ \A o \in Stored : heap[o].email = e => e \in raced
        /\ \A g \in Handlers \ {h} : pc[g] \in Registering /\ heap[ref[g]].email = e => e \in raced

\* The first owner is there, and a scan has not passed by it.
ClaimsOK ==
    /\ Accounts # {} => claimed # {}
    /\ \A h \in Handlers : pc[h] = "fallback" => claimed # {}
    /\ \A h \in Handlers : pc[h] = "scan" => todo[h] \subseteq Stored
    /\ ~demoted =>
          /\ \A u \in claimed : /\ u \in Accounts /\ Role(u) = "owner"
                                /\ \A h \in Handlers : pc[h] = "scan" => store[u] \in todo[h]
          /\ \A u, v \in claimed : u = v

IInv == TypeOK /\ StoreOK /\ ReferencesOK /\ OwnersOK /\ EmailsOK /\ ClaimsOK /\ EmailsClashOnlyInRaces
=============================================================================
