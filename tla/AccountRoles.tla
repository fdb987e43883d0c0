---------------------------- MODULE AccountRoles ----------------------------
(***************************************************************************)
(* What the users table promises about roles, without requests: the first  *)
(* account is the owner's and stays so, every later one begins as a plain  *)
(* user, and only accounts that are not the owner's are ever given another *)
(* role, which is not owner.  Accounts and AccessControl implement it.     *)
(***************************************************************************)
CONSTANTS UserIds

VARIABLES role    \* of each account, "none" when there is no account

Owners == {u \in UserIds : role[u] = "owner"}

Init == role = [u \in UserIds |-> "none"]

\* The first account.
ClaimOwnership(u) ==
    /\ \A v \in UserIds : role[v] = "none"
    /\ role' = [role EXCEPT ![u] = "owner"]

\* Any later one.
Join(u) ==
    /\ role[u] = "none"
    /\ Owners # {}
    /\ role' = [role EXCEPT ![u] = "user"]

\* A decision of the owner, or a stale copy of the row that undoes one.
Change(u, r) ==
    /\ role[u] \in {"admin", "user"}
    /\ role' = [role EXCEPT ![u] = r]

Next ==
    \E u \in UserIds :
        \/ ClaimOwnership(u)
        \/ Join(u)
        \/ \E r \in {"admin", "user"} : Change(u, r)

Spec == Init /\ [][Next]_role
=============================================================================
