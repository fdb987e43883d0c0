---------------------------- MODULE SessionTokens ----------------------------
(***************************************************************************)
(* What the token service promises the clients about refresh tokens,       *)
(* without Redis: a token in a client's hands is live, spent or dead; only *)
(* a live token can be spent, once, for at most one successor of the same  *)
(* user; a spent or dead token never works again.                          *)
(***************************************************************************)
CONSTANTS Users, Tokens, None

VARIABLES
    status,    \* of each token
    holder,    \* user the token was issued to
    parent     \* token it was exchanged for, None after a login

vars == <<status, holder, parent>>

Init ==
    /\ status = [t \in Tokens |-> "unissued"]
    /\ holder = [t \in Tokens |-> None]
    /\ parent = [t \in Tokens |-> None]

\* Token t reaches a client of user u: after a login, or for the spent token p.
\* It may already be dead, when a revocation came before the response.
Issue(t, u, p) ==
    /\ status[t] = "unissued"
    /\ p # None =>
          /\ status[p] = "spent" /\ holder[p] = u
          /\ \A s \in Tokens : parent[s] # p
    /\ \E s \in {"live", "dead"} : status' = [status EXCEPT ![t] = s]
    /\ holder' = [holder EXCEPT ![t] = u]
    /\ parent' = [parent EXCEPT ![t] = p]

Spend(t) ==
    /\ status[t] = "live"
    /\ status' = [status EXCEPT ![t] = "spent"]
    /\ UNCHANGED <<holder, parent>>

\* Revocation or expiry.
Kill(t) ==
    /\ status[t] = "live"
    /\ status' = [status EXCEPT ![t] = "dead"]
    /\ UNCHANGED <<holder, parent>>

Next ==
    \E t \in Tokens :
        \/ \E u \in Users, p \in Tokens \cup {None} : Issue(t, u, p)
        \/ Spend(t)
        \/ Kill(t)

Spec == Init /\ [][Next]_vars
=============================================================================
