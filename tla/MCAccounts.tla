----------------------------- MODULE MCAccounts -----------------------------
(* Small instances of Accounts for TLC. *)
EXTENDS Accounts, TLC

\* Handlers, ids and e-mails are only compared for equality.
Symmetry == Permutations(Handlers) \cup Permutations(UserIds) \cup Permutations(Emails)
=============================================================================
