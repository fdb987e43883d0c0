-------------------------- MODULE MCMemoryAccounts --------------------------
(* A small instance of MemoryAccounts for TLC. *)
EXTENDS MemoryAccounts, TLC

\* Handlers, ids, addresses and e-mails are only compared for equality.
Symmetry == Permutations(Handlers) \cup Permutations(UserIds)
            \cup Permutations(Objects) \cup Permutations(Emails)
=============================================================================
