------------------------------ MODULE MCAccounts ------------------------------
(* Model-checking instances of Accounts. *)
EXTENDS Accounts, TLC

\* Handlers, session rows and codes are only compared for equality.
Symmetry == Permutations(Requests) \cup Permutations(Sessions) \cup Permutations(Codes)
=============================================================================
