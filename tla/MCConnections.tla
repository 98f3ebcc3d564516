----------------------------- MODULE MCConnections -----------------------------
(* Model-checking instances of Connections. *)
EXTENDS Connections, TLC

\* Clients and identities are only compared for equality.
Symmetry == Permutations(Clients) \cup Permutations(Identities)
=============================================================================
