--------------------------- MODULE MCRunLifecycle ---------------------------
(* Model-checking instances of RunLifecycle. *)
EXTENDS RunLifecycle, TLC

\* Tokens and plan bodies are only compared for equality.
TokenSymmetry == Permutations(Executions)
TokenAndBodySymmetry == TokenSymmetry \cup Permutations(Bodies)
=============================================================================
