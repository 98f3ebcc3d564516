------------------------------- MODULE MCMembers -------------------------------
(* Model-checking instances of Members. *)
EXTENDS Members, TLC

\* Handlers, workspaces and the users that are not platform administrators are only
\* compared for equality.
Symmetry ==
  Permutations(Requests) \cup Permutations(Workspaces) \cup Permutations(Users \ PlatformAdmins)
=============================================================================
