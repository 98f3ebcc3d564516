------------------------------- MODULE MCOutbox -------------------------------
(* Model-checking instances of Outbox. *)
EXTENDS Outbox, TLC

\* Workers and dispatch tokens are only compared for equality.
WorkerAndTokenSymmetry == Permutations(Workers) \cup Permutations(Signals)
=============================================================================
