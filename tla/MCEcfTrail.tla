----------------------------- MODULE MCEcfTrail -----------------------------
(* Workers are interchangeable. *)
EXTENDS EcfTrail, TLC

WorkerSymmetry == Permutations(Workers)

=============================================================================
