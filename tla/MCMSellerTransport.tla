------------------------- MODULE MCMSellerTransport -------------------------
(* Callers are interchangeable. *)
EXTENDS MSellerTransport, TLC

CallerSymmetry == Permutations(Callers)

=============================================================================
