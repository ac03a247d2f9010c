-------------------------- MODULE MCProviderHealth --------------------------
(* ProviderHealth for TLC. *)
EXTENDS ProviderHealth, TLC

Symmetric == Permutations(Callers)

=============================================================================
