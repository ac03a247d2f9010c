--------------------------- MODULE MCEcfAllocation ---------------------------
(* Instances of EcfAllocation for TLC. *)
EXTENDS EcfAllocation, TLC

\* Two ranges of one environment, side by side.
TwoRanges == {[env |-> "eCF", from |-> 1, to |-> 2], [env |-> "eCF", from |-> 3, to |-> 3]}

\* A range, and one that covers it in part.
CrossedRanges == {[env |-> "eCF", from |-> 1, to |-> 2], [env |-> "eCF", from |-> 2, to |-> 3]}

\* The same numbers in two environments.
TwinRanges == {[env |-> "eCF", from |-> 1, to |-> 2], [env |-> "TesteCF", from |-> 1, to |-> 2]}

OneRange == {[env |-> "eCF", from |-> 1, to |-> 2]}

Symmetric == Permutations(Sessions)

=============================================================================
