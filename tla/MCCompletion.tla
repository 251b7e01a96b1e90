---------------------------- MODULE MCCompletion ----------------------------
(* Small instances of Completion for TLC. *)
EXTENDS Completion, TLC

Symmetry == Permutations(Orders) \cup Permutations(Deliveries)
                \cup Permutations(Payments) \cup Permutations(Drivers)
                \cup Permutations(Requests)
=============================================================================
