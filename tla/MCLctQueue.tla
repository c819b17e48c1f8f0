----------------------------- MODULE MCLctQueue -----------------------------
(* Instances of LctQueue for TLC. *)
EXTENDS LctQueue, TLC

UserSymmetry == Permutations(Producers) \cup Permutations(Consumers)

=============================================================================
