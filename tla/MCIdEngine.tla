----------------------------- MODULE MCIdEngine -----------------------------
(* Instances of IdEngine for TLC.  The threads are interchangeable, so runs *)
(* that check no liveness property are reduced by symmetry.                 *)
EXTENDS IdEngine, TLC

ThreadSymmetry == Permutations(Threads)

=============================================================================
