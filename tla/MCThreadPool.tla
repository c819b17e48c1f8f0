---------------------------- MODULE MCThreadPool ----------------------------
(* An instance of ThreadPool for TLC. *)
EXTENDS ThreadPool, TLC

=============================================================================
