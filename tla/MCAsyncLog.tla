----------------------------- MODULE MCAsyncLog -----------------------------
(* An instance of AsyncLog for TLC. *)
EXTENDS AsyncLog, TLC

=============================================================================
