---------------------------- MODULE MCRotateSink ----------------------------
(* An instance of RotateSink for TLC. *)
EXTENDS RotateSink, TLC

=============================================================================
