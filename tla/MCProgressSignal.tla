-------------------------- MODULE MCProgressSignal --------------------------
(* Instance of ProgressSignal for TLC. *)
EXTENDS ProgressSignal
=============================================================================
