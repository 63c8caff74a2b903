------------------------------ MODULE MCTimeSync ----------------------------
(* Instances of TimeSync for TLC. *)
EXTENDS TimeSync
=============================================================================
