-------------------------- MODULE MCSeatMonitoring --------------------------
(* Instances of SeatMonitoring for TLC. *)
EXTENDS SeatMonitoring
=============================================================================
