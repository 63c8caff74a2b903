---------------------------- MODULE MCSeatServer ----------------------------
(* Instances of SeatServer for TLC. *)
EXTENDS SeatServer

(* One clock unit is a second: the sensor waits less than PIR_MAXIMUM_WAIT. *)
MCSeconds == 0..7

(* One clock unit is several seconds: the sensor may fire at once, or so    *)
(* late that a chronometer passes it by.                                    *)
MCCoarse == {0, 2}
=============================================================================
