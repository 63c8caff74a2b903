---------------------------- MODULE MCSeatPanel -----------------------------
(* Instances of SeatPanel for TLC. *)
EXTENDS SeatPanel

(* The seats of Main and the tests of changeState; the fourth element of   *)
(* the array, which nobody writes, is left out.                            *)
CodeSeats == 1 .. 3
CodeTests == << {}, {1}, {2}, {3}, {1, 2}, {1, 3}, {2, 3}, {1, 2, 3} >>

TwoSeats == 1 .. 2
TwoSeatTests == << {}, {1}, {2}, {1, 2} >>
=============================================================================
