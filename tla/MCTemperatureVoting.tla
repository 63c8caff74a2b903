------------------------ MODULE MCTemperatureVoting -------------------------
(* Instances of TemperatureVoting for TLC. *)
EXTENDS TemperatureVoting

(* One at the lower end of the range 18..21, whose fraction is garbled,    *)
(* and the upper end itself, so that each suggestion is limited at one     *)
(* of them.                                                                *)
SomeReadings == {18095, 21000}
=============================================================================
