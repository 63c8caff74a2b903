--------------------------- MODULE MCNoiseSensor ----------------------------
(* Instances of NoiseSensor for TLC.  One clock unit is a quarter of a      *)
(* second: the intervals are the code's 0.5 s, 2 s and 15 s.               *)
EXTENDS NoiseSensor

AllFaults == {"tcp", "refused", "ping"}
=============================================================================
