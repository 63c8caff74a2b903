------------------------ MODULE MCTemperatureSensor -------------------------
(* Instances of TemperatureSensor for TLC. *)
EXTENDS TemperatureSensor

AllFaults == {"tcp", "refused", "ping"}
TcpFaults == {"tcp"}
NoCommands == {}

(* Commands at both ends of the range and just outside it.                 *)
RoomCommands == {21, 22, 24, 25}
=============================================================================
