----------------------------- MODULE MqttEngine -----------------------------
(***************************************************************************)
(* The MQTT client library of Contiki-NG as the two publishing motes use   *)
(* it.  The library is not part of the repository; these operators say     *)
(* what its calls return and leave behind, and how a connection changes    *)
(* when the network or the broker acts.                                    *)
(*                                                                         *)
(* A connection has                                                        *)
(*   link     "down"        no connection, mqtt_connect will start one     *)
(*            "connecting"  TCP or the MQTT handshake is in progress       *)
(*            "up"          the broker accepted the connection             *)
(*            "aborting"    TCP failed: the library has already begun to   *)
(*                          reconnect by itself, but an event that aborts  *)
(*                          this attempt waits in the kernel's queue       *)
(*            "closed"      closed by the library for want of a PINGRESP,  *)
(*                          without telling the application                *)
(*   slot     what the output queue, one request long, holds               *)
(*   granted, refused   topics whose subscription the broker has answered  *)
(***************************************************************************)

Links == {"down", "connecting", "up", "aborting", "closed"}

MqttConnection(topics) ==
  [link : Links, slot : {"free", "publish"} \cup topics,
   granted : SUBSET topics, refused : SUBSET topics]

(* mqtt_register *)
MqttRegistered == [link |-> "down", slot |-> "free", granted |-> {}, refused |-> {}]

-----------------------------------------------------------------------------
(* Calls of the application. *)

(* mqtt_connect returns OK and does nothing unless the connection is down. *)
MqttConnect(c) ==
  IF c.link \in {"down", "closed"} THEN [c EXCEPT !.link = "connecting"] ELSE c

(* The status of mqtt_subscribe and mqtt_publish. *)
MqttStatus(c) ==
  IF c.link # "up" THEN "NOT_CONNECTED_ERROR"
  ELSE IF c.slot # "free" THEN "OUT_QUEUE_FULL" ELSE "OK"

(* The connection after the call: a request is a topic to subscribe to or  *)
(* "publish".  A request that is not accepted leaves no trace.             *)
MqttRequest(c, request) ==
  IF MqttStatus(c) = "OK" THEN [c EXCEPT !.slot = request] ELSE c

-----------------------------------------------------------------------------
(* What the network and the broker do. *)

(* CONNACK: accepted, or refused.  A refusal closes the connection for     *)
(* good; the application only gets an error event.                         *)
MqttAccepted(c) == [c EXCEPT !.link = "up"]
MqttRefused(c) == MqttRegistered

(* The TCP connection is closed, aborted or timed out. *)
MqttTcpLost(c) == [MqttRegistered EXCEPT !.link = "aborting"]

(* The abort event is processed. *)
MqttAborted(c) == MqttRegistered

(* A PINGREQ stays unanswered. *)
MqttPingLost(c) == [c EXCEPT !.link = "closed"]

(* The request in the slot is over: a publication was sent, or a           *)
(* subscription was answered (or its answer timed out, a refusal as far as *)
(* the broker's messages are concerned).                                   *)
MqttDone(c, grant) ==
  CASE c.slot = "publish" -> [c EXCEPT !.slot = "free"]
    [] c.slot # "publish" /\ grant  ->
         [c EXCEPT !.slot = "free", !.granted = @ \cup {c.slot}]
    [] c.slot # "publish" /\ ~grant ->
         [c EXCEPT !.slot = "free", !.refused = @ \cup {c.slot}]
=============================================================================
