---------------------------- MODULE MqttSession -----------------------------
(***************************************************************************)
(* What a publishing mote promises the broker, and itself, about its       *)
(* session: the abstract specification that NoiseSensor and                *)
(* TemperatureSensor implement.                                            *)
(*                                                                         *)
(* A session is opened when there is none.  In it the topics are           *)
(* subscribed to one after the other, each of them once and each only when *)
(* the answer to the one before has come; publications follow, one at a    *)
(* time, when all topics are answered.  A loss ends the session and all    *)
(* that was achieved in it, and the mote may start again; the losses it    *)
(* cannot notice leave it stranded.  It never ends by itself.              *)
(***************************************************************************)
EXTENDS Naturals, Sequences

CONSTANTS
  TopicOrder,   \* the topics, in the order in which they are subscribed to
  Losses        \* how a session may be lost unnoticed

VARIABLES
  session,      \* "offline", "connecting", "online" or "stranded"
  request,      \* the request the broker has not answered yet, or "none"
  answered      \* how many subscriptions the broker has answered

sessionVars == <<session, request, answered>>

Init ==
  /\ session = "offline"
  /\ request = "none"
  /\ answered = 0

Open ==
  /\ session = "offline"
  /\ session' = "connecting"
  /\ UNCHANGED <<request, answered>>

Accept ==
  /\ session = "connecting"
  /\ session' = "online"
  /\ UNCHANGED <<request, answered>>

Subscribe ==
  /\ session = "online"
  /\ request = "none" /\ answered < Len(TopicOrder)
  /\ request' = TopicOrder[answered + 1]
  /\ UNCHANGED <<session, answered>>

Publish ==
  /\ session = "online"
  /\ request = "none" /\ answered = Len(TopicOrder)
  /\ request' = "publish"
  /\ UNCHANGED <<session, answered>>

Answer ==
  /\ request # "none"
  /\ request' = "none"
  /\ answered' = IF request = "publish" THEN answered ELSE answered + 1
  /\ UNCHANGED session

Ends(as) ==
  /\ session' = as
  /\ request' = "none"
  /\ answered' = 0

Lose == session \in {"connecting", "online"} /\ Ends("offline")

Strand ==
  \/ session = "offline"    /\ "swallowed" \in Losses /\ Ends("stranded")
  \/ session = "connecting" /\ "refused" \in Losses   /\ Ends("stranded")
  \/ session = "online"     /\ "ping" \in Losses      /\ Ends("stranded")

Next == Open \/ Accept \/ Subscribe \/ Publish \/ Answer \/ Lose \/ Strand

Spec == Init /\ [][Next]_sessionVars
=============================================================================
