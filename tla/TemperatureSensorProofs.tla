----------------------- MODULE TemperatureSensorProofs ----------------------
(***************************************************************************)
(* Safety of the temperature mote for every value of its constants.        *)
(*                                                                         *)
(* RoomConsistent is inductive over well-typed states; NoLostWakeUp needs  *)
(* the process never to exit, which is part of Session: what state, link,  *)
(* output queue and answers can be together, and that the abort event is   *)
(* in the queue exactly while the library aborts.  Session also carries    *)
(* the refinement of MqttSession.                                          *)
(***************************************************************************)
EXTENDS TemperatureSensor, MoteLemmas, FiniteSetTheorems

KernelEvents == Timers \cup {"abort"}

LEMMA TopicFacts ==
  /\ "publish" \notin Topics
  /\ "free" \notin Topics
  /\ "actuator" \in Topics \cup {"publish"}
  /\ "time_synch" \in Topics \cup {"publish"}
  /\ "publish" \in Topics \cup {"publish"}
  BY DEF Topics

(* A pass ends with SampleIfExpired, its own timer set, unless it is the   *)
(* one that ends the process.                                              *)
LEMMA NotifySamples ==
  ASSUME NEW c, Notify(c)
  PROVE  /\ \E n \in {0, samples} : SampleIfExpired(n, EtimerSet(PeriodicInterval))
         /\ conn' = c \/ (WindowFull /\ conn' = MqttRequest(c, "publish"))
  BY DEF Notify, EndPass

LEMMA SubscribeSynchSamples ==
  ASSUME NEW c, SubscribeSynch(c)
  PROVE  /\ \E n \in {0, samples} : SampleIfExpired(n, EtimerSet(PeriodicInterval))
         /\ \/ MqttStatus(c) = "OUT_QUEUE_FULL" /\ state' = "SUBSCRIBED" /\ conn' = c
            \/ /\ MqttStatus(c) # "OUT_QUEUE_FULL" /\ state' = "SUBSCRIBED_SYNCH"
               /\ Notify(MqttRequest(c, "time_synch"))
<1>1. CASE MqttStatus(c) = "OUT_QUEUE_FULL"
  BY <1>1 DEF SubscribeSynch, EndPass
<1>2. CASE MqttStatus(c) # "OUT_QUEUE_FULL"
  BY <1>2, NotifySamples DEF SubscribeSynch
<1>3. QED
  BY <1>1, <1>2

LEMMA PassSamples ==
  ASSUME Pass
  PROVE  \/ \E n \in {0, samples} : SampleIfExpired(n, EtimerSet(PeriodicInterval))
         \/ ~running' /\ UNCHANGED roomVars
<1>1. CASE WaitForNetwork \/ Connect \/ AwaitConnection \/ Recover
  BY <1>1 DEF WaitForNetwork, Connect, AwaitConnection, Recover, EndPass
<1>2. CASE SubscribeActuator
  BY <1>2, SubscribeSynchSamples DEF SubscribeActuator
<1>3. CASE RetrySubscribeSynch
  BY <1>3, SubscribeSynchSamples DEF RetrySubscribeSynch
<1>4. CASE Work
  BY <1>4, NotifySamples DEF Work
<1>5. QED
  BY <1>1, <1>2, <1>3, <1>4 DEF Pass

(* Everything SampleIfExpired can do to the types. *)
LEMMA SampleTypes ==
  ASSUME TypeOK, NEW n \in Nat, NEW p \in AnyEtimer, SampleIfExpired(n, p)
  PROVE  /\ samples' \in Nat
         /\ temperature' \in Int
         /\ led' \in {"OFF", "GREEN", "RED"}
         /\ timer' \in [Timers -> AnyEtimer]
         /\ timer'["periodic"] = p
         /\ timer'["sampling"].armed
<1> USE TemperatureAssumption
<1>0. /\ timer \in [Timers -> AnyEtimer] /\ temperature \in Int
      /\ led \in {"OFF", "GREEN", "RED"}
      /\ "periodic" \in Timers /\ "sampling" \in Timers
  BY DEF TypeOK, Timers
<1>1. CASE EtimerExpired(timer["sampling"])
  <2>1. PICK last \in Sampled(temperature) : temperature' \in Means(temperature, last)
    BY <1>1 DEF SampleIfExpired
  <2>2. temperature' \in Int
    BY <2>1 DEF Means
  <2>3. samples' \in Nat /\ led' \in {"OFF", "GREEN", "RED"}
    BY <1>1 DEF SampleIfExpired, Collected, Band
  <2>4. EtimerSet(SamplingInterval) \in AnyEtimer /\ EtimerSet(SamplingInterval).armed
    BY DEF EtimerSet, AnyEtimer
  <2>5. timer' = [timer EXCEPT !["periodic"] = p, !["sampling"] = EtimerSet(SamplingInterval)]
    BY <1>1 DEF SampleIfExpired
  <2>6. QED
    BY <1>0, <2>2, <2>3, <2>4, <2>5 DEF Timers
<1>2. CASE ~EtimerExpired(timer["sampling"])
  <2>1. timer' = [timer EXCEPT !["periodic"] = p]
    BY <1>2 DEF SampleIfExpired
  <2>2. QED
    BY <1>0, <1>2, <2>1 DEF SampleIfExpired, EtimerExpired, Timers
<1>3. QED
  BY <1>1, <1>2

(* What a wake-up does to the queue. *)
LEMMA WakeUpQueue ==
  ASSUME TypeOK, WakeUp
  PROVE  /\ queue' \in Seq(KernelEvents) /\ polled' \in BOOLEAN
         /\ queue' = queue \/ (queue # <<>> /\ Head(queue) = "periodic" /\ queue' = Tail(queue))
         /\ running
<1>1. queue \in Seq(KernelEvents) /\ polled \in BOOLEAN
  BY DEF TypeOK, KernelEvents
<1>2. CASE Poll
  BY <1>1, <1>2 DEF Poll, WakeUp
<1>3. CASE Receive("periodic")
  BY <1>1, <1>3, QueuedTail DEF Receive, WakeUp
<1>4. QED
  BY <1>2, <1>3 DEF WakeUp

(* What a pass of the state machine does to the other variables. *)
LEMMA PassTypes ==
  ASSUME TypeOK, Pass
  PROVE  /\ state' \in States /\ running' \in BOOLEAN
         /\ conn' \in MqttConnection(Topics)
         /\ UNCHANGED <<synched, stable>>
<1>0. /\ conn \in MqttConnection(Topics) /\ state \in States /\ running \in BOOLEAN
      /\ UNCHANGED <<synched, stable>>
  BY DEF TypeOK, Pass
<1>1. ASSUME NEW c \in MqttConnection(Topics), SubscribeSynch(c)
      PROVE  state' \in States /\ conn' \in MqttConnection(Topics)
  <2>1. MqttRequest(c, "time_synch") \in MqttConnection(Topics)
    BY MqttTypes, TopicFacts
  <2>2. MqttRequest(MqttRequest(c, "time_synch"), "publish") \in MqttConnection(Topics)
    BY <2>1, MqttTypes, TopicFacts
  <2>3. QED
    BY <1>1, <2>1, <2>2, SubscribeSynchSamples, NotifySamples DEF States
<1>2. CASE WaitForNetwork \/ AwaitConnection \/ Recover
  BY <1>0, <1>2 DEF WaitForNetwork, AwaitConnection, Recover, States
<1>3. CASE Connect
  <2>1. conn' \in MqttConnection(Topics)
    BY <1>0, <1>3, MqttTypes, TopicFacts DEF Connect
  <2>2. QED
    BY <1>0, <1>3, <2>1 DEF Connect, States
<1>4. CASE SubscribeActuator
  <2>1. MqttRequest(conn, "actuator") \in MqttConnection(Topics)
    BY <1>0, MqttTypes, TopicFacts
  <2>2. QED
    BY <1>0, <1>1, <1>4, <2>1 DEF SubscribeActuator
<1>5. CASE RetrySubscribeSynch
  BY <1>0, <1>1, <1>5 DEF RetrySubscribeSynch
<1>6. CASE Work
  <2>1. MqttRequest(conn, "publish") \in MqttConnection(Topics)
    BY <1>0, MqttTypes, TopicFacts
  <2>2. QED
    BY <1>0, <1>6, <2>1, NotifySamples DEF Work
<1>7. QED
  BY <1>2, <1>3, <1>4, <1>5, <1>6 DEF Pass

(* The types, by case on the step. *)
THEOREM TemperatureTypes == Spec => []TypeOK
<1> USE TemperatureAssumption
<1>1. Init => TypeOK
  <2> SUFFICES ASSUME Init
               PROVE  TypeOK
    OBVIOUS
  <2>1. timer \in [Timers -> AnyEtimer]
    BY DEF Init, Timers, EtimerSet, AnyEtimer
  <2>2. queue \in Seq(Timers \cup {"abort"})
    BY DEF Init
  <2>3. conn \in MqttConnection(Topics)
    BY DEF Init, MqttRegistered, MqttConnection, Links
  <2>4. temperature \in Int
    BY DEF Init
  <2>5. QED
    BY <2>1, <2>2, <2>3, <2>4 DEF Init, TypeOK, States
<1>2. TypeOK /\ [Next]_temperatureVars => TypeOK'
  <2> SUFFICES ASSUME TypeOK, [Next]_temperatureVars
               PROVE  TypeOK'
    OBVIOUS
  <2>0. /\ timer \in [Timers -> AnyEtimer]
        /\ queue \in Seq(Timers \cup {"abort"})
        /\ conn \in MqttConnection(Topics)
        /\ samples \in Nat
    BY DEF TypeOK
  <2>1. CASE Tick
    <3>1. \A t \in Timers : EtimerAdvance(timer[t]) \in AnyEtimer
      BY <2>0, EtimerType
    <3>2. timer' \in [Timers -> AnyEtimer]
      BY <2>1, <3>1 DEF Tick
    <3>3. QED
      BY <2>1, <3>2 DEF Tick, TypeOK
  <2>2. ASSUME NEW t \in Timers, Post(t)
        PROVE  TypeOK'
    <3>1. EtimerPosted(timer[t]) \in AnyEtimer
      BY <2>0, EtimerType
    <3>2. timer' \in [Timers -> AnyEtimer] /\ queue' \in Seq(Timers \cup {"abort"})
      BY <2>0, <2>2, <3>1 DEF Post
    <3>3. QED
      BY <2>2, <3>2 DEF Post, TypeOK
  <2>3. CASE AbortEvent
    <3>1. queue' \in Seq(Timers \cup {"abort"})
      BY <2>0, <2>3 DEF AbortEvent, Receive
    <3>2. conn' \in MqttConnection(Topics)
      BY <2>0, <2>3, MqttTypes, TopicFacts DEF AbortEvent
    <3>3. QED
      BY <2>3, <3>1, <3>2 DEF AbortEvent, Receive, roomVars, TypeOK
  <2>4. CASE Pass
    <3>1. queue' \in Seq(Timers \cup {"abort"}) /\ polled' \in BOOLEAN
      BY <2>4, WakeUpQueue DEF Pass, KernelEvents
    <3>2. EtimerSet(PeriodicInterval) \in AnyEtimer
      BY DEF EtimerSet, AnyEtimer
    <3>3. /\ samples' \in Nat /\ temperature' \in Int
          /\ led' \in {"OFF", "GREEN", "RED"} /\ timer' \in [Timers -> AnyEtimer]
      <4>1. CASE UNCHANGED roomVars
        BY <4>1 DEF TypeOK, roomVars
      <4>2. CASE \E n \in {0, samples} : SampleIfExpired(n, EtimerSet(PeriodicInterval))
        BY <2>0, <3>2, <4>2, SampleTypes
      <4>3. QED
        BY <2>4, <4>1, <4>2, PassSamples
    <3>4. QED
      BY <2>4, <3>1, <3>3, PassTypes DEF TypeOK
  <2>5. CASE SamplingEvent \/ LibraryEvent
    <3>1. /\ queue' \in Seq(Timers \cup {"abort"}) /\ OnlySample
          /\ UNCHANGED <<state, synched, running, conn, polled, stable>>
      <4>1. CASE SamplingEvent
        <5>1. queue # <<>> /\ queue' = Tail(queue)
          BY <4>1 DEF SamplingEvent, Receive
        <5>2. queue' \in Seq(Timers \cup {"abort"})
          BY <2>0, <5>1, QueuedTail
        <5>3. QED
          BY <4>1, <5>2, Zenon DEF SamplingEvent, Receive
      <4>2. CASE LibraryEvent
        BY <2>0, <4>2, Zenon DEF LibraryEvent
      <4>3. QED
        BY <2>5, <4>1, <4>2
    <3>2. timer["periodic"] \in AnyEtimer
      BY <2>0 DEF Timers
    <3>3. /\ samples' \in Nat /\ temperature' \in Int
          /\ led' \in {"OFF", "GREEN", "RED"} /\ timer' \in [Timers -> AnyEtimer]
      BY <2>0, <3>1, <3>2, SampleTypes DEF OnlySample
    <3>4. QED
      BY <3>1, <3>3 DEF TypeOK
  <2>6. CASE ConnectionAccepted
    <3>1. conn' \in MqttConnection(Topics)
      BY <2>0, <2>6, MqttTypes, TopicFacts DEF ConnectionAccepted
    <3>2. QED
      BY <2>6, <3>1 DEF ConnectionAccepted, roomVars, TypeOK, States
  <2>7. CASE ConnectionRefused
    <3>1. conn' \in MqttConnection(Topics)
      BY <2>0, <2>7, MqttTypes, TopicFacts DEF ConnectionRefused
    <3>2. QED
      BY <2>7, <3>1 DEF ConnectionRefused, roomVars, TypeOK
  <2>8. CASE ConnectionLost
    <3>1. conn' \in MqttConnection(Topics)
      BY <2>0, <2>8, MqttTypes, TopicFacts DEF ConnectionLost
    <3>2. queue' \in Seq(Timers \cup {"abort"})
      BY <2>0, <2>8 DEF ConnectionLost
    <3>3. QED
      BY <2>8, <3>1, <3>2 DEF ConnectionLost, roomVars, TypeOK, States
  <2>9. CASE PingLost
    <3>1. conn' \in MqttConnection(Topics)
      BY <2>0, <2>9, MqttTypes, TopicFacts DEF PingLost
    <3>2. QED
      BY <2>9, <3>1 DEF PingLost, roomVars, TypeOK
  <2>10. CASE RequestDone
    <3>1. conn' \in MqttConnection(Topics)
      BY <2>0, <2>10, MqttDoneFrees, TopicFacts DEF RequestDone
    <3>2. QED
      BY <2>10, <3>1 DEF RequestDone, roomVars, TypeOK
  <2>11. CASE TimeSynch
    BY <2>11 DEF TimeSynch, roomVars, TypeOK
  <2>12. CASE Actuate
    BY <2>12 DEF Actuate, Band, TypeOK
  <2>13. CASE Stabilize
    BY <2>13 DEF Stabilize, roomVars, TypeOK
  <2>14. CASE UNCHANGED temperatureVars
    BY <2>14 DEF temperatureVars, roomVars, TypeOK
  <2>15. QED
    BY <2>1, <2>2, <2>3, <2>4, <2>5, <2>6, <2>7, <2>8, <2>9, <2>10, <2>11, <2>12,
       <2>13, <2>14 DEF Next, Callback
<1>3. QED
  BY <1>1, <1>2, PTL DEF Spec

-----------------------------------------------------------------------------
(* The room is decided by two writers, the sampling and the client's       *)
(* commands; both cut off at the range, and both light the LED.            *)
LEMMA SampleConsistent ==
  ASSUME TypeOK, RoomConsistent, NEW n, NEW p, SampleIfExpired(n, p)
  PROVE  RoomConsistent'
<1> USE TemperatureAssumption DEF RoomConsistent, TemperatureInRange, LedTracksTemperature
<1>1. CASE EtimerExpired(timer["sampling"])
  <2>1. PICK last \in Sampled(temperature) : temperature' \in Means(temperature, last)
    BY <1>1 DEF SampleIfExpired
  <2>2. last \in MinTemperature..MaxTemperature
    <3>1. PICK v \in -MaxVariation..MaxVariation : last = Clamp(temperature + v)
      BY <2>1 DEF Sampled
    <3>2. MinTemperature <= MaxTemperature
      OBVIOUS
    <3>3. QED
      BY <3>1, <3>2 DEF Clamp
  <2>3. temperature' \in MinTemperature..MaxTemperature
    BY <2>1, <2>2 DEF Means
  <2>4. led' = Band(temperature')
    BY <1>1 DEF SampleIfExpired
  <2>5. QED
    BY <2>3, <2>4
<1>2. CASE ~EtimerExpired(timer["sampling"])
  BY <1>2 DEF SampleIfExpired
<1>3. QED
  BY <1>1, <1>2

(* The room never leaves the allowed range and the LED never shows the     *)
(* other side of the threshold, whatever the range, the threshold and the  *)
(* order of samples and commands (MQTT_server_temperature.c:110-123, 219,  *)
(* 257).                                                                   *)
THEOREM TemperatureRoomConsistent == Spec => []RoomConsistent
<1> USE TemperatureAssumption
<1>1. Init => RoomConsistent
  BY DEF Init, RoomConsistent, TemperatureInRange, LedTracksTemperature
<1>2. TypeOK /\ RoomConsistent /\ [Next]_temperatureVars => RoomConsistent'
  <2> SUFFICES ASSUME TypeOK, RoomConsistent, [Next]_temperatureVars
               PROVE  RoomConsistent'
    OBVIOUS
  <2>1. CASE Pass
    <3>1. CASE UNCHANGED roomVars
      BY <3>1 DEF roomVars, RoomConsistent, TemperatureInRange, LedTracksTemperature
    <3>2. QED
      BY <2>1, <3>1, PassSamples, SampleConsistent
  <2>2. CASE SamplingEvent \/ LibraryEvent
    BY <2>2, SampleConsistent DEF SamplingEvent, LibraryEvent, OnlySample
  <2>3. CASE Actuate
    BY <2>3 DEF Actuate, RoomConsistent, TemperatureInRange, LedTracksTemperature
  <2>4. CASE UNCHANGED <<temperature, led>>
    BY <2>4 DEF RoomConsistent, TemperatureInRange, LedTracksTemperature
  <2>5. QED
    BY <2>1, <2>2, <2>3, <2>4
       DEF Next, Tick, Post, AbortEvent, Callback, ConnectionAccepted, ConnectionRefused,
           ConnectionLost, PingLost, RequestDone, TimeSynch, Stabilize, temperatureVars,
           roomVars
<1>3. QED
  BY <1>1, <1>2, TemperatureTypes, PTL DEF Spec

-----------------------------------------------------------------------------
(* What the process, the library and the broker's answers can be together. *)
(* Unlike the noise mote, this one may wait in CONNECTING while the        *)
(* library aborts: mqtt_connect was swallowed.                             *)
Answered == conn.granted \cup conn.refused

StateFollowsLink ==
  /\ conn.link \in {"up", "closed"} <=> state \in Subscribing
  /\ conn.link = "connecting" => state = "CONNECTING"
  /\ conn.link \notin {"up", "closed"} => conn.slot = "free" /\ Answered = {}

(* How far the subscriptions of a session are. *)
Conversation ==
  conn.link = "up" =>
    \/ state = "CONNECTED"        /\ conn.slot = "free"                /\ Answered = {}
    \/ state = "SUBSCRIBED"       /\ conn.slot = "actuator"            /\ Answered = {}
    \/ state = "SUBSCRIBED"       /\ conn.slot = "free"                /\ Answered = {"actuator"}
    \/ state = "SUBSCRIBED_SYNCH" /\ conn.slot = "time_synch"          /\ Answered = {"actuator"}
    \/ state = "SUBSCRIBED_SYNCH" /\ conn.slot \in {"free", "publish"} /\ Answered = Topics

AbortIsQueued ==
  /\ AtMostOnce(queue, "abort")
  /\ conn.link = "aborting" <=> Queued(queue, "abort")
  /\ conn.link = "aborting" => "tcp" \in Faults

Session == running /\ StateFollowsLink /\ Conversation /\ AbortIsQueued

LEMMA SessionInit == Init => Session
  BY DEF Init, Session, StateFollowsLink, Conversation, AbortIsQueued, AtMostOnce, Queued,
         MqttRegistered, Answered, Subscribing

(* Only the connection, the state and whether the abort event is queued    *)
(* matter to a session.                                                    *)
LEMMA SessionUnchanged ==
  ASSUME Session, UNCHANGED <<state, running, conn>>, AtMostOnce(queue', "abort"),
         Queued(queue', "abort") <=> Queued(queue, "abort")
  PROVE  Session'
  BY DEF Session, StateFollowsLink, Conversation, AbortIsQueued, Answered

(* A wake-up moves no abort event. *)
LEMMA WakeUpAborts ==
  ASSUME TypeOK, Session, WakeUp
  PROVE  /\ AtMostOnce(queue', "abort")
         /\ Queued(queue', "abort") <=> Queued(queue, "abort")
<1>1. queue \in Seq(KernelEvents)
  BY DEF TypeOK, KernelEvents
<1>2. QED
  BY <1>1, WakeUpQueue, OnceTail DEF Session, AbortIsQueued

(* All a pass can mean to the broker: nothing, a connection, one that the  *)
(* library swallows, a request, or requests the library refuses because    *)
(* the connection is gone without a callback.                              *)
Asks(from, to, request) ==
  /\ conn.link = "up" /\ conn.slot = "free"
  /\ state = from /\ state' = to
  /\ conn' = [conn EXCEPT !.slot = request]

Connects ==
  /\ state = "INIT" /\ state' = "CONNECTING"
  /\ \/ conn.link = "down" /\ conn' = [conn EXCEPT !.link = "connecting"]
     \/ conn.link = "aborting" /\ UNCHANGED conn

Nothing ==
  \/ UNCHANGED <<state, conn>>
  \/ /\ conn.link = "closed" /\ UNCHANGED conn
     /\ state \in Subscribing /\ state' \in Subscribing
  \/ /\ conn.link \in {"down", "aborting"} /\ UNCHANGED conn
     /\ state = "DISCONNECTED" /\ state' = "INIT"

PassOutcome ==
  \/ Nothing
  \/ Connects
  \/ Asks("CONNECTED", "SUBSCRIBED", "actuator")
  \/ Asks("SUBSCRIBED", "SUBSCRIBED_SYNCH", "time_synch")
  \/ Asks("SUBSCRIBED_SYNCH", "SUBSCRIBED_SYNCH", "publish")

LEMMA SubscribeSynchOutcome ==
  ASSUME TypeOK, Session, NEW c \in MqttConnection(Topics), SubscribeSynch(c)
  PROVE  /\ c.link # "up" => state' = "SUBSCRIBED_SYNCH" /\ conn' = c
         /\ c.link = "up" /\ c.slot # "free" => state' = "SUBSCRIBED" /\ conn' = c
         /\ c.link = "up" /\ c.slot = "free" =>
              state' = "SUBSCRIBED_SYNCH" /\ conn' = [c EXCEPT !.slot = "time_synch"]
<1>1. CASE c.link # "up"
  BY <1>1, SubscribeSynchSamples, NotifySamples DEF MqttRequest, MqttStatus
<1>2. CASE c.link = "up" /\ c.slot # "free"
  BY <1>2, SubscribeSynchSamples DEF MqttStatus
<1>3. CASE c.link = "up" /\ c.slot = "free"
  <2>1. MqttRequest(c, "time_synch") = [c EXCEPT !.slot = "time_synch"]
    BY <1>3 DEF MqttRequest, MqttStatus
  <2> DEFINE d == [c EXCEPT !.slot = "time_synch"]
  <2>2. d.link = "up" /\ d.slot = "time_synch"
    BY <1>3 DEF MqttConnection
  <2>3. MqttRequest(d, "publish") = d
    BY <2>2 DEF MqttRequest, MqttStatus
  <2>4. state' = "SUBSCRIBED_SYNCH" /\ Notify(d)
    BY <1>3, <2>1, SubscribeSynchSamples DEF MqttStatus
  <2>5. conn' = d
    BY <2>3, <2>4, NotifySamples
  <2>6. QED
    BY <1>3, <2>4, <2>5
<1>4. QED
  BY <1>1, <1>2, <1>3

LEMMA PassHasOutcome ==
  ASSUME TypeOK, Session, Pass
  PROVE  running' /\ PassOutcome
<1>0. /\ conn \in MqttConnection(Topics) /\ conn.link \in Links /\ state \in States
      /\ running
      /\ conn.link \in {"up", "closed"} <=> state \in Subscribing
      /\ conn.link = "connecting" => state = "CONNECTING"
  BY DEF TypeOK, Session, StateFollowsLink, MqttConnection
<1>1. CASE WaitForNetwork \/ AwaitConnection
  BY <1>0, <1>1 DEF WaitForNetwork, AwaitConnection, PassOutcome, Nothing
<1>2. CASE Connect
  <2>1. state = "INIT" /\ state' = "CONNECTING" /\ conn.link \in {"down", "aborting"}
    BY <1>0, <1>2 DEF Connect, Subscribing, Links
  <2>2. QED
    BY <1>0, <1>2, <2>1 DEF Connect, MqttConnect, PassOutcome, Connects
<1>3. CASE Recover
  <2>1. state = "DISCONNECTED" /\ conn.link \in {"down", "aborting"}
    BY <1>0, <1>3 DEF Recover, Subscribing, Links
  <2>2. QED
    BY <1>0, <1>3, <2>1 DEF Recover, PassOutcome, Nothing
<1>4. CASE SubscribeActuator
  <2>1. state = "CONNECTED" /\ conn.link \in {"up", "closed"}
    BY <1>0, <1>4 DEF SubscribeActuator, Subscribing
  <2>2. conn.link = "up" => conn.slot = "free"
    BY <2>1 DEF Session, Conversation
  <2>3. running' /\ SubscribeSynch(MqttRequest(conn, "actuator"))
    BY <1>0, <1>4, <2>1, <2>2 DEF SubscribeActuator, MqttStatus
  <2>4. MqttRequest(conn, "actuator") \in MqttConnection(Topics)
    BY <1>0, MqttTypes, TopicFacts
  <2>5. CASE conn.link = "closed"
    <3>1. MqttRequest(conn, "actuator") = conn
      BY <2>5 DEF MqttRequest, MqttStatus
    <3>2. state' = "SUBSCRIBED_SYNCH" /\ conn' = conn
      BY <1>0, <2>3, <2>5, <3>1, SubscribeSynchOutcome
    <3>3. QED
      BY <2>1, <2>3, <2>5, <3>2 DEF PassOutcome, Nothing, Subscribing
  <2>6. CASE conn.link = "up"
    <3>1. MqttRequest(conn, "actuator") = [conn EXCEPT !.slot = "actuator"]
      BY <2>2, <2>6 DEF MqttRequest, MqttStatus
    <3>2. /\ MqttRequest(conn, "actuator").link = "up"
          /\ MqttRequest(conn, "actuator").slot = "actuator"
      BY <1>0, <2>6, <3>1 DEF MqttConnection
    <3>3. state' = "SUBSCRIBED" /\ conn' = [conn EXCEPT !.slot = "actuator"]
      BY <2>3, <2>4, <3>1, <3>2, SubscribeSynchOutcome
    <3>4. QED
      BY <2>1, <2>2, <2>3, <2>6, <3>3 DEF PassOutcome, Asks
  <2>7. QED
    BY <2>1, <2>5, <2>6
<1>5. CASE RetrySubscribeSynch
  <2>1. /\ state = "SUBSCRIBED" /\ conn.link \in {"up", "closed"} /\ running'
        /\ SubscribeSynch(conn)
    BY <1>0, <1>5 DEF RetrySubscribeSynch, Subscribing
  <2>2. QED
    BY <1>0, <2>1, SubscribeSynchOutcome DEF PassOutcome, Nothing, Asks, Subscribing
<1>6. CASE Work
  <2>1. state = "SUBSCRIBED_SYNCH" /\ state' = state /\ running' /\ Notify(conn)
    BY <1>0, <1>6 DEF Work
  <2>2. conn' = conn \/ conn' = MqttRequest(conn, "publish")
    BY <2>1, NotifySamples
  <2>3. QED
    BY <2>1, <2>2 DEF MqttRequest, MqttStatus, PassOutcome, Nothing, Asks
<1>7. QED
  BY <1>1, <1>2, <1>3, <1>4, <1>5, <1>6 DEF Pass

LEMMA SessionPass ==
  ASSUME TypeOK, Session, Pass
  PROVE  Session'
<1>0. /\ conn \in MqttConnection(Topics) /\ conn.link \in Links
      /\ running' /\ PassOutcome
      /\ AtMostOnce(queue', "abort")
      /\ Queued(queue', "abort") <=> Queued(queue, "abort")
  BY PassHasOutcome, WakeUpAborts DEF TypeOK, MqttConnection, Pass
<1> USE DEF Session, StateFollowsLink, Conversation, AbortIsQueued, Answered, Subscribing
<1>1. CASE Nothing
  BY <1>0, <1>1 DEF Nothing
<1>2. CASE Connects
  <2>1. CASE conn.link = "down" /\ conn' = [conn EXCEPT !.link = "connecting"]
    <3>1. /\ conn'.link = "connecting" /\ conn'.slot = conn.slot
          /\ conn'.granted = conn.granted /\ conn'.refused = conn.refused
      BY <1>0, <2>1 DEF MqttConnection
    <3>2. QED
      BY <1>0, <1>2, <2>1, <3>1 DEF Connects
  <2>2. CASE conn.link = "aborting" /\ UNCHANGED conn
    BY <1>0, <1>2, <2>2 DEF Connects
  <2>3. QED
    BY <1>2, <2>1, <2>2 DEF Connects
<1>3. ASSUME NEW from, NEW to, NEW request,
             Asks(from, to, request)
      PROVE  /\ conn'.link = "up" /\ conn'.slot = request
             /\ conn'.granted = conn.granted /\ conn'.refused = conn.refused
  BY <1>0, <1>3 DEF Asks, MqttConnection
<1>4. CASE Asks("CONNECTED", "SUBSCRIBED", "actuator")
  BY <1>0, <1>3, <1>4 DEF Asks
<1>5. CASE Asks("SUBSCRIBED", "SUBSCRIBED_SYNCH", "time_synch")
  BY <1>0, <1>3, <1>5 DEF Asks
<1>6. CASE Asks("SUBSCRIBED_SYNCH", "SUBSCRIBED_SYNCH", "publish")
  BY <1>0, <1>3, <1>6 DEF Asks
<1>7. QED
  BY <1>0, <1>1, <1>2, <1>4, <1>5, <1>6 DEF PassOutcome

(* Kernel steps, and the events the state machine does not react to. *)
LEMMA SessionKernel ==
  ASSUME TypeOK, Session,
         \/ Tick \/ (\E t \in Timers : Post(t)) \/ AbortEvent \/ SamplingEvent
         \/ LibraryEvent \/ Stabilize
  PROVE  Session'
<1>0. queue \in Seq(KernelEvents) /\ conn \in MqttConnection(Topics)
  BY DEF TypeOK, KernelEvents
<1>1. CASE Tick \/ LibraryEvent \/ Stabilize
  <2>1. UNCHANGED <<state, running, conn, queue>>
    BY <1>1 DEF Tick, LibraryEvent, Stabilize
  <2>2. QED
    BY <2>1, SessionUnchanged DEF Session, AbortIsQueued
<1>2. ASSUME NEW t \in Timers, Post(t)
      PROVE  Session'
  <2>1. t # "abort" /\ t \in KernelEvents
    BY DEF Timers, KernelEvents
  <2>2. /\ AtMostOnce(queue', "abort")
        /\ Queued(queue', "abort") <=> Queued(queue, "abort")
    BY <1>0, <1>2, <2>1, OnceAppend DEF Post, Session, AbortIsQueued
  <2>3. QED
    BY <1>2, <2>2, SessionUnchanged DEF Post
<1>3. CASE SamplingEvent
  <2>1. queue # <<>> /\ Head(queue) = "sampling" /\ queue' = Tail(queue)
    BY <1>3 DEF SamplingEvent, Receive
  <2>2. /\ AtMostOnce(queue', "abort")
        /\ Queued(queue', "abort") <=> Queued(queue, "abort")
    BY <1>0, <2>1, OnceTail DEF Session, AbortIsQueued
  <2>3. QED
    BY <1>3, <2>2, SessionUnchanged DEF SamplingEvent
<1>4. CASE AbortEvent
  <2>1. queue # <<>> /\ Head(queue) = "abort" /\ queue' = Tail(queue)
    BY <1>4 DEF AbortEvent, Receive
  <2>2. ~Queued(queue', "abort") /\ AtMostOnce(queue', "abort")
    BY <1>0, <2>1, OnceTail DEF Session, AbortIsQueued
  <2>3. Queued(queue, "abort")
    BY <1>0, <2>1 DEF Queued
  <2>4. conn.link = "aborting"
    BY <2>3 DEF Session, AbortIsQueued
  <2>5. conn' = MqttRegistered /\ UNCHANGED <<state, running>>
    BY <1>4 DEF AbortEvent, MqttAborted
  <2>6. QED
    BY <2>2, <2>4, <2>5 DEF Session, StateFollowsLink, Conversation, AbortIsQueued, Answered,
                            MqttRegistered
<1>5. QED
  BY <1>1, <1>2, <1>3, <1>4

(* The record fields after an answer of the broker. *)
LEMMA DoneAnswers ==
  ASSUME TypeOK, Session, RequestDone
  PROVE  /\ UNCHANGED <<state, running, queue>>
         /\ conn.link = "up" /\ conn.slot \in Topics \cup {"publish"}
         /\ conn'.link = "up" /\ conn'.slot = "free"
         /\ Answered' = IF conn.slot = "publish" THEN Answered ELSE Answered \cup {conn.slot}
<1>0. /\ conn \in MqttConnection(Topics) /\ conn.link = "up" /\ conn.slot # "free"
      /\ UNCHANGED <<state, running, queue>>
  BY DEF TypeOK, RequestDone
<1>1. PICK grant \in BOOLEAN : conn' = MqttDone(conn, grant)
  BY DEF RequestDone
<1>2. conn.slot \in Topics \cup {"publish"}
  BY <1>0 DEF MqttConnection
<1>3. conn'.link = "up" /\ conn'.slot = "free"
  BY <1>0, <1>1, MqttDoneFrees, TopicFacts
<1>4. CASE conn.slot = "publish"
  <2>1. conn' = [conn EXCEPT !.slot = "free"]
    BY <1>1, <1>4 DEF MqttDone
  <2>2. conn'.granted = conn.granted /\ conn'.refused = conn.refused
    BY <1>0, <2>1 DEF MqttConnection
  <2>3. QED
    BY <1>0, <1>2, <1>3, <1>4, <2>2 DEF Answered
<1>5. CASE conn.slot # "publish" /\ grant
  <2>1. conn' = [conn EXCEPT !.slot = "free", !.granted = @ \cup {conn.slot}]
    BY <1>1, <1>5 DEF MqttDone
  <2>2. conn'.granted = conn.granted \cup {conn.slot} /\ conn'.refused = conn.refused
    BY <1>0, <2>1 DEF MqttConnection
  <2>3. QED
    BY <1>0, <1>2, <1>3, <1>5, <2>2 DEF Answered
<1>6. CASE conn.slot # "publish" /\ ~grant
  <2>1. conn' = [conn EXCEPT !.slot = "free", !.refused = @ \cup {conn.slot}]
    BY <1>1, <1>6 DEF MqttDone
  <2>2. conn'.refused = conn.refused \cup {conn.slot} /\ conn'.granted = conn.granted
    BY <1>0, <2>1 DEF MqttConnection
  <2>3. QED
    BY <1>0, <1>2, <1>3, <1>6, <2>2 DEF Answered
<1>7. QED
  BY <1>4, <1>5, <1>6

LEMMA SessionCallback ==
  ASSUME TypeOK, Session, Callback
  PROVE  Session'
<1>0. queue \in Seq(KernelEvents) /\ conn \in MqttConnection(Topics)
  BY DEF TypeOK, KernelEvents
<1> USE DEF Session, StateFollowsLink, Conversation, AbortIsQueued
<1>1. CASE ConnectionAccepted
  <2>1. /\ conn' = [conn EXCEPT !.link = "up"] /\ conn.link = "connecting"
        /\ state' = "CONNECTED" /\ UNCHANGED <<running, queue>>
    BY <1>1 DEF ConnectionAccepted, MqttAccepted
  <2>2. /\ conn'.link = "up" /\ conn'.slot = conn.slot
        /\ conn'.granted = conn.granted /\ conn'.refused = conn.refused
    BY <1>0, <2>1 DEF MqttConnection
  <2>3. QED
    BY <2>1, <2>2 DEF Answered, Subscribing
<1>2. CASE ConnectionRefused
  <2>1. conn' = MqttRegistered /\ conn.link = "connecting" /\ UNCHANGED <<state, running, queue>>
    BY <1>2 DEF ConnectionRefused, MqttRefused
  <2>2. QED
    BY <2>1 DEF MqttRegistered, Answered, Subscribing
<1>3. CASE ConnectionLost
  <2>1. /\ conn' = [MqttRegistered EXCEPT !.link = "aborting"] /\ "tcp" \in Faults
        /\ conn.link # "aborting" /\ state' = "DISCONNECTED"
        /\ queue' = Append(queue, "abort") /\ UNCHANGED running
    BY <1>3 DEF ConnectionLost, MqttTcpLost
  <2>2. AtMostOnce(queue', "abort") /\ Queued(queue', "abort")
    BY <1>0, <2>1, OnceAppend, QueuedAppend DEF KernelEvents
  <2>3. QED
    BY <2>1, <2>2 DEF MqttRegistered, Answered, Subscribing
<1>4. CASE PingLost
  <2>1. /\ conn' = [conn EXCEPT !.link = "closed"] /\ conn.link = "up"
        /\ UNCHANGED <<state, running, queue>>
    BY <1>4 DEF PingLost, MqttPingLost
  <2>2. conn'.link = "closed"
    BY <1>0, <2>1 DEF MqttConnection
  <2>3. QED
    BY <2>1, <2>2
<1>5. CASE RequestDone
  BY <1>5, DoneAnswers DEF Topics
<1>6. CASE TimeSynch \/ Actuate
  BY <1>6 DEF TimeSynch, Actuate, Answered
<1>7. QED
  BY <1>1, <1>2, <1>3, <1>4, <1>5, <1>6 DEF Callback

LEMMA SessionInvariant == Spec => [](TypeOK /\ Session)
<1>1. TypeOK /\ Session /\ [Next]_temperatureVars => Session'
  <2>1. ASSUME Session, UNCHANGED temperatureVars
        PROVE  Session'
    BY <2>1, SessionUnchanged DEF temperatureVars, Session, AbortIsQueued
  <2>2. QED
    BY <2>1, SessionKernel, SessionPass, SessionCallback DEF Next
<1>2. QED
  BY <1>1, SessionInit, TemperatureTypes, PTL DEF Spec

-----------------------------------------------------------------------------
(* Neither timer is ever lost: each pass sets the periodic one, each event *)
(* that leaves the queue while its timer has expired ends with the timer   *)
(* set, and the process never exits before it has done so                  *)
(* (MQTT_server_temperature.c:457, 472, 507-514).                          *)
THEOREM TemperatureWakesUp == Spec => []NoLostWakeUp
<1> USE TemperatureAssumption
<1>1. Init => NoLostWakeUp
  BY DEF Init, NoLostWakeUp, EtimerSet
<1>2. TypeOK /\ Session /\ NoLostWakeUp /\ [Next]_temperatureVars => NoLostWakeUp'
  <2> SUFFICES ASSUME TypeOK, Session, NoLostWakeUp, [Next]_temperatureVars,
                      NEW t \in Timers
               PROVE  timer'[t].armed \/ Queued(queue', t)
    BY DEF NoLostWakeUp
  <2>0. /\ timer \in [Timers -> AnyEtimer]
        /\ queue \in Seq(KernelEvents)
        /\ t \in KernelEvents /\ t # "abort" /\ t \in {"periodic", "sampling"}
        /\ timer[t].armed \/ Queued(queue, t)
    BY DEF TypeOK, KernelEvents, Timers, NoLostWakeUp
  <2>1. CASE Tick
    <3>1. timer'[t].armed = timer[t].armed /\ queue' = queue
      BY <2>0, <2>1, EtimerType DEF Tick
    <3>2. QED
      BY <2>0, <3>1
  <2>2. ASSUME NEW s \in Timers, Post(s)
        PROVE  timer'[t].armed \/ Queued(queue', t)
    <3>1. s \in KernelEvents /\ queue' = Append(queue, s)
      BY <2>2 DEF Post, KernelEvents
    <3>2. Queued(queue', s) /\ (Queued(queue, t) => Queued(queue', t))
      BY <2>0, <3>1, QueuedAppend
    <3>3. t # s => timer'[t] = timer[t]
      BY <2>0, <2>2 DEF Post
    <3>4. QED
      BY <2>0, <3>2, <3>3
  <2>3. CASE AbortEvent
    <3>1. queue # <<>> /\ Head(queue) = "abort" /\ queue' = Tail(queue) /\ timer' = timer
      BY <2>3 DEF AbortEvent, Receive, roomVars
    <3>2. QED
      BY <2>0, <3>1, QueuedTail
  <2>4. CASE Pass
    <3>1. EtimerSet(PeriodicInterval) \in AnyEtimer /\ EtimerSet(PeriodicInterval).armed
      BY DEF EtimerSet, AnyEtimer
    <3>2. running'
      BY <2>4, PassHasOutcome
    <3>3. \E n \in {0, samples} : SampleIfExpired(n, EtimerSet(PeriodicInterval))
      BY <2>4, <3>2, PassSamples
    <3>4. samples \in Nat
      BY DEF TypeOK
    <3>5. timer'["periodic"].armed /\ timer'["sampling"].armed
      BY <3>1, <3>3, <3>4, SampleTypes
    <3>6. QED
      BY <2>0, <3>5
  <2>5. CASE SamplingEvent \/ LibraryEvent
    <3>1. OnlySample /\ samples \in Nat /\ timer["periodic"] \in AnyEtimer
      BY <2>0, <2>5 DEF SamplingEvent, LibraryEvent, TypeOK, Timers
    <3>2. timer'["periodic"] = timer["periodic"] /\ timer'["sampling"].armed
      BY <3>1, SampleTypes DEF OnlySample
    <3>3. Queued(queue, "periodic") => Queued(queue', "periodic")
      <4>1. CASE LibraryEvent
        BY <4>1 DEF LibraryEvent
      <4>2. CASE SamplingEvent
        BY <2>0, <4>2, QueuedTail DEF SamplingEvent, Receive
      <4>3. QED
        BY <2>5, <4>1, <4>2
    <3>4. QED
      BY <2>0, <3>2, <3>3
  <2>6. CASE ConnectionLost
    <3>1. queue' = Append(queue, "abort") /\ timer' = timer
      BY <2>6 DEF ConnectionLost, roomVars
    <3>2. QED
      BY <2>0, <3>1, QueuedAppend DEF KernelEvents
  <2>7. CASE UNCHANGED <<timer, queue>>
    BY <2>0, <2>7
  <2>8. QED
    BY <2>1, <2>2, <2>3, <2>4, <2>5, <2>6, <2>7
       DEF Next, Callback, ConnectionAccepted, ConnectionRefused, PingLost, RequestDone,
           TimeSynch, Actuate, Stabilize, temperatureVars, roomVars
<1>3. QED
  BY <1>1, <1>2, SessionInvariant, PTL DEF Spec

-----------------------------------------------------------------------------
(* The mote keeps to the session of MqttSession: two subscriptions, then   *)
(* publications.  No state is astray, and the session is what the link     *)
(* says it is.                                                             *)
Mapped ==
  /\ SessionState =
       CASE conn.link = "up" -> "online"
         [] conn.link = "connecting" -> "connecting"
         [] conn.link = "closed" -> "stranded"
         [] conn.link \in {"down", "aborting"} ->
              IF state = "CONNECTING" THEN "stranded" ELSE "offline"
  /\ Outstanding = IF conn.link = "up" /\ conn.slot # "free" THEN conn.slot ELSE "none"
  /\ Answers = IF conn.link # "up" \/ Answered = {} THEN 0
               ELSE IF Answered = {"actuator"} THEN 1 ELSE 2

LEMMA SessionMapped ==
  ASSUME TypeOK, Session
  PROVE  Mapped
<1>1. conn.link \in Links /\ state \in States /\ running
  BY DEF TypeOK, MqttConnection, Session
<1>2. /\ conn.link = "up" => state \in Subscribing
      /\ conn.link = "connecting" => state = "CONNECTING"
      /\ conn.link = "closed" => state \in Subscribing
      /\ conn.link \in {"down", "aborting"} => state \in {"INIT", "DISCONNECTED", "CONNECTING"}
  BY <1>1 DEF Session, StateFollowsLink, States, Subscribing
<1>3. SessionState =
       CASE conn.link = "up" -> "online"
         [] conn.link = "connecting" -> "connecting"
         [] conn.link = "closed" -> "stranded"
         [] conn.link \in {"down", "aborting"} ->
              IF state = "CONNECTING" THEN "stranded" ELSE "offline"
  BY <1>1, <1>2 DEF SessionState, Links, Subscribing
<1>4. Cardinality({}) = 0 /\ Cardinality({"actuator"}) = 1 /\ Cardinality(Topics) = 2
  <2>1. Cardinality({}) = 0
    BY FS_EmptySet
  <2>2. IsFiniteSet({"actuator"}) /\ Cardinality({"actuator"}) = 1
    BY FS_Singleton
  <2>3. Topics = {"actuator"} \cup {"time_synch"} /\ "time_synch" \notin {"actuator"}
    BY DEF Topics
  <2>4. Cardinality({"actuator"} \cup {"time_synch"}) = 1 + 1
    BY <2>2, <2>3, FS_AddElement
  <2>5. QED
    BY <2>1, <2>2, <2>3, <2>4
<1>5. conn.link = "up" => Answered \in {{}, {"actuator"}, Topics}
  BY DEF Session, Conversation
<1>6. Topics # {} /\ Topics # {"actuator"}
  BY DEF Topics
<1>7. Answers = IF conn.link # "up" \/ Answered = {} THEN 0
                ELSE IF Answered = {"actuator"} THEN 1 ELSE 2
  BY <1>4, <1>5, <1>6 DEF Answers, Answered
<1>8. QED
  BY <1>3, <1>7 DEF Mapped, Outstanding

(* What a pass is to MqttSession. *)
LEMMA PassSeen ==
  ASSUME TypeOK, Session, Session', Mapped, Mapped', Pass
  PROVE  [Broker!Next]_Broker!sessionVars
<1>0. conn \in MqttConnection(Topics) /\ PassOutcome
  BY PassHasOutcome DEF TypeOK
<1>1. CASE Nothing
  BY <1>1 DEF Nothing, Mapped, Answered, Broker!sessionVars
<1>2. CASE Connects
  <2>1. CASE conn.link = "down" /\ conn' = [conn EXCEPT !.link = "connecting"]
    <3>1. conn'.link = "connecting"
      BY <1>0, <2>1 DEF MqttConnection
    <3>2. Broker!Open
      BY <1>2, <2>1, <3>1 DEF Connects, Mapped, Broker!Open
    <3>3. QED
      BY <3>2 DEF Broker!Next
  <2>2. CASE conn.link = "aborting" /\ UNCHANGED conn
    <3>1. "tcp" \in Faults
      BY <2>2 DEF Session, AbortIsQueued
    <3>2. Broker!Strand
      BY <1>2, <2>2, <3>1 DEF Connects, Mapped, Broker!Strand, Broker!Ends
    <3>3. QED
      BY <3>2 DEF Broker!Next
  <2>3. QED
    BY <1>2, <2>1, <2>2 DEF Connects
<1>3. ASSUME NEW from, NEW to, NEW request, Asks(from, to, request), request # "free"
      PROVE  /\ SessionState = "online" /\ SessionState' = "online"
             /\ Outstanding = "none" /\ Outstanding' = request
             /\ Answered' = Answered /\ Answers' = Answers
  <2>1. /\ conn.link = "up" /\ conn.slot = "free"
        /\ conn'.link = "up" /\ conn'.slot = request
        /\ conn'.granted = conn.granted /\ conn'.refused = conn.refused
    BY <1>0, <1>3 DEF Asks, MqttConnection
  <2>2. QED
    BY <1>3, <2>1 DEF Mapped, Answered
<1>4. CASE Asks("CONNECTED", "SUBSCRIBED", "actuator")
  <2>1. Answers = 0
    BY <1>4 DEF Asks, Session, Conversation, Mapped
  <2>2. Broker!Subscribe
    BY <1>3, <1>4, <2>1 DEF Broker!Subscribe
  <2>3. QED
    BY <2>2 DEF Broker!Next
<1>5. CASE Asks("SUBSCRIBED", "SUBSCRIBED_SYNCH", "time_synch")
  <2>1. Answers = 1
    BY <1>5 DEF Asks, Session, Conversation, Mapped
  <2>2. Broker!Subscribe
    BY <1>3, <1>5, <2>1 DEF Broker!Subscribe
  <2>3. QED
    BY <2>2 DEF Broker!Next
<1>6. CASE Asks("SUBSCRIBED_SYNCH", "SUBSCRIBED_SYNCH", "publish")
  <2>1. Answers = 2
    BY <1>6 DEF Asks, Session, Conversation, Mapped, Topics
  <2>2. Broker!Publish
    BY <1>3, <1>6, <2>1 DEF Broker!Publish
  <2>3. QED
    BY <2>2 DEF Broker!Next
<1>7. QED
  BY <1>0, <1>1, <1>2, <1>4, <1>5, <1>6 DEF PassOutcome

(* What the callbacks are. *)
LEMMA CallbackSeen ==
  ASSUME TypeOK, Session, Session', Mapped, Mapped', Callback
  PROVE  [Broker!Next]_Broker!sessionVars
<1>0. conn \in MqttConnection(Topics)
  BY DEF TypeOK
<1>1. CASE ConnectionAccepted
  <2>1. /\ conn' = [conn EXCEPT !.link = "up"] /\ conn.link = "connecting"
        /\ conn.slot = "free" /\ Answered = {}
    BY <1>1 DEF ConnectionAccepted, MqttAccepted, Session, StateFollowsLink
  <2>2. conn'.link = "up" /\ conn'.slot = "free" /\ Answered' = {}
    BY <1>0, <2>1 DEF MqttConnection, Answered
  <2>3. Broker!Accept
    BY <2>1, <2>2 DEF Mapped, Broker!Accept
  <2>4. QED
    BY <2>3 DEF Broker!Next
<1>2. CASE ConnectionRefused
  <2>1. /\ "refused" \in Faults /\ conn.link = "connecting" /\ state' = state
        /\ conn' = MqttRegistered /\ state = "CONNECTING"
    BY <1>2 DEF ConnectionRefused, MqttRefused, Session, StateFollowsLink
  <2>2. Broker!Strand
    BY <2>1 DEF MqttRegistered, Mapped, Broker!Strand, Broker!Ends
  <2>3. QED
    BY <2>2 DEF Broker!Next
<1>3. CASE ConnectionLost
  <2>1. /\ conn.link \in {"connecting", "up"} /\ state' = "DISCONNECTED"
        /\ conn' = [MqttRegistered EXCEPT !.link = "aborting"]
    BY <1>3 DEF ConnectionLost, MqttTcpLost
  <2>2. Broker!Lose
    BY <2>1 DEF MqttRegistered, Mapped, Broker!Lose, Broker!Ends
  <2>3. QED
    BY <2>2 DEF Broker!Next
<1>4. CASE PingLost
  <2>1. "ping" \in Faults /\ conn.link = "up" /\ conn' = [conn EXCEPT !.link = "closed"]
    BY <1>4 DEF PingLost, MqttPingLost
  <2>2. conn'.link = "closed"
    BY <1>0, <2>1 DEF MqttConnection
  <2>3. Broker!Strand
    BY <2>1, <2>2 DEF Mapped, Broker!Strand, Broker!Ends
  <2>4. QED
    BY <2>3 DEF Broker!Next
<1>5. CASE RequestDone
  <2>1. /\ SessionState = "online" /\ SessionState' = "online"
        /\ Outstanding = conn.slot /\ Outstanding' = "none" /\ conn.slot # "free"
    BY <1>5, DoneAnswers, TopicFacts DEF Mapped
  <2>2. Answers' = IF conn.slot = "publish" THEN Answers ELSE Answers + 1
    BY <1>5, DoneAnswers DEF Mapped, Session, Conversation, Topics
  <2>3. conn.slot # "none"
    BY <1>5, DoneAnswers DEF Topics
  <2>4. Broker!Answer
    BY <2>1, <2>2, <2>3 DEF Broker!Answer
  <2>5. QED
    BY <2>4 DEF Broker!Next
<1>6. CASE TimeSynch \/ Actuate
  BY <1>6 DEF TimeSynch, Actuate, Mapped, Answered, Broker!sessionVars
<1>7. QED
  BY <1>1, <1>2, <1>3, <1>4, <1>5, <1>6 DEF Callback

LEMMA NextSeen ==
  TypeOK /\ Session /\ Session' /\ Mapped /\ Mapped' /\ [Next]_temperatureVars
    => [Broker!Next]_Broker!sessionVars
<1> SUFFICES ASSUME TypeOK, Session, Session', Mapped, Mapped', [Next]_temperatureVars
             PROVE  [Broker!Next]_Broker!sessionVars
  OBVIOUS
<1>1. CASE UNCHANGED <<state, conn>>
  BY <1>1 DEF Mapped, Answered, Broker!sessionVars
<1>2. CASE AbortEvent
  <2>1. Queued(queue, "abort")
    BY <1>2 DEF AbortEvent, Receive, Queued, TypeOK
  <2>2. conn.link = "aborting" /\ conn' = MqttRegistered /\ state' = state
    BY <1>2, <2>1 DEF AbortEvent, MqttAborted, Session, AbortIsQueued
  <2>3. QED
    BY <2>2 DEF MqttRegistered, Mapped, Broker!sessionVars
<1>3. QED
  BY <1>1, <1>2, PassSeen, CallbackSeen
     DEF Next, Tick, Post, SamplingEvent, LibraryEvent, Stabilize, temperatureVars

(* The mote implements MqttSession: the actuator first and, once that is   *)
(* answered, time_synch, each once per session; publications only when     *)
(* both are answered and one at a time; an unnoticed loss, or a connect    *)
(* the aborting library swallows, the only things that end the attempts    *)
(* (MQTT_server_temperature.c:281-351, 410-504).                           *)
THEOREM TemperatureFollowsSession == Spec => FollowsSession
<1>1. Init => Broker!Init
  <2> SUFFICES ASSUME Init
               PROVE  Broker!Init
    OBVIOUS
  <2>1. /\ conn.link = "down" /\ state = "INIT" /\ running
    BY DEF Init, MqttRegistered
  <2>2. QED
    BY <2>1 DEF Broker!Init, SessionState, Outstanding, Answers
<1>2. TypeOK /\ Session => Mapped
  BY SessionMapped
<1>3. Spec => [](TypeOK /\ Session /\ Mapped)
  BY <1>2, SessionInvariant, PTL
<1>4. QED
  BY <1>1, <1>3, NextSeen, PTL DEF Spec, FollowsSession, Broker!Spec
=============================================================================
