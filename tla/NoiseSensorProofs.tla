-------------------------- MODULE NoiseSensorProofs -------------------------
(***************************************************************************)
(* Safety of the noise mote for every value of its constants.              *)
(*                                                                         *)
(* Four inductive invariants over well-typed states: Session for the       *)
(* connection (which state of the process goes with which state of the     *)
(* library, and where the abort event is), Answering for what the broker   *)
(* has answered, Window for the two timers and the counter, and            *)
(* NoLostWakeUp, which is inductive as it stands.  Session and Answering   *)
(* carry the refinement of MqttSession.                                    *)
(***************************************************************************)
EXTENDS NoiseSensor, MoteLemmas

LEMMA TopicFacts ==
  /\ "publish" \notin Topics
  /\ "free" \notin Topics
  /\ "time_synch" \in Topics \cup {"publish"}
  /\ "publish" \in Topics \cup {"publish"}
  BY DEF Topics

(* What a pass of the state machine may do to the timers. *)
LEMMA MeasureType ==
  ASSUME TypeOK, NEW ev, NEW c \in MqttConnection(Topics), Measure(ev, c)
  PROVE  /\ samples' \in Nat
         /\ conn' \in MqttConnection(Topics)
         /\ timer' \in [Timers -> AnyEtimer]
         /\ UNCHANGED <<synched, running, stable>>
<1> USE NoiseAssumption
<1>1. /\ EtimerSet(PeriodicInterval) \in AnyEtimer
      /\ EtimerSet(SamplingInterval) \in AnyEtimer
      /\ EtimerSet(SendInterval) \in AnyEtimer
  BY DEF EtimerSet, AnyEtimer
<1>2. timer \in [Timers -> AnyEtimer] /\ samples \in Nat
  BY DEF TypeOK
<1>3. timer' \in [Timers -> AnyEtimer]
  BY <1>1, <1>2 DEF Measure, Remaining, PublishTimer, Timers
<1>4. CounterSize \in Nat \ {0}
  OBVIOUS
<1>5. Divisor(ev) \in Nat
  BY <1>2, <1>4 DEF Divisor
<1>6. conn' \in MqttConnection(Topics)
  BY MqttTypes, TopicFacts DEF Measure
<1>7. QED
  BY <1>3, <1>5, <1>6 DEF Measure, Remaining, PublishTimer

(* The types, by case on the step. *)
THEOREM NoiseTypes == Spec => []TypeOK
<1> USE NoiseAssumption
<1>1. Init => TypeOK
  <2> SUFFICES ASSUME Init
               PROVE  TypeOK
    OBVIOUS
  <2>1. timer \in [Timers -> AnyEtimer]
    BY DEF Init, Timers, EtimerSet, AnyEtimer
  <2>2. queue \in Seq({"timer", "abort"})
    BY DEF Init
  <2>3. conn \in MqttConnection(Topics)
    BY DEF Init, MqttRegistered, MqttConnection, Links
  <2>4. QED
    BY <2>1, <2>2, <2>3 DEF Init, TypeOK, States
<1>2. TypeOK /\ [Next]_noiseVars => TypeOK'
  <2> SUFFICES ASSUME TypeOK, [Next]_noiseVars
               PROVE  TypeOK'
    OBVIOUS
  <2>0. /\ timer \in [Timers -> AnyEtimer]
        /\ queue \in Seq({"timer", "abort"})
        /\ conn \in MqttConnection(Topics)
        /\ samples \in Nat
    BY DEF TypeOK
  <2>1. CASE Tick
    <3>1. \A t \in Timers : EtimerAdvance(timer[t]) \in AnyEtimer
      BY <2>0, EtimerType
    <3>2. timer' \in [Timers -> AnyEtimer]
      BY <2>1, <3>1 DEF Tick
    <3>3. QED
      BY <2>1, <3>2 DEF Tick, TypeOK
  <2>2. ASSUME NEW t \in Timers, Post(t)
        PROVE  TypeOK'
    <3>1. EtimerPosted(timer[t]) \in AnyEtimer
      BY <2>0, EtimerType
    <3>2. timer' \in [Timers -> AnyEtimer] /\ queue' \in Seq({"timer", "abort"})
      BY <2>0, <2>2, <3>1 DEF Post
    <3>3. QED
      BY <2>2, <3>2 DEF Post, TypeOK
  <2>3. CASE AbortEvent
    <3>1. queue' \in Seq({"timer", "abort"})
      BY <2>0, <2>3 DEF AbortEvent
    <3>2. conn' \in MqttConnection(Topics)
      BY <2>0, <2>3, MqttTypes, TopicFacts DEF AbortEvent
    <3>3. QED
      BY <2>3, <3>1, <3>2 DEF AbortEvent, TypeOK
  <2>4. CASE IgnoreTimer
    <3>1. queue' \in Seq({"timer", "abort"})
      BY <2>0, <2>4 DEF IgnoreTimer, TimerEvent
    <3>2. QED
      BY <2>4, <3>1 DEF IgnoreTimer, TimerEvent, TypeOK
  <2>5. ASSUME NEW ev \in {"timer", "poll"}, Pass(ev)
        PROVE  TypeOK'
    <3>1. queue' \in Seq({"timer", "abort"}) /\ polled' \in BOOLEAN
      <4>1. CASE Poll
        BY <2>0, <4>1 DEF Poll
      <4>2. CASE TimerEvent
        <5>1. queue' \in Seq({"timer", "abort"})
          BY <2>0, <4>2, QueuedTail DEF TimerEvent
        <5>2. polled' \in BOOLEAN
          BY <4>2 DEF TimerEvent, TypeOK
        <5>3. QED
          BY <5>1, <5>2
      <4>3. QED
        BY <2>5, <4>1, <4>2 DEF Pass, WakeUp
    <3>2. EtimerSet(PeriodicInterval) \in AnyEtimer
      BY DEF EtimerSet, AnyEtimer
    <3>3. Rearm => timer' \in [Timers -> AnyEtimer]
      BY <2>0, <3>2 DEF Rearm
    <3>4. CASE WaitForNetwork
      BY <3>1, <3>3, <3>4 DEF WaitForNetwork, TypeOK
    <3>5. CASE Connect
      <4>1. conn' \in MqttConnection(Topics)
        BY <2>0, <3>5, MqttTypes, TopicFacts DEF Connect
      <4>2. QED
        BY <3>1, <3>3, <3>5, <4>1 DEF Connect, TypeOK, States
    <3>6. CASE AwaitConnection
      BY <3>1, <3>3, <3>6 DEF AwaitConnection, TypeOK
    <3>7. CASE Subscribe(ev)
      <4>1. CASE MqttStatus(conn) = "OUT_QUEUE_FULL"
        BY <3>1, <3>7, <4>1 DEF Subscribe, TypeOK
      <4>2. CASE MqttStatus(conn) # "OUT_QUEUE_FULL"
        <5>1. MqttRequest(conn, "time_synch") \in MqttConnection(Topics)
          BY <2>0, MqttTypes, TopicFacts
        <5>2. state' = "SUBSCRIBED" /\ Measure(ev, MqttRequest(conn, "time_synch"))
          BY <3>7, <4>2 DEF Subscribe
        <5>3. QED
          BY <3>1, <5>1, <5>2, MeasureType DEF TypeOK, States
      <4>3. QED
        BY <4>1, <4>2
    <3>8. CASE Work(ev)
      BY <2>0, <3>1, <3>8, MeasureType DEF Work, TypeOK
    <3>9. CASE Recover
      BY <3>1, <3>3, <3>9 DEF Recover, TypeOK, States
    <3>10. QED
      BY <2>5, <3>4, <3>5, <3>6, <3>7, <3>8, <3>9 DEF Pass
  <2>6. CASE ConnectionAccepted
    <3>1. conn' \in MqttConnection(Topics)
      BY <2>0, <2>6, MqttTypes, TopicFacts DEF ConnectionAccepted
    <3>2. QED
      BY <2>6, <3>1 DEF ConnectionAccepted, TypeOK, States
  <2>7. CASE ConnectionRefused
    <3>1. conn' \in MqttConnection(Topics)
      BY <2>0, <2>7, MqttTypes, TopicFacts DEF ConnectionRefused
    <3>2. QED
      BY <2>7, <3>1 DEF ConnectionRefused, TypeOK
  <2>8. CASE ConnectionLost
    <3>1. conn' \in MqttConnection(Topics)
      BY <2>0, <2>8, MqttTypes, TopicFacts DEF ConnectionLost
    <3>2. queue' \in Seq({"timer", "abort"})
      BY <2>0, <2>8 DEF ConnectionLost
    <3>3. QED
      BY <2>8, <3>1, <3>2 DEF ConnectionLost, TypeOK, States
  <2>9. CASE PingLost
    <3>1. conn' \in MqttConnection(Topics)
      BY <2>0, <2>9, MqttTypes, TopicFacts DEF PingLost
    <3>2. QED
      BY <2>9, <3>1 DEF PingLost, TypeOK
  <2>10. CASE RequestDone
    <3>1. conn' \in MqttConnection(Topics)
      BY <2>0, <2>10, MqttDoneFrees, TopicFacts DEF RequestDone
    <3>2. QED
      BY <2>10, <3>1 DEF RequestDone, TypeOK
  <2>11. CASE TimeSynch
    BY <2>11 DEF TimeSynch, TypeOK
  <2>12. CASE Stabilize
    BY <2>12 DEF Stabilize, TypeOK
  <2>13. CASE UNCHANGED noiseVars
    BY <2>13 DEF noiseVars, TypeOK
  <2>14. QED
    BY <2>1, <2>2, <2>3, <2>4, <2>5, <2>6, <2>7, <2>8, <2>9, <2>10, <2>11, <2>12,
       <2>13 DEF Next, Callback
<1>3. QED
  BY <1>1, <1>2, PTL DEF Spec
-----------------------------------------------------------------------------
(* Where the process, the library and the abort event stand to each other. *)
(* The two abort conjuncts are what ConnectNotSwallowed needs: the event   *)
(* that ends an abort is in the queue, and until it is delivered the       *)
(* process either still has the poll of the disconnection before it or has *)
(* set its periodic timer, which no event now in the queue stands for.     *)
AbortIsCleared ==
  /\ AtMostOnce(queue, "abort")
  /\ conn.link = "aborting" <=> Queued(queue, "abort")
  /\ conn.link = "aborting" =>
       \/ polled /\ state = "DISCONNECTED"
       \/ /\ ~polled /\ state = "INIT"
          /\ timer["periodic"].armed /\ timer["periodic"].left # 0

Session ==
  /\ StateFollowsLink
  /\ NeverExits
  /\ conn.link = "connecting" => state = "CONNECTING"
  /\ conn.link = "closed" => state \in {"CONNECTED", "SUBSCRIBED"}
  /\ conn.slot # "free" => state = "SUBSCRIBED"
  /\ AbortIsCleared
LEMMA SessionInit == Init => Session
  BY DEF Init, Session, StateFollowsLink, NeverExits, AbortIsCleared, AtMostOnce,
         Queued, MqttRegistered

(* Kernel steps leave the process alone. *)
LEMMA SessionKernel ==
  ASSUME TypeOK, Session, Tick \/ (\E t \in Timers : Post(t)) \/ AbortEvent \/ IgnoreTimer
  PROVE  Session'
<1>0. /\ queue \in Seq({"timer", "abort"})
      /\ conn \in MqttConnection(Topics)
      /\ timer \in [Timers -> AnyEtimer]
      /\ "periodic" \in Timers
  BY DEF TypeOK, Timers
<1>1. CASE Tick
  <2>1. conn.link # "aborting"
    BY <1>1 DEF Tick, Session, AbortIsCleared, Queued
  <2>2. QED
    BY <1>1, <2>1 DEF Tick, Session, StateFollowsLink, NeverExits, AbortIsCleared
<1>2. ASSUME NEW t \in Timers, Post(t)
      PROVE  Session'
  <2>1. /\ AtMostOnce(queue', "abort")
        /\ Queued(queue', "abort") <=> Queued(queue, "abort")
    BY <1>0, <1>2, OnceAppend DEF Post, Session, AbortIsCleared
  <2>2. timer["periodic"].left # 0 => timer'["periodic"] = timer["periodic"]
    BY <1>0, <1>2 DEF Post, EtimerDue
  <2>3. QED
    BY <1>2, <2>1, <2>2 DEF Post, Session, StateFollowsLink, NeverExits, AbortIsCleared
<1>3. CASE AbortEvent
  <2>1. ~Queued(queue', "abort") /\ AtMostOnce(queue', "abort")
    BY <1>0, <1>3, OnceTail DEF AbortEvent, Session, AbortIsCleared
  <2>2. conn.link = "aborting"
    <3>1. Queued(queue, "abort")
      BY <1>0, <1>3 DEF AbortEvent, Queued
    <3>2. QED
      BY <3>1 DEF Session, AbortIsCleared
  <2>3. state = "INIT"
    BY <1>3, <2>2 DEF AbortEvent, Session, AbortIsCleared
  <2>4. conn'.link = "down" /\ conn'.slot = "free"
    BY <1>3 DEF AbortEvent, MqttAborted, MqttRegistered
  <2>5. QED
    BY <1>3, <2>1, <2>3, <2>4 DEF AbortEvent, Session, StateFollowsLink, NeverExits,
                                  AbortIsCleared
<1>4. CASE IgnoreTimer
  <2>1. /\ AtMostOnce(queue', "abort")
        /\ Queued(queue', "abort") <=> Queued(queue, "abort")
    BY <1>0, <1>4, OnceTail DEF IgnoreTimer, TimerEvent, Session, AbortIsCleared
  <2>2. QED
    BY <1>4, <2>1 DEF IgnoreTimer, TimerEvent, Session, StateFollowsLink, NeverExits,
                      AbortIsCleared
<1>5. QED
  BY <1>1, <1>2, <1>3, <1>4

(* While an abort is under way a pass can only be the one that leaves      *)
(* DISCONNECTED, and a pass moves no abort event.                          *)
LEMMA PassWhileAborting ==
  ASSUME TypeOK, Session, NEW ev \in {"timer", "poll"}, Pass(ev)
  PROVE  /\ conn.link = "aborting" => Recover /\ Poll
         /\ AtMostOnce(queue', "abort")
         /\ Queued(queue', "abort") <=> Queued(queue, "abort")
         /\ state = "DISCONNECTED" => Recover
<1>0. queue \in Seq({"timer", "abort"})
  BY DEF TypeOK
<1>1. state = "DISCONNECTED" => Recover
  BY DEF Pass, WaitForNetwork, Connect, AwaitConnection, Subscribe, Work
<1>2. Poll \/ (TimerEvent /\ ~timer["periodic"].armed)
  BY DEF Pass, WakeUp, EtimerExpired
<1>3. conn.link = "aborting" => Recover /\ Poll
  <2> SUFFICES ASSUME conn.link = "aborting"
               PROVE  Recover /\ Poll
    OBVIOUS
  <2>1. polled /\ state = "DISCONNECTED"
    BY <1>2 DEF Session, AbortIsCleared, Poll, TimerEvent
  <2>2. Poll
    BY <1>2, <2>1 DEF TimerEvent
  <2>3. QED
    BY <1>1, <2>1, <2>2
<1>4. /\ AtMostOnce(queue', "abort")
      /\ Queued(queue', "abort") <=> Queued(queue, "abort")
  <2>1. CASE Poll
    BY <2>1 DEF Poll, Session, AbortIsCleared
  <2>2. CASE TimerEvent
    BY <1>0, <2>2, OnceTail DEF TimerEvent, Session, AbortIsCleared
  <2>3. QED
    BY <1>2, <2>1, <2>2
<1>5. QED
  BY <1>1, <1>3, <1>4

LEMMA SessionPass ==
  ASSUME TypeOK, Session, NEW ev \in {"timer", "poll"}, Pass(ev)
  PROVE  Session'
<1> USE NoiseAssumption
<1>0. /\ queue \in Seq({"timer", "abort"})
      /\ conn \in MqttConnection(Topics)
      /\ timer \in [Timers -> AnyEtimer]
      /\ "periodic" \in Timers
      /\ running
  BY DEF TypeOK, Timers, Session, NeverExits
<1>1. /\ conn.link = "aborting" => Recover /\ Poll
      /\ AtMostOnce(queue', "abort")
      /\ Queued(queue', "abort") <=> Queued(queue, "abort")
  BY PassWhileAborting
<1>2. CASE WaitForNetwork
  <2>1. conn.link # "aborting"
    BY <1>1, <1>2 DEF WaitForNetwork, Recover
  <2>2. QED
    BY <1>1, <1>2, <2>1 DEF WaitForNetwork, Session, StateFollowsLink, NeverExits,
                            AbortIsCleared
<1>3. CASE Connect
  <2>1. conn.link = "down" /\ conn.slot = "free"
    <3>1. conn.link \in Links
      BY <1>0 DEF MqttConnection
    <3>2. state = "INIT"
      BY <1>3 DEF Connect
    <3>3. conn.link # "aborting"
      BY <1>1, <3>2 DEF Recover
    <3>4. QED
      BY <3>1, <3>2, <3>3 DEF Session, StateFollowsLink, Links
  <2>2. conn'.link = "connecting" /\ conn'.slot = "free"
    BY <1>0, <1>3, <2>1, MqttEffects, TopicFacts DEF Connect
  <2>3. QED
    BY <1>1, <1>3, <2>1, <2>2 DEF Connect, Session, StateFollowsLink, NeverExits,
                                  AbortIsCleared
<1>4. CASE AwaitConnection
  <2>1. conn.link # "aborting"
    BY <1>1, <1>4 DEF AwaitConnection, Recover
  <2>2. QED
    BY <1>1, <1>4, <2>1 DEF AwaitConnection, Session, StateFollowsLink, NeverExits,
                            AbortIsCleared
<1>5. CASE Subscribe(ev)
  <2>1. state = "CONNECTED" /\ conn.slot = "free" /\ conn.link \in {"up", "closed"}
    BY <1>5 DEF Subscribe, Session, StateFollowsLink
  <2>2. MqttStatus(conn) # "OUT_QUEUE_FULL"
    BY <2>1 DEF MqttStatus
  <2>3. state' = "SUBSCRIBED" /\ Measure(ev, MqttRequest(conn, "time_synch"))
    BY <1>5, <2>2 DEF Subscribe
  <2>4. conn'.link = conn.link
    <3>1. MqttRequest(conn, "time_synch") \in MqttConnection(Topics)
      BY <1>0, MqttTypes, TopicFacts
    <3>2. QED
      BY <1>0, <2>3, <3>1, MqttEffects, TopicFacts DEF Measure
  <2>5. running'
    BY <1>0, <2>3 DEF Measure
  <2>6. QED
    BY <1>1, <2>1, <2>3, <2>4, <2>5 DEF Session, StateFollowsLink, NeverExits, AbortIsCleared
<1>6. CASE Work(ev)
  <2>1. state' = "SUBSCRIBED" /\ state = "SUBSCRIBED" /\ Measure(ev, conn)
    BY <1>6 DEF Work
  <2>2. conn'.link = conn.link
    BY <1>0, <2>1, MqttEffects, TopicFacts DEF Measure
  <2>3. running'
    BY <1>0, <2>1 DEF Measure
  <2>4. QED
    BY <1>1, <2>1, <2>2, <2>3 DEF Session, StateFollowsLink, NeverExits, AbortIsCleared
<1>7. CASE Recover
  <2>1. timer'["periodic"].armed /\ timer'["periodic"].left # 0
    BY <1>0, <1>7 DEF Recover, Rearm, EtimerSet
  <2>2. conn.link \notin {"up", "closed", "connecting"} /\ conn.slot = "free"
    BY <1>7 DEF Recover, Session, StateFollowsLink
  <2>3. conn.link = "aborting" => ~polled'
    BY <1>1 DEF Poll
  <2>4. QED
    BY <1>1, <1>7, <2>1, <2>2, <2>3 DEF Recover, Session, StateFollowsLink, NeverExits,
                                        AbortIsCleared
<1>8. QED
  BY <1>2, <1>3, <1>4, <1>5, <1>6, <1>7 DEF Pass
LEMMA SessionCallback ==
  ASSUME TypeOK, Session, Callback \/ Stabilize
  PROVE  Session'
<1>0. /\ queue \in Seq({"timer", "abort"})
      /\ conn \in MqttConnection(Topics)
  BY DEF TypeOK
<1> USE DEF Session, StateFollowsLink, NeverExits, AbortIsCleared
<1>1. CASE ConnectionAccepted
  <2>1. conn'.link = "up" /\ conn'.slot = conn.slot /\ conn.slot = "free"
    BY <1>0, <1>1, MqttEffects, TopicFacts DEF ConnectionAccepted
  <2>2. QED
    BY <1>1, <2>1 DEF ConnectionAccepted
<1>2. CASE ConnectionRefused
  <2>1. conn'.link = "down" /\ conn'.slot = "free"
    BY <1>0, <1>2, MqttEffects, TopicFacts DEF ConnectionRefused
  <2>2. QED
    BY <1>2, <2>1 DEF ConnectionRefused
<1>3. CASE ConnectionLost
  <2>1. conn'.link = "aborting" /\ conn'.slot = "free"
    BY <1>0, <1>3, MqttEffects, TopicFacts DEF ConnectionLost
  <2>2. ~Queued(queue, "abort")
    BY <1>3 DEF ConnectionLost
  <2>3. AtMostOnce(queue', "abort") /\ Queued(queue', "abort")
    BY <1>0, <1>3, <2>2, OnceAppend, QueuedAppend DEF ConnectionLost
  <2>4. QED
    BY <1>3, <2>1, <2>3 DEF ConnectionLost
<1>4. CASE PingLost
  <2>1. conn'.link = "closed" /\ conn'.slot = conn.slot
    BY <1>0, <1>4, MqttEffects, TopicFacts DEF PingLost
  <2>2. QED
    BY <1>4, <2>1 DEF PingLost
<1>5. CASE RequestDone
  <2>1. conn'.link = conn.link /\ conn'.slot = "free"
    BY <1>0, <1>5, MqttDoneFrees, TopicFacts DEF RequestDone
  <2>2. QED
    BY <1>5, <2>1 DEF RequestDone
<1>6. CASE TimeSynch
  BY <1>6 DEF TimeSynch
<1>7. CASE Stabilize
  BY <1>7 DEF Stabilize
<1>8. QED
  BY <1>1, <1>2, <1>3, <1>4, <1>5, <1>6, <1>7 DEF Callback

LEMMA SessionInvariant == Spec => [](TypeOK /\ Session)
<1>1. TypeOK /\ Session /\ [Next]_noiseVars => Session'
  <2>1. CASE UNCHANGED noiseVars
    BY <2>1 DEF noiseVars, Session, StateFollowsLink, NeverExits, AbortIsCleared
  <2>2. QED
    BY <2>1, SessionKernel, SessionPass, SessionCallback DEF Next
<1>2. QED
  BY <1>1, SessionInit, NoiseTypes, PTL DEF Spec

(* The process uses the connection only while it believes in it, never     *)
(* exits on a full output queue (noise-sensor.c:226), and never calls      *)
(* mqtt_connect on a library that is still aborting (noise-sensor.c:215).  *)
THEOREM NoiseSession == Spec => [](StateFollowsLink /\ NeverExits /\ ConnectNotSwallowed)
<1>1. Session => StateFollowsLink /\ NeverExits /\ ConnectNotSwallowed
  BY DEF Session, AbortIsCleared, ConnectNotSwallowed
<1>2. QED
  BY <1>1, SessionInvariant, PTL

-----------------------------------------------------------------------------
(* The next wake-up is always on its way: each pass sets the periodic      *)
(* timer, and an event that is ignored leaves it armed.                    *)
THEOREM NoiseWakesUp == Spec => []NoLostWakeUp
<1>1. Init => NoLostWakeUp
  BY DEF Init, NoLostWakeUp, Timers, EtimerSet
<1>2. TypeOK /\ Session /\ NoLostWakeUp /\ [Next]_noiseVars => NoLostWakeUp'
  <2> SUFFICES ASSUME TypeOK, Session, NoLostWakeUp, [Next]_noiseVars
               PROVE  NoLostWakeUp'
    OBVIOUS
  <2>0. /\ queue \in Seq({"timer", "abort"})
        /\ timer \in [Timers -> AnyEtimer]
        /\ "periodic" \in Timers
        /\ running
    BY DEF TypeOK, Timers, Session, NeverExits
  <2>1. CASE Tick
    <3>1. timer'["periodic"].armed = timer["periodic"].armed
      BY <2>0, <2>1, EtimerType DEF Tick
    <3>2. QED
      BY <2>1, <3>1 DEF Tick, NoLostWakeUp
  <2>2. ASSUME NEW t \in Timers, Post(t)
        PROVE  NoLostWakeUp'
    BY <2>0, <2>2, QueuedAppend DEF Post, NoLostWakeUp
  <2>3. CASE AbortEvent
    BY <2>0, <2>3, QueuedTail DEF AbortEvent, NoLostWakeUp
  <2>4. CASE IgnoreTimer
    BY <2>0, <2>4 DEF IgnoreTimer, EtimerExpired, NoLostWakeUp
  <2>5. ASSUME NEW ev \in {"timer", "poll"}, Pass(ev)
        PROVE  NoLostWakeUp'
    <3>1. running'
      BY <2>5, SessionPass DEF Session, NeverExits
    <3>2. timer'["periodic"] = EtimerSet(PeriodicInterval)
      BY <2>0, <2>5, <3>1 DEF Pass, WaitForNetwork, Connect, AwaitConnection, Subscribe,
                              Work, Recover, Rearm, Measure, Timers
    <3>3. QED
      BY <3>2 DEF NoLostWakeUp, EtimerSet
  <2>6. CASE ConnectionLost
    BY <2>0, <2>6, QueuedAppend DEF ConnectionLost, NoLostWakeUp
  <2>7. CASE UNCHANGED <<timer, queue>>
    BY <2>7 DEF NoLostWakeUp
  <2>8. QED
    BY <2>1, <2>2, <2>3, <2>4, <2>5, <2>6, <2>7
       DEF Next, Callback, ConnectionAccepted, ConnectionRefused, PingLost, RequestDone,
           TimeSynch, Stabilize, noiseVars
<1>3. QED
  BY <1>1, <1>2, SessionInvariant, PTL DEF Spec
-----------------------------------------------------------------------------
(* The counter and the two timers it depends on.  A sample is taken at     *)
(* most once per sampling interval, and none after the publish timer has   *)
(* expired without a publication that starts a new window; so while the    *)
(* publish timer runs, the samples fit into the part of its interval that  *)
(* is over.  A window without samples cannot end: the sampling timer       *)
(* expires before the publish timer does.                                  *)
Window ==
  /\ timer["sampling"].left <= SamplingInterval
  /\ timer["publish"].left <= SendInterval
  /\ timer["sampling"].armed \/ timer["sampling"].left = 0
  /\ samples = 0 =>
       \/ timer["sampling"].left = 0
       \/ /\ timer["publish"].armed
          /\ timer["sampling"].left <= timer["publish"].left
  /\ timer["publish"].armed =>
       samples * SamplingInterval + timer["publish"].left
         <= SendInterval + timer["sampling"].left
  /\ WindowBounded

(* Only products with the sampling interval occur. *)
LEMMA Products ==
  ASSUME TypeOK
  PROVE  /\ samples * SamplingInterval \in Nat
         /\ (samples + 1) * SamplingInterval = samples * SamplingInterval + SamplingInterval
         /\ 0 * SamplingInterval = 0
  BY NoiseAssumption DEF TypeOK

(* The 16-bit counter does not wrap around (noise-sensor.c:234). *)
LEMMA NoWrap ==
  ASSUME TypeOK, WindowBounded
  PROVE  (samples + 1) % CounterSize = samples + 1
<1> USE NoiseAssumption
<1>1. samples \in Nat
  BY DEF TypeOK
<1>2. (samples + 1) * SamplingInterval < CounterSize * SamplingInterval
  BY <1>1, Products DEF WindowBounded
<1>3. samples + 1 < CounterSize
  BY <1>1, <1>2, SMT
<1>4. QED
  BY <1>1, <1>3
LEMMA WindowInit == Init => Window
<1> SUFFICES ASSUME Init
             PROVE  Window
  OBVIOUS
<1>1. /\ timer["sampling"] = EtimerSet(SamplingInterval)
      /\ timer["publish"] = EtimerSet(SendInterval)
      /\ samples = 0
  BY DEF Init, Timers
<1>2. QED
  BY <1>1, NoiseAssumption DEF Window, WindowBounded, EtimerSet

(* Time, and the posting of a due timer. *)
LEMMA WindowKernel ==
  ASSUME TypeOK, Window, Tick \/ (\E t \in Timers : Post(t))
  PROVE  Window'
<1> USE NoiseAssumption DEF Window, WindowBounded
<1> DEFINE s == timer["sampling"]
           p == timer["publish"]
<1>0. /\ timer \in [Timers -> AnyEtimer]
      /\ s \in AnyEtimer /\ p \in AnyEtimer
      /\ s.left \in Nat /\ p.left \in Nat
      /\ samples \in Nat /\ samples * SamplingInterval \in Nat
  BY Products DEF TypeOK, Timers, AnyEtimer
<1>1. CASE Tick
  <2>1. samples' = samples /\ s' = EtimerAdvance(s) /\ p' = EtimerAdvance(p)
    BY <1>1 DEF Tick, Timers
  <2>2. (s.armed => s.left # 0) /\ (p.armed => p.left # 0)
    BY <1>1 DEF Tick, NothingDue, EtimerDue, Timers
  <2>3. s'.armed = s.armed /\ s'.left = IF s.armed THEN s.left - 1 ELSE s.left
    BY <1>0, <2>1, <2>2 DEF EtimerAdvance, AnyEtimer
  <2>4. p'.armed = p.armed /\ p'.left = IF p.armed THEN p.left - 1 ELSE p.left
    BY <1>0, <2>1, <2>2 DEF EtimerAdvance, AnyEtimer
  <2> HIDE DEF s, p
  <2>5. QED
    BY <1>0, <2>1, <2>2, <2>3, <2>4 DEF s, p
<1>2. ASSUME NEW t \in Timers, Post(t)
      PROVE  Window'
  <2>1. samples' = samples
    BY <1>2 DEF Post
  <2>2. /\ timer'["sampling"] = IF t = "sampling" THEN EtimerPosted(s) ELSE s
        /\ timer'["publish"] = IF t = "publish" THEN EtimerPosted(p) ELSE p
        /\ t = "sampling" => s.left = 0
        /\ t = "publish" => p.left = 0
    BY <1>0, <1>2 DEF Post, EtimerDue, Timers
  <2>3. /\ s'.left = s.left /\ (s'.armed = s.armed \/ s.left = 0)
        /\ p'.left = p.left /\ (p'.armed = p.armed \/ (~p'.armed /\ p.left = 0))
    BY <1>0, <2>2, EtimerType
  <2>4. QED
    BY <1>0, <2>1, <2>2, <2>3
<1>3. QED
  BY <1>1, <1>2

(* A sample, a publication, both or neither. *)
LEMMA WindowMeasure ==
  ASSUME TypeOK, Window, NEW ev, NEW c, Measure(ev, c)
  PROVE  Window'
<1> USE NoiseAssumption DEF Window, WindowBounded
<1> DEFINE s == timer["sampling"]
           p == timer["publish"]
<1>0. /\ timer \in [Timers -> AnyEtimer]
      /\ s.left \in Nat /\ p.left \in Nat
      /\ samples \in Nat /\ samples * SamplingInterval \in Nat
  BY Products DEF TypeOK, Timers, AnyEtimer
<1>1. /\ s' = IF Samples(ev) THEN EtimerSet(SamplingInterval) ELSE s
      /\ p' = IF Publishes(ev) THEN EtimerSet(SendInterval) ELSE p
      /\ samples' = IF Publishes(ev) THEN 0 ELSE Divisor(ev)
  BY <1>0 DEF Measure, Remaining, PublishTimer, Timers
<1>2. CASE Publishes(ev)
  <2>1. samples' = 0 /\ p'.armed /\ p'.left = SendInterval
    BY <1>1, <1>2 DEF EtimerSet
  <2>2. s'.left \in Nat /\ s'.left <= SamplingInterval /\ (s'.armed \/ s'.left = 0)
    BY <1>0, <1>1 DEF EtimerSet
  <2>3. samples' * SamplingInterval = 0
    BY <2>1, Products
  <2>4. QED
    BY <1>0, <2>1, <2>2, <2>3
<1>3. CASE ~Publishes(ev) /\ Samples(ev)
  <2>1. p' = p /\ s'.armed /\ s'.left = SamplingInterval
    BY <1>1, <1>3 DEF EtimerSet
  <2>2. samples' = samples + 1
    BY <1>1, <1>3, NoWrap DEF Divisor
  <2>3. samples' * SamplingInterval = samples * SamplingInterval + SamplingInterval
    BY <2>2, Products
  <2>4. p.armed
    BY <1>3 DEF Publishes, Samples, EtimerExpired
  <2>5. s.left = 0
    BY <1>3 DEF Samples, EtimerExpired
  <2>6. samples' # 0
    BY <1>0, <2>2
  <2>7. samples' * SamplingInterval + p'.left <= SendInterval + s'.left
    BY <1>0, <2>1, <2>3, <2>4, <2>5
  <2>8. samples' * SamplingInterval <= SendInterval + SamplingInterval
    BY <1>0, <2>1, <2>3, <2>7
  <2>9. QED
    BY <2>1, <2>6, <2>7, <2>8
<1>4. CASE ~Publishes(ev) /\ ~Samples(ev)
  <2>1. samples' = samples /\ s' = s /\ p' = p
    BY <1>1, <1>4 DEF Divisor
  <2>2. QED
    BY <2>1
<1>5. QED
  BY <1>2, <1>3, <1>4
LEMMA WindowInvariant == Spec => [](TypeOK /\ Window)
<1>1. TypeOK /\ Window /\ [Next]_noiseVars => Window'
  <2> SUFFICES ASSUME TypeOK, Window, [Next]_noiseVars
               PROVE  Window'
    OBVIOUS
  <2>0. timer \in [Timers -> AnyEtimer]
    BY DEF TypeOK
  <2>1. CASE Tick \/ (\E t \in Timers : Post(t))
    BY <2>1, WindowKernel
  <2>2. ASSUME NEW ev \in {"timer", "poll"}, Pass(ev)
        PROVE  Window'
    <3>1. CASE \E c : Measure(ev, c)
      BY <3>1, WindowMeasure
    <3>2. CASE UNCHANGED <<samples, timer>>
      BY <3>2 DEF Window, WindowBounded
    <3>3. CASE Rearm /\ UNCHANGED samples
      <4>1. /\ timer'["sampling"] = timer["sampling"]
            /\ timer'["publish"] = timer["publish"]
        BY <2>0, <3>3 DEF Rearm, Timers
      <4>2. QED
        BY <3>3, <4>1 DEF Window, WindowBounded
    <3>4. QED
      BY <2>2, <3>1, <3>2, <3>3 DEF Pass, WaitForNetwork, Connect, AwaitConnection,
                                    Subscribe, Work, Recover
  <2>3. CASE UNCHANGED <<samples, timer>>
    BY <2>3 DEF Window, WindowBounded
  <2>4. QED
    BY <2>1, <2>2, <2>3
       DEF Next, Callback, AbortEvent, IgnoreTimer, ConnectionAccepted, ConnectionRefused,
           ConnectionLost, PingLost, RequestDone, TimeSynch, Stabilize, noiseVars
<1>2. QED
  BY <1>1, WindowInit, NoiseTypes, PTL DEF Spec

(* The mean at noise-sensor.c:242 is never a division by zero, whatever    *)
(* the three intervals, as long as SAMPLING_INTERVAL <= SEND_INTERVAL and  *)
(* the counter is wide enough; and a window never holds more samples than  *)
(* fit into it, however long the mote was offline.                         *)
THEOREM NoiseMean == Spec => [](MeanIsDefined /\ WindowBounded)
<1>1. TypeOK /\ Window => MeanIsDefined
  <2> SUFFICES ASSUME TypeOK, Window, NothingDue, Publishes("timer")
               PROVE  Divisor("timer") # 0
    BY DEF MeanIsDefined
  <2>0. samples \in Nat
    BY DEF TypeOK
  <2>1. CASE Samples("timer")
    <3>1. Divisor("timer") = samples + 1
      BY <2>1, NoWrap DEF Divisor, Window
    <3>2. QED
      BY <2>0, <3>1
  <2>2. CASE ~Samples("timer")
    <3>1. timer["sampling"].left # 0
      BY <2>2 DEF Samples, Publishes, EtimerExpired, NothingDue, EtimerDue, Timers
    <3>2. ~timer["publish"].armed
      BY DEF Publishes, EtimerExpired
    <3>3. samples # 0
      BY <3>1, <3>2 DEF Window
    <3>4. QED
      BY <2>2, <3>3 DEF Divisor
  <2>3. QED
    BY <2>1, <2>2
<1>2. Window => WindowBounded
  BY DEF Window
<1>3. QED
  BY <1>1, <1>2, WindowInvariant, PTL
-----------------------------------------------------------------------------
(* The mote keeps to the session of MqttSession.  What the mapping needs   *)
(* beyond Session: the answers the connection has recorded are those of    *)
(* this session, and they say which requests can still come.               *)
Answered == conn.granted \cup conn.refused

Answering ==
  /\ conn.link \notin {"up", "closed"} => Answered = {}
  /\ conn.link = "up" /\ state = "CONNECTED" => Answered = {}
  /\ conn.link = "up" /\ conn.slot = "time_synch" => Answered = {}
  /\ conn.link = "up" /\ state = "SUBSCRIBED" /\ conn.slot # "time_synch"
       => Answered = {"time_synch"}

(* No state is astray, and the session is what the link says it is. *)
Mapped ==
  /\ conn.slot \in {"free", "publish", "time_synch"}
  /\ SessionState =
       CASE conn.link = "up" -> "online"
         [] conn.link = "connecting" -> "connecting"
         [] conn.link = "closed" -> "stranded"
         [] conn.link \in {"down", "aborting"} ->
              IF state = "CONNECTING" THEN "stranded" ELSE "offline"
  /\ Outstanding = IF conn.link = "up" /\ conn.slot # "free" THEN conn.slot ELSE "none"
  /\ Answers = IF conn.link = "up" /\ Answered # {} THEN 1 ELSE 0

LEMMA SessionMapped ==
  ASSUME TypeOK, Session
  PROVE  Mapped
<1>1. /\ conn.link \in Links /\ conn.slot \in {"free", "publish", "time_synch"}
      /\ conn.granted \subseteq {"time_synch"} /\ conn.refused \subseteq {"time_synch"}
      /\ state \in States
      /\ running
  BY DEF TypeOK, MqttConnection, Topics, Session, NeverExits
<1>2. Answered # {} <=> "time_synch" \in conn.granted \cup conn.refused
  BY <1>1 DEF Answered
<1>3. /\ conn.link = "up" => state \in {"CONNECTED", "SUBSCRIBED"}
      /\ conn.link = "connecting" => state = "CONNECTING"
      /\ conn.link = "closed" => state \in {"CONNECTED", "SUBSCRIBED"}
      /\ conn.link = "aborting" => state \in {"INIT", "DISCONNECTED"}
      /\ conn.link = "down" => state \in {"INIT", "DISCONNECTED", "CONNECTING"}
  BY <1>1 DEF Session, StateFollowsLink, AbortIsCleared, States
<1>4. SessionState =
       CASE conn.link = "up" -> "online"
         [] conn.link = "connecting" -> "connecting"
         [] conn.link = "closed" -> "stranded"
         [] conn.link \in {"down", "aborting"} ->
              IF state = "CONNECTING" THEN "stranded" ELSE "offline"
  BY <1>1, <1>3 DEF SessionState, Links
<1>5. QED
  BY <1>1, <1>2, <1>4 DEF Mapped, Outstanding, Answers

(* What a wake-up that finds the process at work does to the connection. *)
LEMMA MeasureRequests ==
  ASSUME NEW ev, NEW c, Measure(ev, c)
  PROVE  conn' = c \/ conn' = MqttRequest(c, "publish")
  BY DEF Measure

(* The steps that reach the broker, and what they are to MqttSession. *)
LEMMA SubscribeSeen ==
  ASSUME TypeOK, Session, Answering, Mapped, Mapped', Session',
         NEW ev \in {"timer", "poll"}, Subscribe(ev)
  PROVE  /\ Broker!Subscribe \/ UNCHANGED Broker!sessionVars
         /\ Answering'
<1>0. conn \in MqttConnection(Topics)
  BY DEF TypeOK
<1>1. state = "CONNECTED" /\ conn.slot = "free" /\ conn.link \in {"up", "closed"}
  BY DEF Subscribe, Session, StateFollowsLink
<1>2. state' = "SUBSCRIBED" /\ Measure(ev, MqttRequest(conn, "time_synch"))
  BY <1>1 DEF Subscribe, MqttStatus
<1>3. CASE conn.link = "up"
  <2>1. MqttRequest(conn, "time_synch") = [conn EXCEPT !.slot = "time_synch"]
    BY <1>1, <1>3 DEF MqttRequest, MqttStatus
  <2>2. conn' = [conn EXCEPT !.slot = "time_synch"]
    BY <1>0, <1>2, <1>3, <2>1, MeasureRequests DEF MqttRequest, MqttStatus, MqttConnection
  <2>3. /\ conn'.link = "up" /\ conn'.slot = "time_synch"
        /\ conn'.granted = conn.granted /\ conn'.refused = conn.refused
        /\ Answered = {}
    BY <1>0, <1>1, <1>3, <2>2 DEF MqttConnection, Answering
  <2>4. Answered' = {}
    BY <2>3 DEF Answered
  <2>5. /\ SessionState = "online" /\ Outstanding = "none" /\ Answers = 0
        /\ SessionState' = "online" /\ Outstanding' = "time_synch" /\ Answers' = 0
    BY <1>1, <1>3, <2>3, <2>4 DEF Mapped
  <2>6. Broker!Subscribe
    BY <2>5 DEF Broker!Subscribe
  <2>7. QED
    BY <1>2, <2>3, <2>4, <2>6 DEF Answering
<1>4. CASE conn.link = "closed"
  <2>1. conn' = conn
    BY <1>2, <1>4, MeasureRequests DEF MqttRequest, MqttStatus
  <2>2. UNCHANGED Broker!sessionVars
    BY <1>4, <2>1 DEF Mapped, Answered, Broker!sessionVars
  <2>3. QED
    BY <1>4, <2>1, <2>2 DEF Answering
<1>5. QED
  BY <1>1, <1>3, <1>4

LEMMA WorkSeen ==
  ASSUME TypeOK, Session, Answering, Mapped, Mapped', Session',
         NEW ev \in {"timer", "poll"}, Work(ev)
  PROVE  /\ Broker!Publish \/ UNCHANGED Broker!sessionVars
         /\ Answering'
<1>0. conn \in MqttConnection(Topics)
  BY DEF TypeOK
<1>1. state = "SUBSCRIBED" /\ state' = "SUBSCRIBED" /\ Measure(ev, conn)
  BY DEF Work
<1>2. CASE conn' = conn
  <2>1. UNCHANGED Broker!sessionVars
    BY <1>1, <1>2 DEF Mapped, Answered, Broker!sessionVars
  <2>2. QED
    BY <1>1, <1>2, <2>1 DEF Answering, Answered
<1>3. CASE conn' # conn
  <2>1. /\ conn.link = "up" /\ conn.slot = "free"
        /\ conn' = [conn EXCEPT !.slot = "publish"]
    BY <1>1, <1>3, MeasureRequests DEF MqttRequest, MqttStatus
  <2>2. /\ conn'.link = "up" /\ conn'.slot = "publish"
        /\ conn'.granted = conn.granted /\ conn'.refused = conn.refused
        /\ Answered = {"time_synch"}
    BY <1>0, <1>1, <2>1 DEF MqttConnection, Answering
  <2>3. Answered' = {"time_synch"}
    BY <2>2 DEF Answered
  <2>4. /\ SessionState = "online" /\ Outstanding = "none" /\ Answers = 1
        /\ SessionState' = "online" /\ Outstanding' = "publish" /\ Answers' = 1
    BY <2>1, <2>2, <2>3 DEF Mapped
  <2>5. Broker!Publish
    BY <2>4 DEF Broker!Publish
  <2>6. QED
    BY <1>1, <2>2, <2>3, <2>5 DEF Answering
<1>4. QED
  BY <1>2, <1>3


LEMMA PassSeen ==
  ASSUME TypeOK, Session, Answering, Mapped, Mapped', Session',
         NEW ev \in {"timer", "poll"}, Pass(ev)
  PROVE  /\ [Broker!Next]_Broker!sessionVars
         /\ Answering'
<1>0. conn \in MqttConnection(Topics)
  BY DEF TypeOK
<1>1. CASE WaitForNetwork \/ AwaitConnection
  <2>1. UNCHANGED <<state, conn>>
    BY <1>1 DEF WaitForNetwork, AwaitConnection
  <2>2. QED
    BY <2>1 DEF Mapped, Answering, Answered, Broker!sessionVars
<1>2. CASE Connect
  <2>1. conn.link = "down" /\ state = "INIT" /\ state' = "CONNECTING"
    BY <1>2, <1>0, PassWhileAborting
       DEF Connect, Recover, Session, StateFollowsLink, MqttConnection, Links
  <2>2. conn' = [conn EXCEPT !.link = "connecting"]
    BY <1>2, <2>1 DEF Connect, MqttConnect
  <2>3. /\ conn'.link = "connecting"
        /\ conn'.granted = conn.granted /\ conn'.refused = conn.refused
    BY <1>0, <2>2 DEF MqttConnection
  <2>4. Broker!Open
    BY <2>1, <2>3 DEF Mapped, Broker!Open
  <2>5. QED
    BY <2>1, <2>3, <2>4 DEF Answering, Answered, Broker!Next
<1>3. CASE Subscribe(ev)
  BY <1>3, SubscribeSeen DEF Broker!Next
<1>4. CASE Work(ev)
  BY <1>4, WorkSeen DEF Broker!Next
<1>5. CASE Recover
  <2>1. /\ state = "DISCONNECTED" /\ state' = "INIT" /\ conn' = conn
        /\ conn.link \in {"down", "aborting"}
    BY <1>5, <1>0 DEF Recover, Session, StateFollowsLink, MqttConnection, Links
  <2>2. QED
    BY <2>1 DEF Mapped, Answering, Answered, Broker!sessionVars
<1>6. QED
  BY <1>1, <1>2, <1>3, <1>4, <1>5 DEF Pass

LEMMA DoneSeen ==
  ASSUME TypeOK, Session, Answering, Mapped, Mapped', Session', RequestDone
  PROVE  Broker!Answer /\ Answering'
<1>0. conn \in MqttConnection(Topics)
  BY DEF TypeOK
<1>1. PICK grant \in BOOLEAN : conn' = MqttDone(conn, grant)
  BY DEF RequestDone
<1>2. /\ conn.link = "up" /\ conn.slot \in {"publish", "time_synch"}
      /\ state = "SUBSCRIBED" /\ state' = "SUBSCRIBED"
  BY DEF RequestDone, Session, Mapped
<1>3. conn'.link = "up" /\ conn'.slot = "free"
  BY <1>0, <1>1, <1>2, MqttDoneFrees, TopicFacts
<1>4. Answered' = {"time_synch"}
  <2>1. CASE conn.slot = "publish"
    <3>1. conn' = [conn EXCEPT !.slot = "free"]
      BY <1>1, <2>1 DEF MqttDone
    <3>2. conn'.granted = conn.granted /\ conn'.refused = conn.refused
      BY <1>0, <3>1 DEF MqttConnection
    <3>3. QED
      BY <1>2, <2>1, <3>2 DEF Answering, Answered
  <2>2. CASE conn.slot = "time_synch" /\ grant
    <3>1. conn' = [conn EXCEPT !.slot = "free", !.granted = @ \cup {conn.slot}]
      BY <1>1, <2>2 DEF MqttDone
    <3>2. conn'.granted = conn.granted \cup {"time_synch"} /\ conn'.refused = conn.refused
      BY <1>0, <2>2, <3>1 DEF MqttConnection
    <3>3. QED
      BY <1>2, <2>2, <3>2 DEF Answering, Answered
  <2>3. CASE conn.slot = "time_synch" /\ ~grant
    <3>1. conn' = [conn EXCEPT !.slot = "free", !.refused = @ \cup {conn.slot}]
      BY <1>1, <2>3 DEF MqttDone
    <3>2. conn'.refused = conn.refused \cup {"time_synch"} /\ conn'.granted = conn.granted
      BY <1>0, <2>3, <3>1 DEF MqttConnection
    <3>3. QED
      BY <1>2, <2>3, <3>2 DEF Answering, Answered
  <2>4. QED
    BY <1>2, <2>1, <2>2, <2>3
<1>5. /\ SessionState = "online" /\ SessionState' = "online"
      /\ Outstanding = conn.slot /\ Outstanding' = "none"
      /\ Answers = IF conn.slot = "publish" THEN 1 ELSE 0
      /\ Answers' = 1
  BY <1>2, <1>3, <1>4 DEF Mapped, Answering
<1>6. Broker!Answer
  BY <1>2, <1>5 DEF Broker!Answer
<1>7. QED
  BY <1>2, <1>3, <1>4, <1>6 DEF Answering

LEMMA CallbackSeen ==
  ASSUME TypeOK, Session, Answering, Mapped, Mapped', Session', Callback
  PROVE  /\ [Broker!Next]_Broker!sessionVars
         /\ Answering'
<1>0. conn \in MqttConnection(Topics)
  BY DEF TypeOK
<1>1. CASE ConnectionAccepted
  <2>1. /\ conn.link = "connecting" /\ conn.slot = "free" /\ state' = "CONNECTED"
        /\ conn' = [conn EXCEPT !.link = "up"]
    BY <1>1 DEF ConnectionAccepted, MqttAccepted, Session
  <2>2. /\ conn'.link = "up" /\ conn'.slot = "free"
        /\ conn'.granted = conn.granted /\ conn'.refused = conn.refused
    BY <1>0, <2>1 DEF MqttConnection
  <2>3. Answered = {} /\ Answered' = {}
    BY <2>1, <2>2 DEF Answering, Answered
  <2>4. Broker!Accept
    BY <2>1, <2>2, <2>3 DEF Mapped, Broker!Accept
  <2>5. QED
    BY <2>1, <2>2, <2>3, <2>4 DEF Answering, Broker!Next
<1>2. CASE ConnectionRefused
  <2>1. /\ "refused" \in Faults /\ conn.link = "connecting" /\ state' = state
        /\ conn' = MqttRegistered
    BY <1>2 DEF ConnectionRefused, MqttRefused
  <2>2. conn'.link = "down" /\ Answered' = {} /\ state' = "CONNECTING"
    BY <2>1 DEF MqttRegistered, Answered, Session
  <2>3. Broker!Strand
    BY <2>1, <2>2 DEF Mapped, Broker!Strand, Broker!Ends
  <2>4. QED
    BY <2>2, <2>3 DEF Answering, Broker!Next
<1>3. CASE ConnectionLost
  <2>1. /\ conn.link \in {"connecting", "up"} /\ state' = "DISCONNECTED"
        /\ conn' = [MqttRegistered EXCEPT !.link = "aborting"]
    BY <1>3 DEF ConnectionLost, MqttTcpLost
  <2>2. conn'.link = "aborting" /\ Answered' = {}
    BY <2>1 DEF MqttRegistered, Answered
  <2>3. Broker!Lose
    BY <2>1, <2>2 DEF Mapped, Broker!Lose, Broker!Ends
  <2>4. QED
    BY <2>2, <2>3 DEF Answering, Broker!Next
<1>4. CASE PingLost
  <2>1. /\ "ping" \in Faults /\ conn.link = "up"
        /\ conn' = [conn EXCEPT !.link = "closed"]
    BY <1>4 DEF PingLost, MqttPingLost
  <2>2. conn'.link = "closed"
    BY <1>0, <2>1 DEF MqttConnection
  <2>3. Broker!Strand
    BY <2>1, <2>2 DEF Mapped, Broker!Strand, Broker!Ends
  <2>4. QED
    BY <2>2, <2>3 DEF Answering, Broker!Next
<1>5. CASE RequestDone
  BY <1>5, DoneSeen DEF Broker!Next
<1>6. CASE TimeSynch
  <2>1. UNCHANGED <<state, conn>>
    BY <1>6 DEF TimeSynch
  <2>2. QED
    BY <2>1 DEF Mapped, Answering, Answered, Broker!sessionVars
<1>7. QED
  BY <1>1, <1>2, <1>3, <1>4, <1>5, <1>6 DEF Callback


LEMMA KernelSeen ==
  ASSUME TypeOK, Session, Answering, Mapped, Mapped', Session',
         Tick \/ (\E t \in Timers : Post(t)) \/ AbortEvent \/ IgnoreTimer \/ Stabilize
  PROVE  UNCHANGED Broker!sessionVars /\ Answering'
<1>1. CASE UNCHANGED <<state, conn>>
  BY <1>1 DEF Mapped, Answering, Answered, Broker!sessionVars
<1>2. CASE AbortEvent
  <2>1. conn.link = "aborting"
    <3>1. Queued(queue, "abort")
      BY <1>2 DEF AbortEvent, Queued, TypeOK
    <3>2. QED
      BY <3>1 DEF Session, AbortIsCleared
  <2>2. state = "INIT" /\ state' = "INIT" /\ conn' = MqttRegistered
    BY <1>2, <2>1 DEF AbortEvent, MqttAborted, Session, AbortIsCleared
  <2>3. conn'.link = "down" /\ Answered = {} /\ Answered' = {}
    BY <2>1, <2>2 DEF MqttRegistered, Answering, Answered
  <2>4. QED
    BY <2>1, <2>2, <2>3 DEF Mapped, Answering, Broker!sessionVars
<1>3. QED
  BY <1>1, <1>2 DEF Tick, Post, IgnoreTimer, Stabilize

LEMMA NextSeen ==
  TypeOK /\ Session /\ Answering /\ Mapped /\ Mapped' /\ Session' /\ [Next]_noiseVars
    => [Broker!Next]_Broker!sessionVars /\ Answering'
<1> SUFFICES ASSUME TypeOK, Session, Answering, Mapped, Mapped', Session', [Next]_noiseVars
             PROVE  [Broker!Next]_Broker!sessionVars /\ Answering'
  OBVIOUS
<1>1. CASE UNCHANGED noiseVars
  BY <1>1 DEF noiseVars, Mapped, Answering, Answered, Broker!sessionVars
<1>2. QED
  BY <1>1, KernelSeen, PassSeen, CallbackSeen DEF Next

(* The mote implements MqttSession: one subscription per session, asked    *)
(* for when the broker has accepted the connection and before any          *)
(* publication, one request at a time, an unnoticed loss the only thing    *)
(* that ends the attempts (noise-sensor.c:97-151, 205-266).                *)
THEOREM NoiseFollowsSession == Spec => FollowsSession
<1>1. Init => Broker!Init /\ Answering
  BY DEF Init, Broker!Init, SessionState, Outstanding, Answers, Answering, Answered,
         MqttRegistered
<1>2. TypeOK /\ Session => Mapped
  BY SessionMapped
<1>3. Spec => [](TypeOK /\ Session /\ Mapped)
  BY <1>2, SessionInvariant, PTL
<1>4. QED
  BY <1>1, <1>3, NextSeen, PTL DEF Spec, FollowsSession, Broker!Spec
=============================================================================
