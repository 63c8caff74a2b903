---------------------------- MODULE NoiseSensor -----------------------------
(***************************************************************************)
(* The noise mote (noise-sensor.c): a process driven by three event timers *)
(* and by the callbacks of the MQTT library.                               *)
(*                                                                         *)
(* Every wake-up runs one pass of the state machine in the process, in one *)
(* uninterrupted step; the passes that fall through several states of the  *)
(* code are one action each.  A TIMER event does not say which timer       *)
(* fired: the process asks etimer_expired of all three.                    *)
(***************************************************************************)
EXTENDS Etimer, MqttEngine

CONSTANTS
  PeriodicInterval,    \* STATE_MACHINE_PERIODIC, in clock units
  SamplingInterval,    \* SAMPLING_INTERVAL
  SendInterval,        \* SEND_INTERVAL
  CounterSize,         \* the number of values of num_sampling, a uint16_t
  Faults               \* what can go wrong: "tcp", "refused", "ping"

ASSUME NoiseAssumption ==
  /\ PeriodicInterval \in Nat \ {0}
  /\ SamplingInterval \in Nat \ {0}
  /\ SendInterval \in Nat \ {0}
  /\ SamplingInterval <= SendInterval
  /\ CounterSize \in Nat
  /\ SendInterval + 2 * SamplingInterval < CounterSize * SamplingInterval
  /\ Faults \subseteq {"tcp", "refused", "ping"}

Timers == {"periodic", "sampling", "publish"}
Topics == {"time_synch"}
States == {"INIT", "CONNECTING", "CONNECTED", "SUBSCRIBED", "DISCONNECTED"}

VARIABLES
  state,       \* state; NET_OK is left in the step that enters it
  synched,     \* time_synch >= 0
  samples,     \* num_sampling: the samples summed up in mean_noise
  timer,       \* the three etimers
  running,     \* FALSE after PROCESS_EXIT
  conn,        \* conn: the library's side of the connection
  queue,       \* kernel events: "timer" for the process, "abort" for the library
  polled,      \* process_poll was called
  stable       \* the network has stopped failing (not in the code)

noiseVars == <<state, synched, samples, timer, running, conn, queue, polled, stable>>

-----------------------------------------------------------------------------

Init ==
  /\ state = "INIT"
  /\ synched = FALSE
  /\ samples = 0
  /\ timer = [t \in Timers |->
                CASE t = "periodic" -> EtimerSet(PeriodicInterval)
                  [] t = "sampling" -> EtimerSet(SamplingInterval)
                  [] t = "publish"  -> EtimerSet(SendInterval)]
  /\ running = TRUE
  /\ conn = MqttRegistered
  /\ queue = <<>>
  /\ polled = FALSE
  /\ stable = FALSE

(* Kernel.  A clock unit is long compared with the handling of an event:   *)
(* time passes only when nothing is left to post or to handle.             *)
NothingDue == \A t \in Timers : ~EtimerDue(timer[t])

Tick ==
  /\ queue = <<>> /\ ~polled /\ NothingDue
  /\ timer' = [t \in Timers |-> EtimerAdvance(timer[t])]
  /\ UNCHANGED <<state, synched, samples, running, conn, queue, polled, stable>>

Post(t) ==
  /\ EtimerDue(timer[t])
  /\ timer' = [timer EXCEPT ![t] = EtimerPosted(@)]
  /\ queue' = Append(queue, "timer")
  /\ UNCHANGED <<state, synched, samples, running, conn, polled, stable>>

(* A poll is delivered before any event, and the etimer process, itself    *)
(* polled, has posted every due timer before the first event is delivered. *)
Poll ==
  /\ polled
  /\ polled' = FALSE
  /\ UNCHANGED queue

TimerEvent ==
  /\ ~polled /\ NothingDue
  /\ queue # <<>> /\ Head(queue) = "timer"
  /\ queue' = Tail(queue)
  /\ UNCHANGED polled

AbortEvent ==
  /\ ~polled /\ NothingDue
  /\ queue # <<>> /\ Head(queue) = "abort"
  /\ queue' = Tail(queue)
  /\ conn' = MqttAborted(conn)
  /\ UNCHANGED <<state, synched, samples, timer, running, polled, stable>>

-----------------------------------------------------------------------------
(* The process. *)

(* A variant of WakeUp that takes any TIMER event for its own. *)
WakeUpAnyTimer(ev) ==
  /\ running
  /\ \/ ev = "poll" /\ Poll
     \/ ev = "timer" /\ TimerEvent

(* What makes PROCESS_YIELD return into the state machine. *)
WakeUp(ev) ==
  /\ running
  /\ \/ ev = "poll" /\ Poll
     \/ ev = "timer" /\ TimerEvent /\ EtimerExpired(timer["periodic"])

(* Any other TIMER event is ignored. *)
IgnoreTimer ==
  /\ TimerEvent
  /\ ~running \/ ~EtimerExpired(timer["periodic"])
  /\ UNCHANGED <<state, synched, samples, timer, running, conn, stable>>

(* A variant of Rearm that forgets the timer. *)
RearmMissing == UNCHANGED timer

(* etimer_set(&periodic_timer, ...) at the end of the pass. *)
Rearm == timer' = [timer EXCEPT !["periodic"] = EtimerSet(PeriodicInterval)]

(* STATE_INIT and no connectivity. *)
WaitForNetwork ==
  /\ state = "INIT"
  /\ ~stable
  /\ Rearm
  /\ UNCHANGED <<state, synched, samples, running, conn, stable>>

(* STATE_INIT, through STATE_NET_OK, to STATE_CONNECTING: the result of    *)
(* mqtt_connect is not looked at.                                          *)
Connect ==
  /\ state = "INIT"
  /\ state' = "CONNECTING"
  /\ conn' = MqttConnect(conn)
  /\ Rearm
  /\ UNCHANGED <<synched, samples, running, stable>>

AwaitConnection ==
  /\ state = "CONNECTING"
  /\ Rearm
  /\ UNCHANGED <<state, synched, samples, running, conn, stable>>

(* Sampling and publishing at the end of a pass that finds the process     *)
(* subscribed, c being the connection by then: nothing happens on a poll   *)
(* or before the first time_synch message.  The mean divides by Divisor;   *)
(* the window is reset whether or not mqtt_publish took the message.       *)
Samples(ev) == synched /\ ev = "timer" /\ EtimerExpired(timer["sampling"])
Publishes(ev) == synched /\ ev = "timer" /\ EtimerExpired(timer["publish"])

(* A variant of Divisor for a publication that comes before the sample. *)
DivisorPublishingFirst(ev) ==
  IF Samples(ev) /\ ~Publishes(ev) THEN (samples + 1) % CounterSize ELSE samples

Divisor(ev) == IF Samples(ev) THEN (samples + 1) % CounterSize ELSE samples

Remaining(ev) == IF Publishes(ev) THEN 0 ELSE Divisor(ev)
PublishTimer(ev) ==
  IF Publishes(ev) THEN EtimerSet(SendInterval) ELSE timer["publish"]

(* A variant of Measure that never calls mqtt_publish. *)
MeasureUnsent(ev, c) ==
  /\ samples' = Remaining(ev)
  /\ conn' = c
  /\ timer' = [timer EXCEPT
       !["periodic"] = EtimerSet(PeriodicInterval),
       !["sampling"] = IF Samples(ev) THEN EtimerSet(SamplingInterval) ELSE @,
       !["publish"]  = PublishTimer(ev)]
  /\ UNCHANGED <<synched, running, stable>>

Measure(ev, c) ==
  /\ samples' = Remaining(ev)
  /\ conn' = IF Publishes(ev) THEN MqttRequest(c, "publish") ELSE c
  /\ timer' = [timer EXCEPT
       !["periodic"] = EtimerSet(PeriodicInterval),
       !["sampling"] = IF Samples(ev) THEN EtimerSet(SamplingInterval) ELSE @,
       !["publish"]  = PublishTimer(ev)]
  /\ UNCHANGED <<synched, running, stable>>

(* With the output queue full the process ends, and the mote is dead until *)
(* it is rebooted; any other status, an error included, counts as success. *)
Subscribe(ev) ==
  /\ state = "CONNECTED"
  /\ IF MqttStatus(conn) = "OUT_QUEUE_FULL"
     THEN /\ running' = FALSE
          /\ UNCHANGED <<state, synched, samples, timer, conn, stable>>
     ELSE /\ state' = "SUBSCRIBED"
          /\ Measure(ev, MqttRequest(conn, "time_synch"))

Work(ev) ==
  /\ state = "SUBSCRIBED"
  /\ UNCHANGED state
  /\ Measure(ev, conn)

(* Variants of Recover: on to STATE_NET_OK, or nowhere. *)
RecoverNetOk ==
  /\ state = "DISCONNECTED"
  /\ state' = "NET_OK"
  /\ Rearm
  /\ UNCHANGED <<synched, samples, running, conn, stable>>

RecoverNowhere ==
  /\ state = "DISCONNECTED"
  /\ Rearm
  /\ UNCHANGED <<state, synched, samples, running, conn, stable>>

Recover ==
  /\ state = "DISCONNECTED"
  /\ state' = "INIT"
  /\ Rearm
  /\ UNCHANGED <<synched, samples, running, conn, stable>>

Pass(ev) ==
  /\ WakeUp(ev)
  /\ \/ WaitForNetwork \/ Connect \/ AwaitConnection \/ Subscribe(ev)
     \/ Work(ev) \/ Recover

-----------------------------------------------------------------------------
(* Callbacks: mqtt_event, called by the library in steps of its own. *)

ConnectionAccepted ==
  /\ conn.link = "connecting"
  /\ conn' = MqttAccepted(conn)
  /\ state' = "CONNECTED"
  /\ UNCHANGED <<synched, samples, timer, running, queue, polled, stable>>

(* The error event only prints a line. *)
ConnectionRefused ==
  /\ "refused" \in Faults /\ ~stable
  /\ conn.link = "connecting"
  /\ conn' = MqttRefused(conn)
  /\ UNCHANGED <<state, synched, samples, timer, running, queue, polled, stable>>

ConnectionLost ==
  /\ "tcp" \in Faults /\ ~stable
  /\ conn.link \in {"connecting", "up"}
  /\ conn' = MqttTcpLost(conn)
  /\ queue' = Append(queue, "abort")
  /\ state' = "DISCONNECTED"
  /\ polled' = running
  /\ UNCHANGED <<synched, samples, timer, running, stable>>

(* No callback at all. *)
PingLost ==
  /\ "ping" \in Faults /\ ~stable
  /\ conn.link = "up"
  /\ conn' = MqttPingLost(conn)
  /\ UNCHANGED <<state, synched, samples, timer, running, queue, polled, stable>>

(* SUBACK and the like: the application prints the outcome. *)
RequestDone ==
  /\ conn.link = "up" /\ conn.slot # "free"
  /\ \E grant \in BOOLEAN : conn' = MqttDone(conn, grant)
  /\ UNCHANGED <<state, synched, samples, timer, running, queue, polled, stable>>

(* A message of the client on time_synch. *)
TimeSynch ==
  /\ conn.link = "up" /\ "time_synch" \in conn.granted
  /\ synched' = TRUE
  /\ UNCHANGED <<state, samples, timer, running, conn, queue, polled, stable>>

(* From here on nothing fails any more: used to state what then happens. *)
Stabilize ==
  /\ stable' = TRUE
  /\ UNCHANGED <<state, synched, samples, timer, running, conn, queue, polled>>

Callback ==
  \/ ConnectionAccepted \/ ConnectionRefused \/ ConnectionLost
  \/ PingLost \/ RequestDone \/ TimeSynch

-----------------------------------------------------------------------------

Next ==
  \/ Tick
  \/ \E t \in Timers : Post(t)
  \/ AbortEvent
  \/ \E ev \in {"timer", "poll"} : Pass(ev)
  \/ IgnoreTimer
  \/ Callback
  \/ Stabilize

Spec == Init /\ [][Next]_noiseVars

(* The clock runs, the kernel posts and delivers what it has, the broker   *)
(* answers a connection attempt and every request once nothing fails.      *)
(* Nobody has to send time_synch.                                          *)
FairSpec ==
  /\ Spec
  /\ WF_noiseVars(Tick)
  /\ \A t \in Timers : WF_noiseVars(Post(t))
  /\ WF_noiseVars(AbortEvent)
  /\ WF_noiseVars(\E ev \in {"timer", "poll"} : Pass(ev))
  /\ WF_noiseVars(IgnoreTimer)
  /\ WF_noiseVars(ConnectionAccepted)
  /\ WF_noiseVars(RequestDone)

-----------------------------------------------------------------------------
(* The session the state and the connection amount to; "astray" is none of *)
(* MqttSession's.                                                          *)
SessionState ==
  CASE ~running -> "exited"
    [] running /\ state \in {"INIT", "DISCONNECTED"} /\ conn.link \in {"down", "aborting"} -> "offline"
    [] running /\ state = "CONNECTING" /\ conn.link = "connecting" -> "connecting"
    [] running /\ state \in {"CONNECTED", "SUBSCRIBED"} /\ conn.link = "up" -> "online"
    [] running /\ state \in {"CONNECTED", "SUBSCRIBED"} /\ conn.link = "closed" -> "stranded"
    [] running /\ state = "CONNECTING" /\ conn.link = "down" -> "stranded"
    [] OTHER -> "astray"

Outstanding == IF conn.link = "up" /\ conn.slot # "free" THEN conn.slot ELSE "none"
Answers == IF conn.link = "up" /\ "time_synch" \in conn.granted \cup conn.refused THEN 1 ELSE 0

Broker == INSTANCE MqttSession
  WITH TopicOrder <- <<"time_synch">>, Losses <- Faults \ {"tcp"},
       session <- SessionState, request <- Outstanding, answered <- Answers

-----------------------------------------------------------------------------
(* Properties *)

TypeOK ==
  /\ state \in States
  /\ synched \in BOOLEAN
  /\ samples \in Nat
  /\ timer \in [Timers -> AnyEtimer]
  /\ running \in BOOLEAN
  /\ conn \in MqttConnection(Topics)
  /\ queue \in Seq({"timer", "abort"})
  /\ polled \in BOOLEAN
  /\ stable \in BOOLEAN

(* The process calls mqtt_subscribe and mqtt_publish only on a connection  *)
(* that the broker accepted and that, as far as the process was told, is   *)
(* still there; and it does so whenever the connection is there.           *)
StateFollowsLink ==
  /\ state \in {"CONNECTED", "SUBSCRIBED"} => conn.link \in {"up", "closed"}
  /\ conn.link = "up" => state \in {"CONNECTED", "SUBSCRIBED"}

(* The mote keeps to a session with the broker: it connects only when it   *)
(* has none and the library is able to, subscribes once, publishes only    *)
(* afterwards and one at a time, starts anew after each loss it is told    *)
(* of, and never exits (noise-sensor.c:97-151, 205-266).  TCP failures     *)
(* alone never leave it stranded.                                          *)
FollowsSession == Broker!Spec

(* The PROCESS_EXIT of noise-sensor.c:226 is never reached: the output     *)
(* queue is empty whenever the process subscribes.                         *)
NeverExits == running

(* mqtt_connect is never called while the library is still busy aborting   *)
(* the previous connection, when it would do nothing and no callback would *)
(* ever follow.  It is etimer_expired that sees to it: a TIMER event left  *)
(* over from before the disconnection is ignored.                          *)
ConnectNotSwallowed == state = "CONNECTING" => conn.link # "aborting"

(* The periodic timer that drives everything is never lost between the     *)
(* polls, the other timers' events and its own.                            *)
NoLostWakeUp == timer["periodic"].armed \/ Queued(queue, "timer")

(* The mean at noise-sensor.c:242 is never a division by zero, although    *)
(* both timers go on while the mote is offline or not yet synchronised and *)
(* the counter is 16 bits wide.                                            *)
MeanIsDefined == NothingDue /\ Publishes("timer") => Divisor("timer") # 0

(* The samples of a window fit into the send interval, give or take one,   *)
(* however long the mote was offline in between.                           *)
WindowBounded == samples * SamplingInterval <= SendInterval + SamplingInterval

(* At work, and the subscription answered. *)
Online == state = "SUBSCRIBED" /\ conn.link = "up" /\ Answers = 1

(* The library gave up the connection without a callback the process       *)
(* reacts to.                                                              *)
SilentlyLost ==
  \/ conn.link = "closed"
  \/ conn.link = "down" /\ state = "CONNECTING"

(* Once nothing fails any more the mote gets online and stays so, unless   *)
(* it was left waiting for a callback that never comes.  Together with     *)
(* ConnectNotSwallowed: after TCP failures alone it always recovers.       *)
OnlineOrSilentlyLost == stable ~> [](Online \/ SilentlyLost)

(* A synchronised mote that stays online publishes for ever: however its   *)
(* timers fall together and whichever publications the library refuses,    *)
(* it takes one again and again (noise-sensor.c:233-266).                  *)
KeepsPublishing ==
  <>[](Online /\ synched) => []<>(conn.slot = "publish")
=============================================================================
