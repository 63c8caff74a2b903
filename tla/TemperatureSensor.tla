------------------------- MODULE TemperatureSensor --------------------------
(***************************************************************************)
(* The temperature mote (MQTT_server_temperature.c): a process driven by   *)
(* two event timers and by the callbacks of the MQTT library.              *)
(*                                                                         *)
(* Every event the process receives runs one step of its main loop: the    *)
(* state machine if the event is the one of the periodic timer or a poll,  *)
(* then, whatever the event, the sampling if its timer has expired.        *)
(* Temperatures are integers, in a unit of the instance's choice.          *)
(***************************************************************************)
EXTENDS Etimer, MqttEngine, Integers, FiniteSets

CONSTANTS
  PeriodicInterval,    \* STATE_MACHINE_PERIODIC, in clock units
  SamplingInterval,    \* SAMPLING_TIMER_PERIOD
  BufferLength,        \* TEMPERATURE_BUFFER_LENGTH
  MinTemperature,      \* MIN_TEMPERATURE
  MaxTemperature,      \* MAX_TEMPERATURE
  FirstTemperature,    \* the initial value of temperature
  LedThreshold,        \* LED_TEMPERATURE_THRESHOLD
  MaxVariation,        \* a sample differs from the temperature by at most this
  Commands,            \* the values a message to the actuator may carry
  Faults               \* what can go wrong: "tcp", "refused", "ping"

ASSUME TemperatureAssumption ==
  /\ PeriodicInterval \in Nat \ {0}
  /\ SamplingInterval \in Nat \ {0}
  /\ BufferLength \in Nat \ {0}
  /\ MinTemperature \in Int /\ MaxTemperature \in Int
  /\ FirstTemperature \in MinTemperature..MaxTemperature
  /\ LedThreshold \in Int
  /\ MaxVariation \in Nat
  /\ Commands \subseteq Int
  /\ Faults \subseteq {"tcp", "refused", "ping"}

Timers == {"periodic", "sampling"}
Topics == {"actuator", "time_synch"}
States == {"INIT", "CONNECTING", "CONNECTED", "SUBSCRIBED", "SUBSCRIBED_SYNCH",
           "DISCONNECTED"}

VARIABLES
  state,        \* state; NET_OK is left in the step that enters it
  synched,      \* base_time # -1
  samples,      \* number_of_collected_samples
  temperature,  \* temperature
  led,          \* what change_LED_Band last lit
  timer,        \* the two etimers
  running,      \* FALSE after PROCESS_EXIT
  conn,         \* conn: the library's side of the connection
  queue,        \* kernel events: a timer's for the process, "abort" for the library
  polled,       \* process_poll was called
  stable        \* the network has stopped failing (not in the code)

roomVars == <<samples, temperature, led, timer>>
temperatureVars ==
  <<state, synched, roomVars, running, conn, queue, polled, stable>>

-----------------------------------------------------------------------------

Init ==
  /\ state = "INIT"
  /\ synched = FALSE
  /\ samples = 0
  /\ temperature = FirstTemperature
  /\ led = "OFF"
  /\ timer = [t \in Timers |->
                EtimerSet(IF t = "periodic" THEN PeriodicInterval ELSE SamplingInterval)]
  /\ running = TRUE
  /\ conn = MqttRegistered
  /\ queue = <<>>
  /\ polled = FALSE
  /\ stable = FALSE

(* Kernel.  A clock unit is long compared with the handling of an event:   *)
(* time passes only when nothing is left to post or to handle.             *)
NothingDue == \A t \in Timers : ~EtimerDue(timer[t])

Tick ==
  /\ queue = <<>> /\ ~polled /\ NothingDue
  /\ timer' = [t \in Timers |-> EtimerAdvance(timer[t])]
  /\ UNCHANGED <<state, synched, samples, temperature, led, running, conn, queue,
                 polled, stable>>

Post(t) ==
  /\ EtimerDue(timer[t])
  /\ timer' = [timer EXCEPT ![t] = EtimerPosted(@)]
  /\ queue' = Append(queue, t)
  /\ UNCHANGED <<state, synched, samples, temperature, led, running, conn, polled,
                 stable>>

(* A poll is delivered before any event, and the etimer process, itself    *)
(* polled, has posted every due timer before the first event is delivered. *)
Poll ==
  /\ polled
  /\ polled' = FALSE
  /\ UNCHANGED queue

Receive(e) ==
  /\ ~polled /\ NothingDue
  /\ queue # <<>> /\ Head(queue) = e
  /\ queue' = Tail(queue)
  /\ UNCHANGED polled

AbortEvent ==
  /\ Receive("abort")
  /\ conn' = MqttAborted(conn)
  /\ UNCHANGED <<state, synched, roomVars, running, stable>>

-----------------------------------------------------------------------------
(* Sampling: lines 507-514 of the loop, reached after every event. *)

Band(t) == IF t < LedThreshold THEN "GREEN" ELSE "RED"

(* A sample, cut off at the ends of the range, and the temperatures the    *)
(* incremental mean can make of it: nothing outside the two.               *)
Clamp(t) == IF t < MinTemperature THEN MinTemperature
            ELSE IF t > MaxTemperature THEN MaxTemperature ELSE t
Sampled(t) == {Clamp(t + v) : v \in -MaxVariation..MaxVariation}
Means(t, last) == (t..last) \cup (last..t)

(* A variant of Collected that starts again one sample early. *)
CollectedEarly(n) == IF n + 1 >= BufferLength THEN 0 ELSE n + 1

(* One more sample; a window nobody published starts again from zero. *)
Collected(n) == IF n + 1 > BufferLength THEN 0 ELSE n + 1

(* A variant of SampleIfExpired without etimer_reset. *)
SampleWithoutReset(n, periodic) ==
  /\ timer' = [timer EXCEPT !["periodic"] = periodic]
  /\ IF EtimerExpired(timer["sampling"])
     THEN /\ samples' = Collected(n)
          /\ \E last \in Sampled(temperature) : temperature' \in Means(temperature, last)
          /\ led' = Band(temperature')
     ELSE /\ samples' = n
          /\ UNCHANGED <<temperature, led>>

(* The end of the loop's body, n and periodic being what the state machine *)
(* left in the counter and in its timer.                                   *)
SampleIfExpired(n, periodic) ==
  IF EtimerExpired(timer["sampling"])
  THEN /\ samples' = Collected(n)
       /\ \E last \in Sampled(temperature) : temperature' \in Means(temperature, last)
       /\ led' = Band(temperature')
       /\ timer' = [timer EXCEPT !["periodic"] = periodic,
                                 !["sampling"] = EtimerSet(SamplingInterval)]
  ELSE /\ samples' = n
       /\ timer' = [timer EXCEPT !["periodic"] = periodic]
       /\ UNCHANGED <<temperature, led>>

(* An event the state machine does not react to. *)
OnlySample == SampleIfExpired(samples, timer["periodic"])

(* The end of a pass of the state machine that leaves the counter alone. *)
EndPass == SampleIfExpired(samples, EtimerSet(PeriodicInterval))

-----------------------------------------------------------------------------
(* The process. *)

WakeUp == running /\ (Poll \/ Receive("periodic"))

(* STATE_INIT and no connectivity. *)
WaitForNetwork ==
  /\ state = "INIT"
  /\ ~stable
  /\ EndPass
  /\ UNCHANGED <<state, running, conn>>

(* STATE_INIT, through STATE_NET_OK, to STATE_CONNECTING: the result of    *)
(* mqtt_connect is not looked at.                                          *)
Connect ==
  /\ state = "INIT"
  /\ state' = "CONNECTING"
  /\ conn' = MqttConnect(conn)
  /\ EndPass
  /\ UNCHANGED running

AwaitConnection ==
  /\ state = "CONNECTING"
  /\ EndPass
  /\ UNCHANGED <<state, running, conn>>

(* STATE_SUBSCRIBED_SYNCH, c being the connection by then: a full window   *)
(* of a synchronised mote is given to mqtt_publish, whose result is not    *)
(* looked at, and forgotten.                                               *)
WindowFull == samples = BufferLength /\ synched

Notify(c) ==
  IF WindowFull
  THEN /\ conn' = MqttRequest(c, "publish")
       /\ SampleIfExpired(0, EtimerSet(PeriodicInterval))
  ELSE /\ conn' = c
       /\ EndPass

(* A variant of SubscribeSynch that goes back when the queue is full. *)
SubscribeSynchFromStart(c) ==
  IF MqttStatus(c) = "OUT_QUEUE_FULL"
  THEN /\ state' = "CONNECTED"
       /\ conn' = c
       /\ EndPass
  ELSE /\ state' = "SUBSCRIBED_SYNCH"
       /\ Notify(MqttRequest(c, "time_synch"))

(* STATE_SUBSCRIBED: with the output queue full the mote stays in it. *)
SubscribeSynch(c) ==
  IF MqttStatus(c) = "OUT_QUEUE_FULL"
  THEN /\ state' = "SUBSCRIBED"
       /\ conn' = c
       /\ EndPass
  ELSE /\ state' = "SUBSCRIBED_SYNCH"
       /\ Notify(MqttRequest(c, "time_synch"))

(* STATE_CONNECTED: with the output queue full the process ends, and the   *)
(* mote is dead until it is rebooted.  Any other status counts as success. *)
SubscribeActuator ==
  /\ state = "CONNECTED"
  /\ IF MqttStatus(conn) = "OUT_QUEUE_FULL"
     THEN /\ running' = FALSE
          /\ UNCHANGED <<state, roomVars, conn>>
     ELSE /\ SubscribeSynch(MqttRequest(conn, "actuator"))
          /\ UNCHANGED running

RetrySubscribeSynch ==
  /\ state = "SUBSCRIBED"
  /\ SubscribeSynch(conn)
  /\ UNCHANGED running

Work ==
  /\ state = "SUBSCRIBED_SYNCH"
  /\ Notify(conn)
  /\ UNCHANGED <<state, running>>

(* Variants of Recover: on to STATE_NET_OK, or nowhere. *)
RecoverNetOk ==
  /\ state = "DISCONNECTED"
  /\ state' = "NET_OK"
  /\ EndPass
  /\ UNCHANGED <<running, conn>>

RecoverNowhere ==
  /\ state = "DISCONNECTED"
  /\ EndPass
  /\ UNCHANGED <<state, running, conn>>

Recover ==
  /\ state = "DISCONNECTED"
  /\ state' = "INIT"
  /\ EndPass
  /\ UNCHANGED <<running, conn>>

Pass ==
  /\ WakeUp
  /\ \/ WaitForNetwork \/ Connect \/ AwaitConnection \/ SubscribeActuator
     \/ RetrySubscribeSynch \/ Work \/ Recover
  /\ UNCHANGED <<synched, stable>>

(* The sampling timer's own event. *)
SamplingEvent ==
  /\ Receive("sampling")
  /\ running
  /\ OnlySample
  /\ UNCHANGED <<state, synched, running, conn, stable>>

(* The event the library posts to the process after each callback.  It may *)
(* come at any moment.                                                     *)
LibraryEvent ==
  /\ running /\ ~polled /\ NothingDue
  /\ OnlySample
  /\ UNCHANGED <<state, synched, running, conn, queue, polled, stable>>

-----------------------------------------------------------------------------
(* Callbacks: mqtt_event, called by the library in steps of its own. *)

ConnectionAccepted ==
  /\ conn.link = "connecting"
  /\ conn' = MqttAccepted(conn)
  /\ state' = "CONNECTED"
  /\ UNCHANGED <<synched, roomVars, running, queue, polled, stable>>

(* The error event only prints a line. *)
ConnectionRefused ==
  /\ "refused" \in Faults /\ ~stable
  /\ conn.link = "connecting"
  /\ conn' = MqttRefused(conn)
  /\ UNCHANGED <<state, synched, roomVars, running, queue, polled, stable>>

ConnectionLost ==
  /\ "tcp" \in Faults /\ ~stable
  /\ conn.link \in {"connecting", "up"}
  /\ conn' = MqttTcpLost(conn)
  /\ queue' = Append(queue, "abort")
  /\ state' = "DISCONNECTED"
  /\ polled' = running
  /\ UNCHANGED <<synched, roomVars, running, stable>>

(* No callback at all. *)
PingLost ==
  /\ "ping" \in Faults /\ ~stable
  /\ conn.link = "up"
  /\ conn' = MqttPingLost(conn)
  /\ UNCHANGED <<state, synched, roomVars, running, queue, polled, stable>>

(* SUBACK and the like: the application prints the outcome. *)
RequestDone ==
  /\ conn.link = "up" /\ conn.slot # "free"
  /\ \E grant \in BOOLEAN : conn' = MqttDone(conn, grant)
  /\ UNCHANGED <<state, synched, roomVars, running, queue, polled, stable>>

(* pub_handler: a message of the client on one of the two topics. *)
TimeSynch ==
  /\ conn.link = "up" /\ "time_synch" \in conn.granted
  /\ synched' = TRUE
  /\ UNCHANGED <<state, roomVars, running, conn, queue, polled, stable>>

(* A variant of Actuate without change_LED_Band. *)
ActuateDark ==
  /\ conn.link = "up" /\ "actuator" \in conn.granted
  /\ temperature' \in Commands \cap (MinTemperature..MaxTemperature)
  /\ UNCHANGED <<state, synched, samples, led, timer, running, conn, queue, polled, stable>>

Actuate ==
  /\ conn.link = "up" /\ "actuator" \in conn.granted
  /\ \E new \in Commands :
       /\ MinTemperature <= new /\ new <= MaxTemperature
       /\ temperature' = new
       /\ led' = Band(new)
  /\ UNCHANGED <<state, synched, samples, timer, running, conn, queue, polled, stable>>

(* From here on nothing fails any more: used to state what then happens. *)
Stabilize ==
  /\ stable' = TRUE
  /\ UNCHANGED <<state, synched, roomVars, running, conn, queue, polled>>

Callback ==
  \/ ConnectionAccepted \/ ConnectionRefused \/ ConnectionLost
  \/ PingLost \/ RequestDone \/ TimeSynch \/ Actuate

-----------------------------------------------------------------------------

Next ==
  \/ Tick
  \/ \E t \in Timers : Post(t)
  \/ AbortEvent
  \/ Pass
  \/ SamplingEvent
  \/ LibraryEvent
  \/ Callback
  \/ Stabilize

Spec == Init /\ [][Next]_temperatureVars

(* The clock runs, the kernel posts and delivers what it has, the broker   *)
(* answers a connection attempt and every request once nothing fails.      *)
(* Nobody has to send a message.                                           *)
FairSpec ==
  /\ Spec
  /\ WF_temperatureVars(Tick)
  /\ \A t \in Timers : WF_temperatureVars(Post(t))
  /\ WF_temperatureVars(AbortEvent)
  /\ WF_temperatureVars(Pass)
  /\ WF_temperatureVars(SamplingEvent)
  /\ WF_temperatureVars(ConnectionAccepted)
  /\ WF_temperatureVars(RequestDone)

-----------------------------------------------------------------------------
(* The session the state and the connection amount to; "astray" is none of *)
(* MqttSession's.  The mote is stranded as soon as it waits in             *)
(* STATE_CONNECTING for a connection the library is aborting.              *)
Subscribing == {"CONNECTED", "SUBSCRIBED", "SUBSCRIBED_SYNCH"}

SessionState ==
  CASE ~running -> "exited"
    [] running /\ state \in {"INIT", "DISCONNECTED"} /\ conn.link \in {"down", "aborting"} -> "offline"
    [] running /\ state = "CONNECTING" /\ conn.link = "connecting" -> "connecting"
    [] running /\ state \in Subscribing /\ conn.link = "up" -> "online"
    [] running /\ state \in Subscribing /\ conn.link = "closed" -> "stranded"
    [] running /\ state = "CONNECTING" /\ conn.link \in {"down", "aborting"} -> "stranded"
    [] OTHER -> "astray"

Outstanding == IF conn.link = "up" /\ conn.slot # "free" THEN conn.slot ELSE "none"
Answers == IF conn.link = "up" THEN Cardinality(conn.granted \cup conn.refused) ELSE 0

Broker == INSTANCE MqttSession
  WITH TopicOrder <- <<"actuator", "time_synch">>,
       Losses <- (Faults \ {"tcp"}) \cup (IF "tcp" \in Faults THEN {"swallowed"} ELSE {}),
       session <- SessionState, request <- Outstanding, answered <- Answers

-----------------------------------------------------------------------------
(* Properties *)

TypeOK ==
  /\ state \in States
  /\ synched \in BOOLEAN
  /\ samples \in Nat
  /\ temperature \in Int
  /\ led \in {"OFF", "GREEN", "RED"}
  /\ timer \in [Timers -> AnyEtimer]
  /\ running \in BOOLEAN
  /\ conn \in MqttConnection(Topics)
  /\ queue \in Seq(Timers \cup {"abort"})
  /\ polled \in BOOLEAN
  /\ stable \in BOOLEAN

(* The mote keeps to a session with the broker: it connects only when it   *)
(* has none, subscribes to the actuator and, once that is answered, to     *)
(* time_synch, over the library's one request at a time, publishes only    *)
(* when both are answered and one window at a time, and never exits (lines *)
(* 281-351, 410-504).  After a loss it is told of it starts anew, or is    *)
(* stranded, as Losses says: by its mqtt_connect coming while the library  *)
(* still aborts.  A refusal or a missing ping answer strands it, too.      *)
FollowsSession == Broker!Spec

(* The room never leaves the allowed range, and from the first sample or   *)
(* command on the LED shows the side of the threshold the temperature is   *)
(* on, whichever of the two changed it last (lines 110-123, 219, 257).     *)
TemperatureInRange == temperature \in MinTemperature..MaxTemperature
LedTracksTemperature == led \in {"OFF", Band(temperature)}
RoomConsistent == TemperatureInRange /\ LedTracksTemperature

(* Neither timer is ever lost among the polls, the library's events and    *)
(* the timers' own, in whatever order they are handled: an expired timer's *)
(* event is in the queue, or the pass or sample it stands for was done and *)
(* the timer set again.                                                    *)
NoLostWakeUp == \A t \in Timers : timer[t].armed \/ Queued(queue, t)

(* At work, and both subscriptions answered. *)
Online == state = "SUBSCRIBED_SYNCH" /\ conn.link = "up" /\ Answers = 2

(* The library gave up the connection without a callback the process       *)
(* reacts to.                                                              *)
SilentlyLost ==
  \/ conn.link = "closed"
  \/ conn.link = "down" /\ state = "CONNECTING"

(* Once nothing fails any more the mote gets online and stays so, unless   *)
(* it was left waiting for a callback that never comes.                    *)
OnlineOrSilentlyLost == stable ~> [](Online \/ SilentlyLost)

(* A synchronised mote that stays online publishes for ever: neither the   *)
(* seventh sample, which throws a window away, nor a publication the       *)
(* library refuses keeps it from the next one (lines 180, 229, 487-489).   *)
KeepsPublishing ==
  <>[](Online /\ synched) => []<>(conn.slot = "publish")

(* Expected to fail.  "To retry the connection" after a disconnection: if  *)
(* TCP failures are the only ones, the mote always recovers.               *)
Recovers == stable ~> []Online

=============================================================================
