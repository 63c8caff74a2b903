# A verification development for SmartStudyRoom

SmartStudyRoom monitors a study room with Contiki-NG motes and shows it in a
Java client. This directory holds TLA+ models of the motes' programs and of the
client's, the TLC configurations that check them, and TLAPS proofs about them. `PROJECT.json`
maps every definition to the lines it models. Paths below are relative to
`src/project/` for the motes and to `src/JavaApp/.../smartStudyRoom/` for the
client.

## 1. Inventory

| Part | Source | State | Operations |
|---|---|---|---|
| Seat mote, process | `CoAP_pir_server/coap_pir_server.c` | `is_seat_free`, `total_of_movements`, three event timers | one loop: release on chronometer or button, window of a free seat, movement |
| Seat mote, resource | `CoAP_pir_server/resources/res_seat.c` | its own `is_free` | GET, `trigger()`: toggle and notify |
| Noise mote | `sensor_noise_publisher/noise-sensor.c` | `state`, `time_synch`, `num_sampling`, `mean_noise`, three timers | state machine every 0.5 s or on a poll; callbacks of the MQTT library |
| Temperature mote | `MQTT_server_temperature/MQTT_server_temperature.c` | `state`, `base_time`, `temperature`, `number_of_collected_samples`, LED, two timers | state machine, sampling, actuator command, time synchronisation, callbacks |
| Kernel and MQTT library | not in the repository | event queue, polls, timer list, one-request output queue | modelled from how the motes use them |
| Border router | `border_router/webserver/` | two connection blocks, one static text buffer and list iterators | one page over HTTP, one call for each event of a connection, timeout |
| Client start-up | `Main.java` | `time_reference` | creates everything below, in order |
| Client, synchroniser | `synch/Synchronizer.java` | - | one `time_synch` message, not retained |
| Client, subscribers | `noise/SubscriberNoise.java`, `temperature/SubscriberTemperature.java` | `time_reference` | timestamp, level, insert, display |
| Client, command publisher | `temperature/PublisherTemperature.java` | sum and number of votes | publish the mean of ten votes |
| Client, seat observers | `seatMonitoring/SeatMonitoring.java` | array shared by three observers | CoAP observe callback |
| Client, database | `DatabaseConnection.java` | MySQL tables | inserts that swallow their exceptions |
| Client, panels | `ui/*.java` | labels, suggested values | redraw, vote |
| Simulation set-up | `cooja-simulation.csc` | - | data |

How they interact. The seat process calls `trigger()` of the resource, which
notifies CoAP observers. The two MQTT motes publish `noise` and `temperature`
through a broker to the client's subscribers; the client publishes `time_synch`
and `temperature_actuator_1_1` to the motes. Inside a mote everything is
cooperative: a process runs one event to the end, and between two events the
kernel may post timers, the button or network events in any order, and the
library may call back `mqtt_event`, which writes the process's `state`.

What is hard about it:

* an event says that a timer *had* fired; the timer may have been set again
  since then, and the event is not taken back;
* `state` is written by the process and by callbacks, and each assumes what the
  other has done;
* results of `mqtt_connect`, `mqtt_subscribe` and `mqtt_publish` are ignored or
  read as success; the output queue holds one request;
* every loss (TCP, refusal, missing ping answer) takes another path through the
  library, and only one of them tells the process;
* timers go on while the mote is offline, so that all of them are expired when
  it comes back; the noise mote's divisor depends on their order;
* the seat's resource only toggles a copy of the state it stands for;
* nothing is retransmitted or retried by the client;
* the border router's web server shares one buffer and one set of iterators among
  the threads of all connections, frees a block that it then handles once more,
  and may free it twice;
* in the client, callbacks of the MQTT and CoAP libraries redraw the panels from
  threads of their own, without locks, beside the event thread that paints and
  runs the listeners.

What makes each part correct: the seat mote's resource mirrors its process, no
timer is lost, counts do not leak between modes; the MQTT motes use the
connection only while they have one, never exit, never divide by zero, never
lose their wake-up, and get online again; a vote counts what its button said,
and a command counts each vote once; the panel shows the table, and the table is
the one the motes reported; a row in the database carries the time it was
measured at; a value keeps its level and its whole units on the way to it. The
web server loses no block to a silent peer (but to one that never closes a
connection the server has closed, section 6), never calls a script that is not
there, never writes behind its buffer while the connections it serves are not
dropped, and gives a connection that is alone the page and nothing else.

## 2. Modules

| Module | Models | Kind |
|---|---|---|
| `Etimer` | event timers and queue | operators, external |
| `MqttEngine` | the client's side of an MQTT connection | operators, external |
| `SeatServer` | `coap_pir_server.c` and `res_seat.c` | specification |
| `NoiseSensor` | `noise-sensor.c` | specification |
| `TemperatureSensor` | `MQTT_server_temperature.c` | specification |
| `TemperatureVoting` | `ui/TemperaturePanel.java`, `temperature/PublisherTemperature.java` | specification |
| `SeatPanel` | `ui/SeatPanel.java` and the shared array of `SeatMonitoring.java` | specification |
| `SeatMonitoring` | `seatMonitoring/SeatMonitoring.java` and `res_seat.c` with the network between | specification |
| `TimeSync` | `Main.java`, `synch/`, both subscribers, `DatabaseConnection.java`, the motes' time base | specification |
| `Readings` | `%d.%d` of the motes, levels of `SubscriberNoise.java`, suggestions of `TemperaturePanel.java` | operators |
| `HttpdSimple` | `border_router/webserver/` | specification |
| `MqttSession` | what a publishing mote promises | abstract specification |
| `MC...` | values for TLC | instances |
| `MoteLemmas` | facts about the operators of `Etimer` and `MqttEngine` | proofs |
| `SeatServerProofs`, `NoiseSensorProofs`, `TemperatureSensorProofs`, `SeatPanelProofs`, `SeatMonitoringProofs`, `HttpdSimpleProofs` | the theorems of section 5 about one module each | proofs |
| `ReadingsProofs` | those about a reading in the client: `Readings`, `TemperatureVoting`, `TimeSync` | proofs |

`SeatServer`, `NoiseSensor` and `TemperatureSensor` compose the external
`Etimer` and `MqttEngine` with one mote's program each. The four modules of the
client each compose the client's part with what it needs of its partners: the
resource of the mote in `SeatMonitoring`, the motes' time base and the broker in
`TimeSync`, the encoding of the readings (`Readings`) in `TemperatureVoting`.
`NoiseSensor` and `TemperatureSensor` implement `MqttSession`.

**Etimer.** A timer is `armed` (in the kernel's list) with `left` units to go.
`EtimerExpired` is `~armed`: true from the moment the etimer process has posted
the event. Setting a timer again does not take back a queued event.

**MqttEngine.** `link` is the state of the connection as the library sees it.
Three facts matter. `mqtt_connect` does nothing and returns OK unless the link
is down. When TCP is lost the library calls back, starts to reconnect by itself
and leaves an event in the queue that aborts this attempt (`"aborting"`), after
which nothing is reported any more. A missing PINGRESP closes the connection
without any callback (`"closed"`), a refusal with a callback the motes only
print.

**SeatServer.** One action per branch of the loop: `ReleaseSeat`,
`CloseWindow`, `CountMovement`, `TakeOrConfirmSeat`. The kernel is `Tick`,
`Post`, `PressButton`. `resFree` is the resource's copy, changed only by
`Trigger`. `random_rand() % PIR_MAXIMUM_WAIT` expands to
`(random_rand() % CLOCK_SECOND) * 8`, so the wait can be zero, although the
comments at lines 74 and 173 say "between 1 second and PIR_MAXIMUM_WAIT";
`PirWaits` therefore contains 0. Time may pass while events wait, which only
adds behaviours.

**NoiseSensor and TemperatureSensor.** A wake-up is one step: `WakeUp` is the
test that lets the event into the state machine, and the pass is one of
`WaitForNetwork`, `Connect` (INIT through NET_OK), `AwaitConnection`,
`Subscribe...`, `Work` and `Recover`, each with everything up to the
`etimer_set` at its end; a pass that falls through several states (CONNECTED to
SUBSCRIBED and on to sampling and publishing) is one action. The noise mote
takes any TIMER event and asks `etimer_expired`; the temperature mote compares
the event's timer and samples after whatever event comes. That difference is
the reason that one always recovers from TCP failures and the other does not.
Callbacks are actions of their own. `stable` is not in the code: once
`Stabilize` has happened no fault occurs any more, so that recovery can be
stated; nothing reads it but the faults and `WaitForNetwork`.

In the motes, data that no property tells apart is left out: the values of the noise samples,
topics' and clients' names, JSON texts, the value of the time base (only whether
it is set). The temperature's exponential average `temperature + (s -
temperature)/6` is over-approximated by any value between the two.

**MqttSession.** The session of a mote with the broker: `session` is offline,
connecting, online or stranded, `request` the one the broker has not answered
yet, `answered` the number of subscriptions it has dealt with. Each mote's
`SessionState`, `Outstanding` and `Answers` are the refinement mapping; a
combination of the process's state and the library's link that makes no sense is
`"astray"` and would break it, as would an exit. `Losses` are the ways to be
stranded that the instance allows: a refusal, a missing ping answer, and for the
temperature mote alone a `mqtt_connect` swallowed by an abort (section 6).

**Readings.** The motes print whole units and hundredths as two integers, so that
20.05 becomes `20.5`; `Received` is what the client reads. Measured values are in
thousandths, received ones in hundredths. A level and a suggestion depend on the
whole units alone, which is why the defect does no harm there; the value itself is
stored and shown wrongly.

**HttpdSimple.** One action per event uIP has for a connection: `Connected`,
`NewData`, `Acked`, `Rexmit`, `Poll`, and the ends (`PeerCloses`,
`ConnectionLost`, `EndsAgain`); each is the whole of `httpd_appcall`, with
`HandleConnection`, `HandleOutput` and the script behind it. Connections are
numbered in the order in which they are opened. A page is the
sequence of its segments, each a `Piece`: constant ones are sent from where they
are, the others through `buf`. `Sends` is the step from one `SEND` to the next: the
iterators move (`Step`), the thread goes on (`Follow`), text is added behind
`blen` (`SendsNext`). A retransmission sends the buffer as it is by then, or, if the link layer
still has the segment, what was sent (`Again`). `CONNS` blocks; the list
iterators are static, one for each list. uIP, which is not in the repository,
closes a connection in two calls if the peer was first (`tcp = "closing"`), and
without any call when the peer of a connection the server has closed never sends
its FIN (`"forgotten"`). A call of a NULL script ends the behaviour (`crashed`).
`lone`, `page`, `dropped` and `reused` are history.

The lists are the neighbour table and the source routing links (routes, where
they are compiled in). They belong to the network stack, and they change between
two segments: `ListsChange` sets their lengths (`table`, one of `Tables`) at any
moment, and moves each iterator that is not NULL to any entry of its list or to
one that is no longer in it (`Removed`). What comes after such an entry is any
entry of the list, another removed one, or the end (`Successors`); of a chain of
removed entries each was removed after the one before it, so that a chain ends
unless the lists go on to change. The links are not shown when there is no node
(`webserver.c:125`): `table` is shorter then. A connection that sees a change is
no longer `lone`. The length of the text is counted in pieces, not bytes: `Room` is
a number of pieces that fit in the 256 bytes whatever they are. For the code it is
at least 8, because pieces beyond the first are added only by connections that
come from the top of the page, hence are heads of the first list (19 bytes), and
the first is at most one row (115): 115 + 7 * 19 = 248, and snprintf ends it with a
zero. More than `Room` pieces may still fit, or be cut off, or write behind the
buffer and let the size given to the next snprintf wrap; the last ends the
behaviour (`overrun`).
 `handle_input` reads words;
all lines after the second word are the same and are left out, as is the 404
branch of `handle_output`, which `httpd_simple_get_script` never lets happen.

**TemperatureVoting.** `redraw` is how far the subscriber's thread is in
`changeTemperatureValue`, which handles the three buttons one after the other in
five phases: `RemoveButton`, `SetSuggestion`, `AddButton`, `AddListener`,
`Repaint`. Between any two of these steps the event thread may take one of its own:
`Paint`, the dispatch of a click to the button it hits (`Click`), or the listener
of that button, which reads the field as it is by then (`Vote`). The vote that
completes a command publishes inside the listener, so `edt` leaves `"idle"` and
neither painting nor voting goes on until the broker has acknowledged
(`CommandArrives`, `CommandAcknowledged`), the publication fails although the
connection is there, for example because the library cannot store the message
(`PublishFails`), or the connection is lost. Readings are in thousandths of a
degree, suggestions in whole degrees. `cast`, the votes since the last
acknowledged command, `failed`, the failed publications among them, and `click`,
what was on the button when it was hit and whether it was removed since, are
history variables.

**SeatPanel.** An observer's `onLoad` is `Load` (one element of the shared array)
followed by `changeState`: `RemoveLabel`, `Choose` once per test of the chain of
`if`s, `MakeLabel`, `AddLabel`. A test reads its three elements in one step;
reading them one by one gives the same kind of outcome, a picture nobody ever
should have seen. The panel is a set of labels because the one on top is the
oldest (the module's head says why); bounds and layout are left out. `lone`
remembers that a redraw began alone on a tidy panel.

**SeatMonitoring.** `Trigger` is `res_event_handler` with its notification,
`Answer` the first GET, `Forget` the end of an observation by a missing
acknowledgement or a reboot, `Lose` the network. The client `Observe`s in the
order of `Main.java`, and `Deliver` is the library's test of freshness followed
by `onLoad`; datagrams are a set, so they overtake each other, and a delivery
may leave a copy behind. A first answer that has to be asked for again counts as
lost, and the mote forgets nobody while that first request is under way. `lost`
is a history variable. That the library never renews the observation by itself
follows from max-age -1 in `res_seat.c`.

**TimeSync.** `Start`, `Subscribe`, `SubscribeFails`, `Synchronize`, `Exit` are
`Main.java` in its order; a constructor that throws ends `main` and leaves the
window and the first subscribers alive. `TimeSynch`, `Publish`, `GoOffline` and
`GoOnline` are the motes, which keep their base when they only lose the
connection and lose it when they reboot. `source` and the field `own` remember
whose message a base stems from. The unit of time is a second, the resolution of
the motes; one reading at a time is on its way to a subscriber. Its specification
is called `SyncSpec`, so that proofs can speak of it beside `TemperatureVoting`.

Each module contains, before some definitions, *variants* of them ("A variant of
..."): plausible mistakes, which `PROJECT.json` pairs with the property that
detects them. They are used by nothing else.

## 3. Runs

| Run | Shows | Distinct states |
|---|---|---|
| `seat` | the seat mote with the code's times and thresholds | 262,774 |
| `noise` | safety, liveness and refinement of the noise mote under all faults | 206,956 |
| `temperature` | safety, liveness and refinement of the temperature mote under all faults, in a small room | 250,104 |
| `voting` | redraws, clicks, their listeners and failing publications in any order | 1,904,713 |
| `seat_panel` | three observers that redraw one panel at once | 846,024 |
| `seat_monitoring` | two observed seats over a lossy network | 547,612 |
| `time_sync` | two starts of the client, two motes that come and go | 939,804 |
| `httpd` | three connections, two blocks, one buffer, lists that change | 635,448 |
| `seat_freed_early`, `temperature_recovers`, `seat_panel_current`, `time_reference` | violations, see section 6 | stop at the first one |

Seat mote. `ResourceMirrorsSeat`: the toggled copy never drifts. `TimersKept`
(`OccupiedIsTimed` and `SensorKeepsMoving`): a timer the mote depends on is
running or its event is queued. `MovementsWithinMode`: the count never exceeds
the threshold of the mode it is in. `WindowKept`: a running observation window
is kept until the seat is taken. `ButtonFrees`, `OccupancyIsRevised`: a press
leads to a free seat; occupation is ended or confirmed again and again.

MQTT motes. `FollowsSession`: the mote implements `MqttSession`, that is, state and
connection go together, topics are subscribed to in order over the one-request
queue, a publication comes only after all answers, the `PROCESS_EXIT` on a full
queue is not reached, and (noise) no `mqtt_connect` comes while the library aborts.
`NoLostWakeUp`: timers are never lost. `MeanIsDefined` (noise): no division by
zero. `OnlineOrSilentlyLost`: once nothing fails, the mote gets online, all topics
answered, and stays so, or is in one of the two states the library never reports.
`KeepsPublishing`: the library takes a publication of a mote that stays online and
synchronised again and again, whatever it refuses in between; not each one, since
the code drops a window that is refused (section 6). `RoomConsistent` (temperature):
samples and commands in any order leave the temperature in range and the LED on
its side of the threshold.

Client. `ClickCountsItsNumber`: between a click and its listener the field holds the
number on the button that was hit, unless that very button has been removed in the
meantime. `SuggestionsFitRoom`: the three suggestions fit the temperature the mote
measured and the range it takes. `CommandCountsVotes`: a command is the mean of all
votes since the last acknowledged one, each counted once; they are as many as the
code asks for and one more for each publication that failed with the connection
up. `ScreenCatchesUp`: when readings stop, the screen shows the suggestions.
`TableShown`, `LoneRedrawRepairs`: the table never vanishes, and one
undisturbed redraw of a tidy panel repairs whatever it showed.
`StaleOnlyAfterLoss`, `ShownUnlessLost`: duplicates, overtaken datagrams and
changes around the registration never leave a wrong state; only a loss does.
`OwnRowsDatedInTime`: a row that counts from the client's own message is dated
between its start and the measurement. `SynchSettles`: when the last message under
way to a mote is the running client's, a reading that counts from it is the next to
reach that client sooner or later, whatever older messages and readings are before
it, unless the client ends, the mote goes offline or the subscriber is lost.

Border router. `PoolAccounts`: each block in use belongs to exactly one connection.
`NeverCallsNull`: not even the call after a timeout reaches a NULL script. Both
hold until a block is given away that a second end of an old connection may free
(`reused`); section 6 says what happens then. `LonePageIsWhole`: a connection that
finds the buffer empty, stays alone and sees no list change gets the page, all of
it, also through retransmissions. `TextHasOrigin`: what is in the buffer is one
piece of each connection inside `SEND` or lost there. `BufferHolds`: it overruns
only with the leftovers of `Room - CONNS + 1` or more connections that were lost
there, none acknowledged in between. `BlocksReturned`: silence keeps no block, unless
the lists change for ever under an iterator.

### Bounds

* `seat`: the constants of the code with a second as the unit (30, 30, 0..7, 7,
  10). At most one press waits in the queue (`PressButton`).
* `noise`: the code's intervals with a quarter of a second as
  the unit (2, 8, 60), the real counter width 65536.
* `temperature`: the code's intervals in the same unit (2, 20), the real window
  of 6; a room of three degrees with a threshold inside it, and commands inside,
  at the ends and outside of its range. The width of the code's range adds nothing:
  a sample moves the temperature by one degree here.
* `voting`: two votes to a command instead of ten, and at most three that no
  acknowledged command has counted; the publication, its failure with and without
  the connection, before and after delivery, and the vote after a failure all
  happen. A range of 18 to 21 and the readings 18.095, whose fraction arrives garbled,
  and 21: each suggestion is limited by the range for one of them.
* `seat_panel`: the three seats and the eight tests of the code, four
  notifications: three at once and one more after the tangle.
* `seat_monitoring`: two seats, so that the elements of the shared array could be
  mixed up, and three changes of each: a change before, during and after the
  registration, and an old datagram overtaken by two newer ones.
* `time_sync`: a clock of two seconds and two starts. A base, a reading and a
  start can each fall on different seconds, and the second start meets a mote
  that still counts from the first.
* `httpd`: the two blocks of the code for three connections, so that one is
  refused and a block is given away while its last owner can still be called; a
  request for the page or another method, in pieces of any size. Two lists, the
  second of them there or not and with one row or none: enough for an iterator to be
  at an entry, behind it, at one that was removed, and in a list that is no longer
  shown. `Room` is 2 instead of 8 or more, so that one dropped connection is enough
  for an overrun.
* The violations use smaller constants so that the counterexamples are short.

No state constraint is used. The queues of the motes stay short by themselves:
nothing but `PressButton` needs a bound. In the client `MaxVotes`, `MaxLoads`,
`MaxChanges`, `MaxTime`, `MaxStarts` are guards of the actions they bound, and
the configurations of `SeatPanel`, `SeatMonitoring`, `time_sync` and `httpd` say
`CHECK_DEADLOCK FALSE` where a system that has used up its bound may stop.

### Time and fairness

In the MQTT motes time passes only when every due timer is posted and every
event handled, since half a second is long compared with handling an event;
a TIMER event is delivered only when all due timers are posted, because the
etimer process is polled before any event is delivered. `FairSpec` assumes weak
fairness of the clock, of the posting of due timers, of the scheduler (the
process is run while it has events), of the broker's answer to a connection
attempt and of the end of a request. All of these are continuously enabled
until they happen. It is not assumed that anyone presses a button, sends
`time_synch`, or that the network fails or heals; `WaitForNetwork` is excluded
only after `Stabilize`.

In the client, threads run and what is on its way arrives unless it is lost:
weak fairness of `Redraw`, `Publishing`, `Observe`, `Answer`, `DeliverLast`,
`Subscribe \/ SubscribeFails`, `Synchronize`, `Receive`, `TimeSynch` and
`Publish`. A requested repaint waits in the first-in first-out queue of the event
thread, where clicks cannot overtake it for ever, hence strong fairness of
`dirty /\ Paint`. Nobody has to vote, to start the client or to bring a mote
online, and no fault has to happen or to end.

In the border router, timers run and uIP goes on with the connections it has: it
polls a silent one, gives up a segment that is never acknowledged, and ends one
that the server has closed. Peers owe nothing. One fairness condition for all
connections is enough, because each of these steps brings one nearer to its end.

## 4. Assumptions on constants

`SeatAssumption`: both chronometers positive, waits and thresholds natural,
at least one wait. `NoiseAssumption`: positive intervals, the sampling interval
not above the send interval (else windows would be empty), and
`SendInterval + 2 * SamplingInterval < CounterSize * SamplingInterval`, which
says that `num_sampling` is wide enough for a window; the code's values meet it
by far. `TemperatureAssumption`: types, and the first temperature in range.
`VotingAssumption`: at least one vote to a command, a proper range, and measured
values within it (the mote clamps them). `PanelAssumption`: finitely many seats, at
least one test; and `TestsAssumption`: every set of observed seats that is not empty
is one of the tests, as in the chain of `ui/SeatPanel.java:73-90`.
`MonitoringAssumption`, `SyncAssumption`: types. `HttpdAssumption`: at least one
block, and lengths for at least one and at most `Lists` lists, none above `MostRows`.

## 5. Proofs

TLAPS proves every invariant and every action property of section 3, and both
refinements, for every value of the constants that meets the assumptions: any
intervals, thresholds, faults, seats, connections, blocks, lists, readings, and
any value of the bounds. TLC has checked each inductive invariant named below on
the instance of its run.

**Motes.** `MoteLemmas` holds what all three rely on: how events are counted in
the queue (`QueuedAppend`, `QueuedTail`, `OnceAppend`, `OnceTail`) and what the
library's operators do to the connection (`MqttEffects`).

* Seat mote: `SeatTypes`, `SeatMirrored`, `SeatTimersKept`,
  `SeatCountsWithinMode` and the action property `SeatWindowKept`. The
  properties together (`SeatSafe`) are inductive over well-typed states; the
  argument for timers is that an event leaves the queue only in the step that
  sets its timer again or no longer needs it.
* Noise mote: `NoiseTypes`. `NoiseSession`: `StateFollowsLink`, `NeverExits`,
  `ConnectNotSwallowed`. None is inductive. `Session` adds which state goes with
  which link, that a request in the slot implies SUBSCRIBED (hence the slot is
  free when the mote subscribes), and `AbortIsCleared`: while the library aborts
  there is exactly one abort event in the queue, and the process either still
  has the poll of the disconnection before it or is in INIT with its periodic
  timer running, so that no TIMER event now in the queue passes `etimer_expired`
  before the abort event is handled.
* `NoiseFollowsSession`: the noise mote implements `MqttSession`. `SessionMapped`
  derives from `Session` that no state is astray. `Answering` is the invariant it
  needs in addition: which answers the connection has recorded in each state,
  so that a subscription is the first request of a session and a publication
  never is. One lemma per group of actions shows which abstract step it is
  (`SubscribeSeen`, `WorkSeen`, `PassSeen`, `DoneSeen`, `CallbackSeen`,
  `KernelSeen`).
* `NoiseWakesUp`: `NoLostWakeUp`. `NoiseMean`: `MeanIsDefined` and
  `WindowBounded`. `Window` adds that while the publish timer runs, samples times
  sampling interval is at most the part of the send interval that is over, plus
  what is left of the sampling timer; and that in a window without samples the
  sampling timer expires first.
* Temperature mote: `TemperatureTypes`, `TemperatureRoomConsistent`,
  `TemperatureWakesUp`, `TemperatureFollowsSession`: it implements `MqttSession`
  with one more way to be stranded, the connect swallowed by an abort.
  The counterpart of `Session` is weaker in one place and stronger in another:
  the mote may wait in CONNECTING while the library aborts (section 6), so
  `AbortIsQueued` says only that there is exactly one abort event as long as it
  does; and with two topics over one slot, `Conversation` lists the five
  combinations of state, slot and answers a live connection can be in.
  That the mote never exits is part of the invariant. `PassHasOutcome`
  reduces each pass of the state machine to one of few outcomes, on which both
  the invariant and the refinement rest.

**Client.**

* Readings: `LevelSurvives`, `SuggestionSurvives`: for every measured value, the
  level stored and the degrees suggested are those of the value itself, because
  the garbled fraction stays below one (`WholeUnitsSurvive`).
* Voting: `VotingTypes`. `VotingClicks` and `VotingSuggestions` come from
  `Redrawing`: a button is out of the panel from before its field may change until
  it has its new label, so that who was hit and is still in the panel carries the
  field's number; field and label follow from the reading in the order of the phases.
  `VotingCommands` comes from `Votes`: what the publisher has collected is what was
  cast since the last acknowledged command, and a publisher that is connected and
  not publishing has fewer votes than it needs, plus those of the failed
  publications.
* Seat panel: `PanelTypes`. `PanelTableShown`, for any seats and tests, is not
  inductive: `Missing` adds that the label of the field is out of the panel only
  while some observer is between `RemoveLabel` and `AddLabel`, and that observer
  will add whatever label the field has by then. `PanelLoneRedraw` follows from
  `Repair`: while an observer redraws alone, each of its steps has left what the
  next one expects, and no test before the one it is at recognises the array.
  Here, and only here, `TestsAssumption` is needed.
* Seat observation: `MonitoringTypes`, `MonitoringStaleOnlyAfterLoss`. The
  invariant `Observation` has three parts for each seat: `Numbering` (a mote is
  silent until asked, and then uses one number for the answer and at most one
  for each change), `Silent`, and `Newest`: as long as nothing was lost, the
  newest number stands for the present state, and who has not accepted it yet
  has it on its way. It bounds the numbers, hence also the types.
* Dating of rows: `SyncTypes`, `SyncOwnRowsDated`. `DatedInOrder` adds to the
  types that a base, and a reading made from it, that stem from the present start
  of the client are not older than its reference, and that nothing is on its way
  to a client that is down, so that no reading meets a reference younger than
  itself.

**Border router.** Four invariants.

* `Shape`, unconditional: the types (`HttpdTypes`: among them that an iterator is
  NULL, inside its list as it is now, or at a removed entry) and what is sound in
  every block, whatever was freed twice and however the lists change.
* `Pool`, until a block is given away too early (`reused`): a block in use has
  one holder, a connection that may be called a second time names a free block,
  and the output of an open connection has a script and a segment under way. It
  gives `HttpdPoolAccounts` and `HttpdNeverCallsNull`.
* `Origin`, until then: the text in the buffer is at most one piece for each
  connection inside `SEND`, counted as a finite set through the blocks
  they hold, plus what was dropped. It gives `HttpdTextHasOrigin` and, since there
  are no more such connections than blocks, `HttpdBufferHolds`.
* `LonePages`, unconditional: what a connection that is alone has got and what
  is under way to it is the page from the headers to the place of its block
  (`UpTo`), piece by piece (`After`, the order of the page), and no other
  connection is open while it is. While it is alone no list changes, so its
  iterator is in its list. It gives `HttpdLonePage`. That `WholePage` is in
  this order needs an argument over its length and over the number of lists;
  it is made by a least counterexample (`Smallest`, from the well-foundedness of
  `<` on the natural numbers), in `PartsAgree`, `FlattenExists` and `ListsArePart`.

Only model-checked: the liveness properties (`ButtonFrees`, `OccupancyIsRevised`,
`OnlineOrSilentlyLost`, `KeepsPublishing`, `ScreenCatchesUp`, `ShownUnlessLost`,
`SynchSettles`, `BlocksReturned`), since fairness and `ENABLED` are out of
the prover's reach. `WindowBounded`, `StateFollowsLink`, `NeverExits` and
`ConnectNotSwallowed` of the noise mote and the two halves of `TimersKept` are
proved by name and need no run of their own.

## 6. Where the code and its comments disagree

Each of these is a run that stops at a violation:

1. An old chronometer event frees a seat that was just taken or confirmed
   (`coap_pir_server.c:83`): `FreedOnlyWhenTimeIsUp`.
2. The temperature mote may never reconnect after a TCP failure
   (`MQTT_server_temperature.c:412`): `Recovers`. The noise mote does, because it
   asks `etimer_expired` (`FollowsSession`, `ConnectNotSwallowed`).
3. Two notifications that arrive together leave an outdated picture in the panel, on
   top of the right one or alone (`ui/SeatPanel.java:97`): `TableIsCurrent`.
4. A client that is started again takes its new reference and subscribes to the
   readings before it sends `time_synch` (`Main.java:25`, 37-42). A mote that is online
   and still counts from the last start is stored with a date later than the
   measurement, in the future: `RowsNotDatedAhead`. A mote that was offline and
   missed the message goes on like that, by the same arithmetic.

Also seen while modelling, and visible in the definitions named:

* a seat nobody took within the first chronometer has no observation window
  (`coap_pir_server.c:98`, `CloseWindow`);
* "almeno" (at least) the threshold of lines 49 and 50 is coded as "more than"
  (`coap_pir_server.c:136` and 160, `TakeOrConfirmSeat`);
* a window is dropped when the library does not take it
  (`MQTT_server_temperature.c:180`, `Notify`);
* subscribed means requested, and a refusal only prints a line
  (`MQTT_server_temperature.c:480` and 318, `SubscribeActuator`, `RequestDone`);
* a refused connection or a missing ping answer strands either mote until a
  reboot (the exclusion in `OnlineOrSilentlyLost`);
* a click between the replacement of a button and the repaint counts another
  temperature than the screen shows (`TemperaturePanel.java:190`, `Click`);
* a click whose button is removed before its listener runs counts the number of the
  next button, which nobody saw yet (`TemperaturePanel.java:115-117`, 147-149 and
  190, 202, 214; `Vote`, the exclusion in `ClickCountsItsNumber`);
* when a publication fails although the connection is there, the counter stays at
  ten and the next vote publishes a mean of eleven (`PublisherTemperature.java:46-52`,
  `PublishFails`, `failed`); when the connection is lost, all later votes are in vain;
* a subscriber whose connection is lost hears nothing until the client is started
  again (`SubscriberNoise.java:43`, `SubscriberLost`, the exclusion in `SynchSettles`);
* a neighbour or a link that comes or goes between two segments may cut the page
  short, repeat or mix its rows, because the iterator is a static pointer into the
  list (`webserver.c:94-96` and 129, `ListsChange`, the exclusion in
  `LonePageIsWhole`);
* leftovers of connections that were dropped inside `SEND` add up, and enough of them
  push `blen` past the 256 bytes of `buf` (`webserver.c:48`, `overrun`, the bound in
  `BufferHolds`);
* a mote that comes online or reboots after the only `time_synch` is never
  synchronised (`Synchronizer.java:38`, `SendSynch`);
* a page that ended inside `SEND` leaves its text in the buffer, and the next page
  starts with it even if nobody else is connected, while `webserver.c:56` warns
  only of simultaneous connections (`dropped`, and the empty buffer that
  `LonePageIsWhole` asks for);
* the second `memb_free` of a connection the peer closed first may free the block
  of a new one and set its script to NULL, which `handle_output` then calls
  (`httpd-simple.c:216`, `EndsAgain`, `reused`);
* a connection the server closes and the peer never does keeps its block for ever
  (`Forget`, the exclusion in `BlocksReturned`);
* the fraction of a reading loses its leading zero (`noise-sensor.c:249`,
  `MQTT_server_temperature.c:156`, `Received`).

## 7. Not modelled, and the plan

Left out, and why: layout and drawing, and `LoudnessPanel` (one label, one thread);
the creation of the tables and the SQL of `DatabaseConnection.java` (text, and
inserts whose failure nothing notices); `server.c` of the border router (it starts
the web server and prints); the log of the web server and its addresses'
formatting; the Cooja scenario and vendored code; the memory leaks of the float
conversions (`noise-sensor.c:161`, unconditional, one per sample); the exact
value of the temperature's exponential average, which is not the mean of its
window (`MQTT_server_temperature.c:195`, any value between the two here).

Two simplifications concern numbers. `TimeSync` counts whole seconds: that the
reference is in milliseconds and the motes truncate to seconds, so that a date may be
up to one second early, is not represented. `HttpdSimple` counts pieces of text and
not bytes.

What is left to do, in this order:

1. An abstract specification of the client's voting (a poll that is open, closed
   or published) and of seat observation (a register that is read late), with
   refinement proofs on top of `Votes` and `Observation`.
2. Lemmas the liveness properties rest on: the steps that bring a connection of
   the border router nearer to its end, a redraw nearer to its repaint.
3. The common part of the two sessions in one place: `NoiseSensorProofs` and
   `TemperatureSensorProofs` follow the same plan.
