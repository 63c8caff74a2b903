----------------------------- MODULE SeatServer -----------------------------
(***************************************************************************)
(* The seat mote: the process Coap_Pir_server (coap_pir_server.c) and the  *)
(* observable CoAP resource it drives (resources/res_seat.c).              *)
(*                                                                         *)
(* The process sleeps on one event queue.  Three event timers and the      *)
(* button post to it; each event is handled in one uninterrupted step, and *)
(* between two steps anything may be posted.  An event says which timer    *)
(* fired, not whether that timer is still expired when it is read.         *)
(***************************************************************************)
EXTENDS Etimer

CONSTANTS
  ChronometerTime,     \* CHRONOMETER_MAXIMUM_TIME, in clock units
  ChronometerTime2,    \* CHRONOMETER_MAXIMUM_TIME2
  PirWaits,            \* the values of random_rand() % PIR_MAXIMUM_WAIT, which
                       \* is (random_rand() % CLOCK_SECOND) * 8: zero included
  OccupiedThreshold,   \* OCCUPIED_THRESHOLD
  FreeThreshold        \* FREE_THRESHOLD

ASSUME SeatAssumption ==
  /\ ChronometerTime \in Nat \ {0}
  /\ ChronometerTime2 \in Nat \ {0}
  /\ PirWaits \subseteq Nat /\ PirWaits # {}
  /\ OccupiedThreshold \in Nat
  /\ FreeThreshold \in Nat

Timers == {"chronometer", "chronometer2", "pir"}
Events == Timers \cup {"button"}

VARIABLES
  isSeatFree,    \* is_seat_free of the process
  movements,     \* total_of_movements
  resFree,       \* is_free of the resource: what observers are told
  timer,         \* the three etimers
  queue          \* events posted to the process, oldest first

seatVars == <<isSeatFree, movements, resFree, timer, queue>>

-----------------------------------------------------------------------------

Init ==
  /\ isSeatFree = TRUE
  /\ movements = 0
  /\ resFree = TRUE
  /\ \E w \in PirWaits :
       timer = [t \in Timers |->
                  CASE t = "chronometer"  -> EtimerSet(ChronometerTime)
                    [] t = "chronometer2" -> EtimerUnset
                    [] t = "pir"          -> EtimerSet(w)]
  /\ queue = <<>>

(* Kernel: time passes, a due timer is posted, the button is pressed.      *)
(* Bound: at most one press waits in the queue.                            *)
Tick ==
  /\ timer' = [t \in Timers |-> EtimerAdvance(timer[t])]
  /\ UNCHANGED <<isSeatFree, movements, resFree, queue>>

Post(t) ==
  /\ EtimerDue(timer[t])
  /\ timer' = [timer EXCEPT ![t] = EtimerPosted(@)]
  /\ queue' = Append(queue, t)
  /\ UNCHANGED <<isSeatFree, movements, resFree>>

PressButton ==
  /\ ~Queued(queue, "button")
  /\ queue' = Append(queue, "button")
  /\ UNCHANGED <<isSeatFree, movements, resFree, timer>>

(* PROCESS_WAIT_EVENT returned the oldest event, one of E. *)
Receive(E) ==
  /\ queue # <<>>
  /\ Head(queue) \in E
  /\ queue' = Tail(queue)

(* res_seat.trigger(): the resource switches its own copy of the state and *)
(* notifies the observers of the result.                                   *)
Trigger == resFree' = ~resFree

(* The seat becomes free and its observation window starts. *)
FreeSeat ==
  /\ isSeatFree' = TRUE
  /\ Trigger
  /\ timer' = [timer EXCEPT !["chronometer2"] = EtimerSet(ChronometerTime2)]

(* Variants of ReleaseSeat: without the test of is_seat_free, without the  *)
(* reset of the counter, and deaf to the button.                           *)
ReleaseSeatAlways ==
  /\ Receive({"chronometer", "button"})
  /\ movements' = 0
  /\ FreeSeat

ReleaseSeatKeepingCount ==
  /\ Receive({"chronometer", "button"})
  /\ UNCHANGED movements
  /\ IF ~isSeatFree THEN FreeSeat ELSE UNCHANGED <<isSeatFree, resFree, timer>>

ReleaseSeatOnTimeOnly ==
  /\ Receive({"chronometer", "button"})
  /\ movements' = 0
  /\ IF ~isSeatFree /\ Head(queue) = "chronometer"
     THEN FreeSeat
     ELSE UNCHANGED <<isSeatFree, resFree, timer>>

(* The chronometer ran out or the button was pressed: an occupied seat is  *)
(* released; the movements are counted afresh in any case.                 *)
ReleaseSeat ==
  /\ Receive({"chronometer", "button"})
  /\ movements' = 0
  /\ \/ ~isSeatFree /\ FreeSeat
     \/ isSeatFree /\ UNCHANGED <<isSeatFree, resFree, timer>>

(* A variant of CloseWindow that does not restart the window. *)
CloseWindowOnce ==
  /\ Receive({"chronometer2"})
  /\ movements' = IF isSeatFree THEN 0 ELSE movements
  /\ UNCHANGED <<isSeatFree, resFree, timer>>

(* The window of a free seat is over: movements are counted afresh. *)
CloseWindow ==
  /\ Receive({"chronometer2"})
  /\ \/ /\ isSeatFree
        /\ movements' = 0
        /\ timer' = [timer EXCEPT !["chronometer2"] = EtimerSet(ChronometerTime2)]
     \/ /\ ~isSeatFree
        /\ UNCHANGED <<movements, timer>>
  /\ UNCHANGED <<isSeatFree, resFree>>

(* The count above which the process acts. *)
Threshold(free) == IF free THEN OccupiedThreshold ELSE FreeThreshold

(* A variant of CountMovement whose wait is one less, below zero at times. *)
CountMovementEarly ==
  /\ Receive({"pir"})
  /\ movements + 1 <= Threshold(isSeatFree)
  /\ movements' = movements + 1
  /\ \E w \in PirWaits : timer' = [timer EXCEPT !["pir"] = EtimerSet(w - 1)]
  /\ UNCHANGED <<isSeatFree, resFree>>

(* One movement below or at the threshold is only counted. *)
CountMovement ==
  /\ Receive({"pir"})
  /\ movements + 1 <= Threshold(isSeatFree)
  /\ movements' = movements + 1
  /\ \E w \in PirWaits : timer' = [timer EXCEPT !["pir"] = EtimerSet(w)]
  /\ UNCHANGED <<isSeatFree, resFree>>

(* A variant of TakeOrConfirmSeat that leaves before it sets the timers. *)
TakeSeatUntimed ==
  /\ Receive({"pir"})
  /\ movements + 1 > Threshold(isSeatFree)
  /\ movements' = 0
  /\ isSeatFree' = FALSE
  /\ IF isSeatFree THEN Trigger ELSE UNCHANGED resFree
  /\ UNCHANGED timer

(* One movement above it: a free seat becomes occupied, an occupied one is *)
(* confirmed; either way the chronometer starts again.                     *)
TakeOrConfirmSeat ==
  /\ Receive({"pir"})
  /\ movements + 1 > Threshold(isSeatFree)
  /\ movements' = 0
  /\ isSeatFree' = FALSE
  /\ IF isSeatFree THEN Trigger ELSE UNCHANGED resFree
  /\ \E w \in PirWaits :
       timer' = [timer EXCEPT !["chronometer"] = EtimerSet(ChronometerTime),
                              !["pir"] = EtimerSet(w)]

Handle == ReleaseSeat \/ CloseWindow \/ CountMovement \/ TakeOrConfirmSeat

Next == Tick \/ (\E t \in Timers : Post(t)) \/ PressButton \/ Handle

Spec == Init /\ [][Next]_seatVars

(* The clock never stops, the etimer process is polled whenever a timer is *)
(* due, and the scheduler runs the process while its queue is not empty.   *)
(* Nobody has to press the button.                                         *)
FairSpec ==
  /\ Spec
  /\ WF_seatVars(Tick)
  /\ \A t \in Timers : WF_seatVars(Post(t))
  /\ WF_seatVars(Handle)

-----------------------------------------------------------------------------
(* Properties *)

(* An event of timer t is on its way: it will be delivered. *)
Pending(t) == timer[t].armed \/ Queued(queue, t)

(* Every variable stays in its range, and the resource is a boolean of its *)
(* own: nothing in the types makes it agree with the process.              *)
TypeOK ==
  /\ isSeatFree \in BOOLEAN
  /\ movements \in Nat
  /\ resFree \in BOOLEAN
  /\ timer \in [Timers -> AnyEtimer]
  /\ queue \in Seq(Events)

(* What a GET or a notification reports is the state the process decides   *)
(* on, although res_seat.c only toggles its own flag (res_seat.c:68).      *)
ResourceMirrorsSeat == resFree = isSeatFree

(* An occupied seat is never occupied for ever by mistake: the chronometer *)
(* is running or its event is already in the queue.                        *)
OccupiedIsTimed == ~isSeatFree => Pending("chronometer")

(* The simulated sensor never falls silent (coap_pir_server.c:174). *)
SensorKeepsMoving == Pending("pir")

(* No timer the seat depends on is ever lost. *)
TimersKept == OccupiedIsTimed /\ SensorKeepsMoving

(* Movements counted in one mode never leak into the other: the counter is *)
(* never above the threshold of the mode the seat is in, so that the next  *)
(* movement alone cannot take a seat that has just been released.          *)
MovementsWithinMode == movements <= Threshold(isSeatFree)

(* Once the window of a free seat runs it keeps running until the seat is  *)
(* taken, and every release starts one (coap_pir_server.c:97-117).         *)
WindowKept ==
  [][isSeatFree' /\ (~isSeatFree \/ Pending("chronometer2"))
       => Pending("chronometer2")']_seatVars

(* A press is never ignored: the seat is free after it was handled. *)
ButtonFrees == Queued(queue, "button") ~> isSeatFree

(* An occupied seat does not stay occupied unconfirmed: it is freed again  *)
(* and again, or confirmed by enough movements again and again.            *)
OccupancyIsRevised == []<>isSeatFree \/ []<><<TakeOrConfirmSeat>>_seatVars

(* Expected to fail.  The chronometer restarted at coap_pir_server.c:168   *)
(* gives the seat another full CHRONOMETER_MAXIMUM_TIME: an occupied seat  *)
(* is freed by the chronometer only when it has run out.                   *)
FreedOnlyWhenTimeIsUp ==
  [][ReleaseSeat /\ ~isSeatFree /\ Head(queue) = "chronometer"
       => EtimerExpired(timer["chronometer"])]_seatVars

=============================================================================
