-------------------------- MODULE SeatServerProofs --------------------------
(***************************************************************************)
(* Safety of the seat mote for every value of its constants.               *)
(*                                                                         *)
(* The types are inductive on their own.  Over well-typed states each of   *)
(* the four invariants is preserved by every step; what they share is that *)
(* an event never leaves the queue without being handled, which the lemmas *)
(* of MoteLemmas state.                                                    *)
(***************************************************************************)
EXTENDS SeatServer, MoteLemmas

(* The types, by case on the step. *)
THEOREM SeatTypes == Spec => []TypeOK
<1>1. Init => TypeOK
  <2> SUFFICES ASSUME Init
               PROVE  TypeOK
    OBVIOUS
  <2>1. timer \in [Timers -> AnyEtimer]
    <3>1. PICK w \in PirWaits :
            timer = [t \in Timers |->
                      CASE t = "chronometer"  -> EtimerSet(ChronometerTime)
                        [] t = "chronometer2" -> EtimerUnset
                        [] t = "pir"          -> EtimerSet(w)]
      BY DEF Init
    <3>2. /\ EtimerSet(ChronometerTime) \in AnyEtimer
          /\ EtimerSet(w) \in AnyEtimer
          /\ EtimerUnset \in AnyEtimer
      BY SeatAssumption DEF EtimerSet, EtimerUnset, AnyEtimer
    <3>3. QED
      BY <3>1, <3>2 DEF Timers
  <2>2. queue \in Seq(Events)
    BY DEF Init
  <2>3. isSeatFree \in BOOLEAN /\ resFree \in BOOLEAN /\ movements \in Nat
    BY DEF Init
  <2>4. QED
    BY <2>1, <2>2, <2>3 DEF TypeOK
<1>2. TypeOK /\ [Next]_seatVars => TypeOK'
  <2> SUFFICES ASSUME TypeOK, [Next]_seatVars
               PROVE  TypeOK'
    OBVIOUS
  <2> USE SeatAssumption
  <2>0. /\ timer \in [Timers -> AnyEtimer]
        /\ queue \in Seq(Events)
        /\ movements \in Nat
        /\ isSeatFree \in BOOLEAN
        /\ resFree \in BOOLEAN
    BY DEF TypeOK
  <2>1. CASE Tick
    <3>1. \A t \in Timers : EtimerAdvance(timer[t]) \in AnyEtimer
      <4> SUFFICES ASSUME NEW t \in Timers
                   PROVE  EtimerAdvance(timer[t]) \in AnyEtimer
        OBVIOUS
      <4>1. timer[t] \in AnyEtimer
        BY <2>0
      <4>2. QED
        BY <4>1, EtimerType
    <3>2. timer' \in [Timers -> AnyEtimer]
      BY <2>1, <3>1 DEF Tick
    <3>3. QED
      BY <2>0, <2>1, <3>2 DEF Tick, TypeOK
  <2>2. ASSUME NEW t \in Timers, Post(t)
        PROVE  TypeOK'
    <3>1. EtimerPosted(timer[t]) \in AnyEtimer
      BY <2>0 DEF EtimerPosted, AnyEtimer
    <3>2. timer' \in [Timers -> AnyEtimer]
      BY <2>0, <2>2, <3>1 DEF Post
    <3>3. queue' \in Seq(Events)
      BY <2>0, <2>2 DEF Post, Events
    <3>4. QED
      BY <2>0, <2>2, <3>2, <3>3 DEF Post, TypeOK
  <2>3. CASE PressButton
    <3>1. queue' \in Seq(Events)
      BY <2>0, <2>3 DEF PressButton, Events
    <3>2. QED
      BY <2>0, <2>3, <3>1 DEF PressButton, TypeOK
  <2>4. ASSUME NEW n \in Nat
        PROVE  EtimerSet(n) \in AnyEtimer
    BY DEF EtimerSet, AnyEtimer
  <2>5. ASSUME NEW E, Receive(E)
        PROVE  queue' \in Seq(Events)
    BY <2>0, <2>5 DEF Receive
  <2>6. CASE ReleaseSeat
    <3>1. queue' \in Seq(Events)
      BY <2>5, <2>6 DEF ReleaseSeat, FreeSeat
    <3>2. timer' \in [Timers -> AnyEtimer]
      BY <2>0, <2>4, <2>6 DEF ReleaseSeat, FreeSeat
    <3>3. resFree' \in BOOLEAN /\ isSeatFree' \in BOOLEAN
      BY <2>0, <2>6 DEF ReleaseSeat, FreeSeat, Trigger
    <3>4. movements' = 0
      BY <2>6 DEF ReleaseSeat, FreeSeat
    <3>5. QED
      BY <3>1, <3>2, <3>3, <3>4 DEF TypeOK
  <2>7. CASE CloseWindow
    <3>1. queue' \in Seq(Events)
      BY <2>5, <2>7 DEF CloseWindow
    <3>2. timer' \in [Timers -> AnyEtimer]
      BY <2>0, <2>4, <2>7 DEF CloseWindow
    <3>3. QED
      BY <2>0, <2>7, <3>1, <3>2 DEF CloseWindow, TypeOK
  <2>8. CASE CountMovement
    <3>1. queue' \in Seq(Events)
      BY <2>5, <2>8 DEF CountMovement
    <3>2. timer' \in [Timers -> AnyEtimer]
      BY <2>0, <2>4, <2>8 DEF CountMovement
    <3>3. QED
      BY <2>0, <2>8, <3>1, <3>2 DEF CountMovement, TypeOK
  <2>9. CASE TakeOrConfirmSeat
    <3>1. queue' \in Seq(Events)
      BY <2>5, <2>9 DEF TakeOrConfirmSeat
    <3>2. timer' \in [Timers -> AnyEtimer]
      BY <2>0, <2>4, <2>9 DEF TakeOrConfirmSeat
    <3>3. /\ resFree' \in BOOLEAN
          /\ isSeatFree' = FALSE
          /\ movements' = 0
      BY <2>0, <2>9 DEF TakeOrConfirmSeat, Trigger
    <3>4. QED
      BY <3>1, <3>2, <3>3 DEF TypeOK
  <2>10. CASE UNCHANGED seatVars
    BY <2>10 DEF seatVars, TypeOK
  <2>11. QED
    BY <2>1, <2>2, <2>3, <2>6, <2>7, <2>8, <2>9, <2>10 DEF Next, Handle
<1>3. QED
  BY <1>1, <1>2, PTL DEF Spec

(* What the mote keeps on time and in agreement. *)
SeatSafe ==
  /\ ResourceMirrorsSeat
  /\ OccupiedIsTimed
  /\ SensorKeepsMoving
  /\ MovementsWithinMode

(* Taking an event out of the queue keeps every other event pending. *)
LEMMA ReceiveKeeps ==
  ASSUME TypeOK, NEW E, Receive(E)
  PROVE  /\ Head(queue) \in E
         /\ \A e : Queued(queue, e) /\ e \notin E => Queued(queue', e)
<1>1. queue \in Seq(Events) /\ queue # <<>> /\ queue' = Tail(queue) /\ Head(queue) \in E
  BY DEF TypeOK, Receive
<1>2. QED
  BY <1>1, QueuedTail

(* Posting an event keeps the others pending and makes that one so. *)
LEMMA AppendKeeps ==
  ASSUME TypeOK, NEW e \in Events, queue' = Append(queue, e)
  PROVE  /\ Queued(queue', e)
         /\ \A x : Queued(queue, x) => Queued(queue', x)
<1>1. queue \in Seq(Events)
  BY DEF TypeOK
<1>2. QED
  BY <1>1, QueuedAppend

(* A pending timer that no handler consumes stays pending. *)
LEMMA PendingKept ==
  ASSUME TypeOK, NEW t \in Timers, Pending(t),
         \/ Tick
         \/ \E s \in Timers : Post(s)
         \/ PressButton
  PROVE  Pending(t)'
<1>1. CASE Tick
  <2>1. timer[t] \in AnyEtimer
    BY DEF TypeOK
  <2>2. EtimerAdvance(timer[t]).armed = timer[t].armed
    BY <2>1, EtimerType
  <2>3. QED
    BY <1>1, <2>2 DEF Tick, Pending
<1>2. ASSUME NEW s \in Timers, Post(s)
      PROVE  Pending(t)'
  <2>1. /\ Queued(queue', s)
        /\ \A x : Queued(queue, x) => Queued(queue', x)
    BY <1>2, AppendKeeps DEF Post, Events
  <2>2. CASE s = t
    BY <2>1, <2>2 DEF Pending
  <2>3. CASE s # t
    <3>1. timer'[t] = timer[t]
      BY <1>2, <2>3 DEF Post, TypeOK
    <3>2. QED
      BY <2>1, <3>1 DEF Pending
  <2>4. QED
    BY <2>2, <2>3
<1>3. CASE PressButton
  <2>1. \A x : Queued(queue, x) => Queued(queue', x)
    BY <1>3, AppendKeeps DEF PressButton, Events
  <2>2. QED
    BY <1>3, <2>1 DEF PressButton, Pending
<1>4. QED
  BY <1>1, <1>2, <1>3

(* A handler that only arms timers and consumes events of E keeps every    *)
(* other timer pending.                                                    *)
LEMMA PendingKeptByHandler ==
  ASSUME TypeOK, NEW E, Receive(E), NEW t \in Timers, t \notin E, Pending(t),
         timer'[t] = timer[t] \/ timer'[t].armed
  PROVE  Pending(t)'
<1>1. \A e : Queued(queue, e) /\ e \notin E => Queued(queue', e)
  BY ReceiveKeeps
<1>2. QED
  BY <1>1 DEF Pending

(* The kernel's steps change nothing the process decides on. *)
LEMMA KernelStep ==
  ASSUME Tick \/ (\E s \in Timers : Post(s)) \/ PressButton
  PROVE  UNCHANGED <<isSeatFree, movements, resFree>>
  BY DEF Tick, Post, PressButton

(* The conjunction of the four invariants is inductive over well-typed     *)
(* states.                                                                 *)
LEMMA SeatSafeInvariant == Spec => []SeatSafe
<1>1. Init => SeatSafe
  <2> SUFFICES ASSUME Init
               PROVE  SeatSafe
    OBVIOUS
  <2>1. timer["pir"].armed
    <3>1. PICK w \in PirWaits :
            timer = [t \in Timers |->
                      CASE t = "chronometer"  -> EtimerSet(ChronometerTime)
                        [] t = "chronometer2" -> EtimerUnset
                        [] t = "pir"          -> EtimerSet(w)]
      BY DEF Init
    <3>2. timer["pir"] = EtimerSet(w)
      BY <3>1 DEF Timers
    <3>3. QED
      BY <3>2 DEF EtimerSet
  <2>2. isSeatFree = TRUE /\ resFree = TRUE /\ movements = 0
    BY DEF Init
  <2>3. QED
    BY <2>1, <2>2, SeatAssumption
    DEF SeatSafe, ResourceMirrorsSeat, OccupiedIsTimed, SensorKeepsMoving,
        MovementsWithinMode, Pending, Threshold
<1>2. TypeOK /\ SeatSafe /\ [Next]_seatVars => SeatSafe'
  <2> SUFFICES ASSUME TypeOK, SeatSafe, [Next]_seatVars
               PROVE  SeatSafe'
    OBVIOUS
  <2> USE SeatAssumption
  <2>0. /\ resFree = isSeatFree
        /\ ~isSeatFree => Pending("chronometer")
        /\ Pending("pir")
        /\ movements <= Threshold(isSeatFree)
        /\ isSeatFree \in BOOLEAN
        /\ movements \in Nat
        /\ timer \in [Timers -> AnyEtimer]
    BY DEF SeatSafe, ResourceMirrorsSeat, OccupiedIsTimed, SensorKeepsMoving,
           MovementsWithinMode, TypeOK
  <2>a. SUFFICES /\ resFree' = isSeatFree'
                 /\ ~isSeatFree' => Pending("chronometer")'
                 /\ Pending("pir")'
                 /\ movements' <= Threshold(isSeatFree')
    BY DEF SeatSafe, ResourceMirrorsSeat, OccupiedIsTimed, SensorKeepsMoving,
           MovementsWithinMode
  <2>b. /\ "chronometer" \in Timers
        /\ "chronometer2" \in Timers
        /\ "pir" \in Timers
    BY DEF Timers
  <2>c. \A n \in Nat : EtimerSet(n).armed
    BY DEF EtimerSet
  <2>1. CASE Tick \/ (\E s \in Timers : Post(s)) \/ PressButton
    <3>1. UNCHANGED <<isSeatFree, movements, resFree>>
      BY <2>1, KernelStep
    <3>2. \A t \in Timers : Pending(t) => Pending(t)'
      BY <2>1, PendingKept
    <3>3. QED
      BY <2>0, <2>b, <3>1, <3>2
  <2>2. CASE ReleaseSeat
    <3>1. Receive({"chronometer", "button"}) /\ movements' = 0 /\ isSeatFree'
      BY <2>0, <2>2 DEF ReleaseSeat, FreeSeat
    <3>2. resFree' = isSeatFree'
      BY <2>0, <2>2 DEF ReleaseSeat, FreeSeat, Trigger
    <3>3. timer'["pir"] = timer["pir"]
      BY <2>0, <2>b, <2>2 DEF ReleaseSeat, FreeSeat
    <3>4. Pending("pir")'
      BY <2>0, <2>b, <3>1, <3>3, PendingKeptByHandler
    <3>5. QED
      BY <3>1, <3>2, <3>4 DEF Threshold
  <2>3. CASE CloseWindow
    <3>1. Receive({"chronometer2"}) /\ UNCHANGED <<isSeatFree, resFree>>
      BY <2>3 DEF CloseWindow
    <3>2. /\ timer'["pir"] = timer["pir"]
          /\ timer'["chronometer"] = timer["chronometer"]
      BY <2>0, <2>b, <2>3 DEF CloseWindow
    <3>3. /\ Pending("pir")'
          /\ ~isSeatFree => Pending("chronometer")'
      BY <2>0, <2>b, <3>1, <3>2, PendingKeptByHandler
    <3>4. movements' = 0 \/ movements' = movements
      BY <2>3 DEF CloseWindow
    <3>5. QED
      BY <2>0, <3>1, <3>3, <3>4 DEF Threshold
  <2>4. CASE CountMovement
    <3>1. /\ Receive({"pir"})
          /\ UNCHANGED <<isSeatFree, resFree>>
          /\ movements' <= Threshold(isSeatFree)
      BY <2>4 DEF CountMovement
    <3>2. PICK w \in PirWaits : timer' = [timer EXCEPT !["pir"] = EtimerSet(w)]
      BY <2>4 DEF CountMovement
    <3>3. timer'["pir"].armed /\ timer'["chronometer"] = timer["chronometer"]
      BY <2>0, <2>b, <2>c, <3>2
    <3>4. ~isSeatFree => Pending("chronometer")'
      BY <2>0, <2>b, <3>1, <3>3, PendingKeptByHandler
    <3>5. QED
      BY <2>0, <3>1, <3>3, <3>4 DEF Pending
  <2>5. CASE TakeOrConfirmSeat
    <3>1. isSeatFree' = FALSE /\ movements' = 0
      BY <2>5 DEF TakeOrConfirmSeat
    <3>2. resFree' = FALSE
      BY <2>0, <2>5 DEF TakeOrConfirmSeat, Trigger
    <3>3. PICK w \in PirWaits :
            timer' = [timer EXCEPT !["chronometer"] = EtimerSet(ChronometerTime),
                                   !["pir"] = EtimerSet(w)]
      BY <2>5 DEF TakeOrConfirmSeat
    <3>4. timer'["pir"].armed /\ timer'["chronometer"].armed
      BY <2>0, <2>b, <2>c, <3>3
    <3>5. Pending("pir")' /\ Pending("chronometer")'
      BY <3>4 DEF Pending
    <3>6. movements' <= Threshold(isSeatFree')
      BY <3>1 DEF Threshold
    <3>7. QED
      BY <3>1, <3>2, <3>5, <3>6
  <2>6. CASE UNCHANGED seatVars
    BY <2>0, <2>6 DEF seatVars, Pending
  <2>7. QED
    BY <2>1, <2>2, <2>3, <2>4, <2>5, <2>6 DEF Next, Handle
<1>3. QED
  BY <1>1, <1>2, SeatTypes, PTL DEF Spec

(* What a GET or a notification reports is what the process decided,       *)
(* although the resource only toggles its own flag (res_seat.c:68).        *)
THEOREM SeatMirrored == Spec => []ResourceMirrorsSeat
<1>1. SeatSafe => ResourceMirrorsSeat
  BY DEF SeatSafe
<1>2. QED
  BY <1>1, SeatSafeInvariant, PTL

(* An occupied seat always has a chronometer event on its way, and the     *)
(* sensor the event of its next movement, whatever the intervals and       *)
(* however presses and timers interleave (coap_pir_server.c:83-175).       *)
THEOREM SeatTimersKept == Spec => []TimersKept
<1>1. SeatSafe => TimersKept
  BY DEF SeatSafe, TimersKept, OccupiedIsTimed, SensorKeepsMoving
<1>2. QED
  BY <1>1, SeatSafeInvariant, PTL

(* Movements counted in one mode never leak into the other, whatever the   *)
(* two thresholds (coap_pir_server.c:83-160).                              *)
THEOREM SeatCountsWithinMode == Spec => []MovementsWithinMode
<1>1. SeatSafe => MovementsWithinMode
  BY DEF SeatSafe
<1>2. QED
  BY <1>1, SeatSafeInvariant, PTL

(* Every release opens an observation window, and the window of a free     *)
(* seat goes on until the seat is taken (coap_pir_server.c:97-117).        *)
THEOREM SeatWindowKept == Spec => WindowKept
<1> DEFINE W == isSeatFree' /\ (~isSeatFree \/ Pending("chronometer2"))
                  => Pending("chronometer2")'
<1>1. TypeOK /\ [Next]_seatVars => [W]_seatVars
  <2> SUFFICES ASSUME TypeOK, Next, isSeatFree',
                      ~isSeatFree \/ Pending("chronometer2")
               PROVE  Pending("chronometer2")'
    BY DEF seatVars
  <2>0. /\ timer \in [Timers -> AnyEtimer]
        /\ "chronometer2" \in Timers
    BY DEF TypeOK, Timers
  <2>1. EtimerSet(ChronometerTime2).armed
    BY DEF EtimerSet
  <2>2. CASE Tick \/ (\E s \in Timers : Post(s)) \/ PressButton
    <3>1. isSeatFree' = isSeatFree
      BY <2>2, KernelStep
    <3>2. QED
      BY <2>0, <2>2, <3>1, PendingKept
  <2>3. CASE ReleaseSeat
    <3>1. CASE ~isSeatFree
      <4>1. timer' = [timer EXCEPT !["chronometer2"] = EtimerSet(ChronometerTime2)]
        BY <2>3, <3>1 DEF ReleaseSeat, FreeSeat
      <4>2. timer'["chronometer2"].armed
        BY <2>0, <2>1, <4>1
      <4>3. QED
        BY <4>2 DEF Pending
    <3>2. CASE isSeatFree
      <4>1. Receive({"chronometer", "button"}) /\ timer' = timer
        BY <2>3, <3>2 DEF ReleaseSeat, FreeSeat
      <4>2. QED
        BY <2>0, <3>2, <4>1, PendingKeptByHandler
    <3>3. QED
      BY <3>1, <3>2
  <2>4. CASE CloseWindow
    <3>1. timer' = [timer EXCEPT !["chronometer2"] = EtimerSet(ChronometerTime2)]
      BY <2>4 DEF CloseWindow
    <3>2. timer'["chronometer2"].armed
      BY <2>0, <2>1, <3>1
    <3>3. QED
      BY <3>2 DEF Pending
  <2>5. CASE CountMovement
    <3>1. Receive({"pir"}) /\ isSeatFree' = isSeatFree
      BY <2>5 DEF CountMovement
    <3>2. timer'["chronometer2"] = timer["chronometer2"]
      BY <2>0, <2>5 DEF CountMovement
    <3>3. QED
      BY <2>0, <3>1, <3>2, PendingKeptByHandler
  <2>6. CASE TakeOrConfirmSeat
    BY <2>6 DEF TakeOrConfirmSeat
  <2>7. QED
    BY <2>2, <2>3, <2>4, <2>5, <2>6 DEF Next, Handle
<1>2. QED
  BY <1>1, SeatTypes, PTL DEF Spec, WindowKept
=============================================================================
