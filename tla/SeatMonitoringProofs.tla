------------------------ MODULE SeatMonitoringProofs -----------------------
(* Theorems about SeatMonitoring, for any number of seats and of changes.  *)
EXTENDS SeatMonitoring, TLAPS

(* The mote has not answered the client's request. *)
Unanswered(s) ==
  \/ request[s] = "none"
  \/ request[s] = "sent" /\ ~observed[s]

(* A mote speaks to the client only once it is asked, and then once for    *)
(* the request and at most once for each change.                           *)
Numbering(s) ==
  /\ Unanswered(s) => ~observed[s] /\ number[s] = 0 /\ net[s] = {}
  /\ ~Unanswered(s) => number[s] <= changes[s] + 1
  /\ observed[s] => number[s] >= 1
  /\ latest[s] <= number[s]
  /\ \A m \in net[s] : m.number \in 1 .. number[s]

(* An observer that has heard nothing yet. *)
Silent(s) == request[s] # "done" => latest[s] = 0

(* As long as nothing was lost, the newest number stands for the present   *)
(* state: who has accepted it shows that state, and to everyone else it is *)
(* on its way.                                                             *)
Newest(s) ==
  ~lost[s] =>
    /\ request[s] # "failed"
    /\ request[s] = "done" => observed[s]
    /\ \A m \in net[s] : m.number = number[s] => m.free = isFree[s]
    /\ observed[s] =>
         IF latest[s] = number[s]
         THEN state[s] = isFree[s]
         ELSE [number |-> number[s], free |-> isFree[s]] \in net[s]

Observation == \A s \in Seats : Numbering(s) /\ Silent(s) /\ Newest(s)

(* What the mote s and its observer may do. *)
SeatStep(s) ==
  \/ Answer(s) \/ Trigger(s) \/ Forget(s)
  \/ Observe(s) \/ RequestFails(s)
  \/ \E m \in net[s] : Lose(s, m) \/ Deliver(s, m)

(* Everything that belongs to one seat. *)
Seat(s) ==
  <<isFree[s], observed[s], number[s], changes[s], net[s],
    request[s], latest[s], state[s], lost[s]>>

-----------------------------------------------------------------------------
(* Observers write into one array, each its own element of it              *)
(* (SeatMonitoring.java:38): identifier and element match.                 *)
LEMMA OwnElement == \A s \in Seats : Element(s + 3) = s
  BY MonitoringAssumption DEF Seats, Element

(* A datagram that is sent has a type the number it carries allows.        *)
LEMMA SendTypes ==
  ASSUME TypeOK, NEW s \in Seats, NEW free \in BOOLEAN, Send(s, free),
         number[s] + 1 <= MaxChanges + 1
  PROVE  /\ number' \in [Seats -> 0 .. MaxChanges + 1]
         /\ net' \in [Seats -> SUBSET Datagrams]
<1>1. number' = [number EXCEPT ![s] = number[s] + 1] /\ number[s] + 1 \in 1 .. MaxChanges + 1
  BY MonitoringAssumption DEF Send, TypeOK
<1>2. number' \in [Seats -> 0 .. MaxChanges + 1] /\ number'[s] \in 1 .. MaxChanges + 1
  BY <1>1, MonitoringAssumption DEF TypeOK
<1>3. [number |-> number'[s], free |-> free] \in Datagrams
  BY <1>2 DEF Datagrams
<1> QED
  BY <1>2, <1>3 DEF Send, TypeOK

LEMMA StepTypes ==
  ASSUME TypeOK, Observation, NEW s \in Seats, SeatStep(s)
  PROVE  TypeOK'
<1> USE MonitoringAssumption
<1>0. Numbering(s)
  BY DEF Observation
<1>1. CASE Answer(s)
  <2>1. Send(s, isFree[s]) /\ number[s] + 1 <= MaxChanges + 1
    BY <1>0, <1>1 DEF Answer, Numbering, Unanswered
  <2>2. isFree[s] \in BOOLEAN
    BY DEF TypeOK
  <2> QED
    BY <1>1, <2>1, <2>2, SendTypes DEF Answer, TypeOK, clientVars
<1>2. CASE Trigger(s)
  <2>1. changes' \in [Seats -> 0 .. MaxChanges] /\ isFree' \in [Seats -> BOOLEAN]
    BY <1>2 DEF Trigger, TypeOK
  <2>2. /\ number' \in [Seats -> 0 .. MaxChanges + 1]
        /\ net' \in [Seats -> SUBSET Datagrams]
    <3>1. CASE observed[s]
      <4>1. Send(s, isFree'[s]) /\ number[s] + 1 <= MaxChanges + 1
        BY <1>0, <1>2, <3>1 DEF Trigger, Numbering, Unanswered, TypeOK
      <4>2. isFree'[s] \in BOOLEAN
        BY <2>1
      <4> QED
        BY <4>1, <4>2, SendTypes
    <3>2. CASE ~observed[s]
      BY <1>2, <3>2 DEF Trigger, TypeOK
    <3> QED
      BY <3>1, <3>2
  <2> QED
    BY <1>2, <2>1, <2>2 DEF Trigger, TypeOK, clientVars
<1>3. CASE Forget(s)
  BY <1>3 DEF Forget, TypeOK, clientVars
<1>4. CASE Observe(s)
  BY <1>4 DEF Observe, TypeOK, moteVars
<1>5. CASE RequestFails(s)
  BY <1>5 DEF RequestFails, TypeOK, moteVars
<1>6. ASSUME NEW m \in net[s], Lose(s, m)
      PROVE  TypeOK'
  BY <1>6 DEF Lose, TypeOK, moteVars, clientVars
<1>7. ASSUME NEW m \in net[s], Deliver(s, m)
      PROVE  TypeOK'
  <2>1. m.number \in 0 .. MaxChanges + 1 /\ m.free \in BOOLEAN
    BY DEF TypeOK, Datagrams
  <2>2. /\ latest' \in [Seats -> 0 .. MaxChanges + 1]
        /\ state' \in [Seats -> BOOLEAN]
    BY <1>7, <2>1, OwnElement DEF Deliver, OnLoad, TypeOK
  <2>3. net' \in [Seats -> SUBSET Datagrams]
    BY <1>7 DEF Deliver, TypeOK
  <2> QED
    BY <1>7, <2>2, <2>3 DEF Deliver, TypeOK, moteVars
<1> QED
  BY <1>1, <1>2, <1>3, <1>4, <1>5, <1>6, <1>7 DEF SeatStep

(* What happens to one seat does not touch the others. *)
LEMMA OthersUntouched ==
  ASSUME TypeOK, NEW s \in Seats, NEW u \in Seats \ {s}, SeatStep(s)
  PROVE  UNCHANGED Seat(u)
<1> USE DEF Seat, TypeOK, moteVars, clientVars
<1>1. CASE Answer(s)
  BY <1>1 DEF Answer, Send
<1>2. CASE Trigger(s)
  BY <1>2 DEF Trigger, Send
<1>3. CASE Forget(s)
  BY <1>3 DEF Forget
<1>4. CASE Observe(s)
  BY <1>4 DEF Observe
<1>5. CASE RequestFails(s)
  BY <1>5 DEF RequestFails
<1>6. ASSUME NEW m \in net[s], Lose(s, m)
      PROVE  UNCHANGED Seat(u)
  BY <1>6 DEF Lose
<1>7. ASSUME NEW m \in net[s], Deliver(s, m)
      PROVE  UNCHANGED Seat(u)
  BY <1>7, OwnElement DEF Deliver, OnLoad
<1> QED
  BY <1>1, <1>2, <1>3, <1>4, <1>5, <1>6, <1>7 DEF SeatStep

(* The seat itself keeps its part of the invariant. *)
LEMMA OwnSeatKept ==
  ASSUME TypeOK, NEW s \in Seats, SeatStep(s), Numbering(s), Silent(s), Newest(s)
  PROVE  Numbering(s)' /\ Silent(s)' /\ Newest(s)'
<1> USE MonitoringAssumption
<1>0. /\ number[s] \in Nat /\ changes[s] \in Nat /\ latest[s] \in Nat
      /\ isFree[s] \in BOOLEAN /\ observed[s] \in BOOLEAN
      /\ \A m \in net[s] : m.number \in Nat
  BY DEF TypeOK, Datagrams
<1>1. CASE Answer(s)
  <2>1. /\ number'[s] = 1 /\ observed'[s]
        /\ net'[s] = {[number |-> 1, free |-> isFree[s]]}
        /\ request'[s] = "sent" /\ latest'[s] = 0 /\ isFree'[s] = isFree[s]
        /\ changes'[s] = changes[s] /\ lost'[s] = lost[s]
    BY <1>1 DEF Answer, Send, TypeOK, clientVars, Numbering, Unanswered, Silent
  <2> QED
    BY <1>0, <2>1 DEF Numbering, Unanswered, Silent, Newest
<1>2. CASE Trigger(s)
  <2>1. /\ request'[s] = request[s] /\ latest'[s] = latest[s] /\ state'[s] = state[s]
        /\ lost'[s] = lost[s] /\ observed'[s] = observed[s]
        /\ changes'[s] = changes[s] + 1
    BY <1>2 DEF Trigger, TypeOK, clientVars
  <2>2. CASE observed[s]
    <3>1. /\ number'[s] = number[s] + 1
          /\ net'[s] = net[s] \cup {[number |-> number[s] + 1, free |-> isFree'[s]]}
      BY <1>2, <2>2 DEF Trigger, Send, TypeOK
    <3>2. ~Unanswered(s) /\ ~Unanswered(s)' /\ Silent(s)'
      BY <2>1, <2>2 DEF Numbering, Unanswered, Silent
    <3>3. number'[s] \in Nat /\ number'[s] <= changes'[s] + 1 /\ latest'[s] < number'[s]
      BY <1>0, <2>1, <3>1, <3>2 DEF Numbering
    <3>4. \A m \in net'[s] : \/ m.number \in 1 .. number[s]
                             \/ m = [number |-> number'[s], free |-> isFree'[s]]
      BY <3>1 DEF Numbering
    <3>5. Numbering(s)'
      <4>1. \A m \in net'[s] : m.number \in 1 .. number'[s]
        BY <1>0, <3>1, <3>4
      <4> QED
        BY <1>0, <2>1, <3>1, <3>2, <3>3, <4>1 DEF Numbering, Unanswered
    <3>6. Newest(s)'
      <4>1. \A m \in net'[s] : m.number = number'[s] => m.free = isFree'[s]
        BY <1>0, <3>1, <3>4
      <4> QED
        BY <1>0, <2>1, <2>2, <3>1, <3>3, <4>1 DEF Newest
    <3> QED
      BY <3>2, <3>5, <3>6
  <2>3. CASE ~observed[s]
    <3>1. number'[s] = number[s] /\ net'[s] = net[s]
      BY <1>2, <2>3 DEF Trigger
    <3>2. ~lost[s] => Unanswered(s)
      BY <2>3 DEF Newest, Unanswered, TypeOK
    <3> QED
      BY <1>0, <2>1, <2>3, <3>1, <3>2 DEF Numbering, Unanswered, Silent, Newest
  <2> QED
    BY <2>2, <2>3
<1>3. CASE Forget(s)
  <2>1. /\ lost'[s] /\ request[s] \in {"done", "failed"} /\ request'[s] = request[s]
        /\ number'[s] = number[s] /\ changes'[s] = changes[s] /\ net'[s] = net[s]
        /\ latest'[s] = latest[s] /\ observed'[s] = FALSE
    BY <1>3 DEF Forget, TypeOK, clientVars
  <2> QED
    BY <1>0, <2>1 DEF Numbering, Unanswered, Silent, Newest
<1>4. CASE Observe(s)
  <2>1. /\ request[s] = "none" /\ request'[s] = "sent"
        /\ UNCHANGED <<isFree, observed, number, changes, net, latest, state, lost>>
    BY <1>4 DEF Observe, TypeOK, moteVars
  <2> QED
    BY <1>0, <2>1 DEF Numbering, Unanswered, Silent, Newest
<1>5. CASE RequestFails(s)
  <2>1. /\ request[s] = "sent" /\ request'[s] = "failed" /\ lost'[s]
        /\ UNCHANGED <<isFree, observed, number, changes, net, latest, state>>
    BY <1>5 DEF RequestFails, TypeOK, moteVars
  <2> QED
    BY <1>0, <2>1 DEF Numbering, Unanswered, Silent, Newest
<1>6. ASSUME NEW m \in net[s], Lose(s, m)
      PROVE  Numbering(s)' /\ Silent(s)' /\ Newest(s)'
  <2>1. /\ net'[s] = net[s] \ {m} /\ lost'[s]
        /\ UNCHANGED <<isFree, observed, number, changes, request, latest, state>>
    BY <1>6 DEF Lose, TypeOK, moteVars, clientVars
  <2> QED
    BY <1>0, <2>1 DEF Numbering, Unanswered, Silent, Newest
<1>7. ASSUME NEW m \in net[s], Deliver(s, m)
      PROVE  Numbering(s)' /\ Silent(s)' /\ Newest(s)'
  <2>1. /\ request[s] \in {"sent", "done"} /\ request'[s] = "done"
        /\ net'[s] \in {net[s], net[s] \ {m}}
        /\ UNCHANGED <<isFree, observed, number, changes, lost>>
    BY <1>7 DEF Deliver, TypeOK, moteVars
  <2>2. /\ m.number \in 1 .. number[s] /\ ~Unanswered(s)
        /\ ~lost[s] => observed[s]
    BY <2>1 DEF Numbering, Unanswered, Newest
  <2>3. m \in [number : Nat, free : BOOLEAN]
    BY DEF TypeOK, Datagrams
  <2>4. CASE m.number > latest[s]
    <3>1. latest'[s] = m.number /\ state'[s] = m.free
      BY <1>7, <2>4, OwnElement DEF Deliver, Newer, OnLoad, TypeOK
    <3> QED
      BY <1>0, <2>1, <2>2, <2>3, <2>4, <3>1 DEF Numbering, Unanswered, Silent, Newest
  <2>5. CASE ~(m.number > latest[s])
    <3>1. latest'[s] = latest[s] /\ state'[s] = state[s]
      BY <1>7, <2>5 DEF Deliver, Newer
    <3> QED
      BY <1>0, <2>1, <2>2, <2>3, <2>5, <3>1 DEF Numbering, Unanswered, Silent, Newest
  <2> QED
    BY <2>4, <2>5
<1> QED
  BY <1>1, <1>2, <1>3, <1>4, <1>5, <1>6, <1>7 DEF SeatStep

LEMMA ObservationInductive ==
  /\ Init => TypeOK /\ Observation
  /\ TypeOK /\ Observation /\ [Next]_monitoringVars => (TypeOK /\ Observation)'
<1>1. Init => TypeOK /\ Observation
  BY MonitoringAssumption
  DEF Init, TypeOK, Observation, Numbering, Unanswered, Silent, Newest, Datagrams
<1>2. ASSUME TypeOK, Observation, NEW s \in Seats, SeatStep(s)
      PROVE  (TypeOK /\ Observation)'
  <2>1. TypeOK'
    BY <1>2, StepTypes
  <2>2. Numbering(s)' /\ Silent(s)' /\ Newest(s)'
    BY <1>2, OwnSeatKept DEF Observation
  <2>3. ASSUME NEW u \in Seats \ {s}
        PROVE  Numbering(u)' /\ Silent(u)' /\ Newest(u)'
    <3>1. UNCHANGED Seat(u)
      BY <1>2, OthersUntouched
    <3> QED
      BY <1>2, <3>1 DEF Seat, Observation, Numbering, Unanswered, Silent, Newest
  <2> QED
    BY <2>1, <2>2, <2>3 DEF Observation
<1>3. ASSUME TypeOK, Observation, UNCHANGED monitoringVars
      PROVE  (TypeOK /\ Observation)'
  BY <1>3 DEF TypeOK, Observation, Numbering, Unanswered, Silent, Newest,
              monitoringVars, moteVars, clientVars
<1> QED
  BY <1>1, <1>2, <1>3 DEF Next, SeatStep

(* Every variable of motes, network and observers keeps its type; in       *)
(* particular a mote never uses more numbers than the answer and one for   *)
(* each change (res_seat.c:41-75).                                         *)
THEOREM MonitoringTypes == Spec => []TypeOK
<1> QED
  BY ObservationInductive, PTL DEF Spec

(* An observer that is not up to date although nothing was lost has the    *)
(* present state on its way, under a number it will accept                 *)
(* (SeatMonitoring.java:33-49).                                            *)
THEOREM MonitoringStaleOnlyAfterLoss == Spec => []StaleOnlyAfterLoss
<1>1. TypeOK /\ Observation => StaleOnlyAfterLoss
  BY DEF Observation, Newest, StaleOnlyAfterLoss
<1> QED
  BY <1>1, ObservationInductive, PTL DEF Spec
=============================================================================
