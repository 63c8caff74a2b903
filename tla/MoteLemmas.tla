----------------------------- MODULE MoteLemmas -----------------------------
(***************************************************************************)
(* Facts about the kernel and the MQTT library that the proofs about the   *)
(* motes share: what posting to a queue and receiving from it do to the    *)
(* events in it, and what the calls and events of the library preserve.    *)
(***************************************************************************)
EXTENDS Etimer, MqttEngine, TLAPS

(* A posted event is in the queue, and posting loses no event. *)
LEMMA QueuedAppend ==
  ASSUME NEW S, NEW q \in Seq(S), NEW e \in S
  PROVE  /\ Append(q, e) \in Seq(S)
         /\ Queued(Append(q, e), e)
         /\ \A x : Queued(q, x) => Queued(Append(q, e), x)
<1>1. /\ Append(q, e) \in Seq(S)
      /\ Len(Append(q, e)) = Len(q) + 1
      /\ Append(q, e)[Len(q) + 1] = e
      /\ \A i \in 1..Len(q) : Append(q, e)[i] = q[i]
  OBVIOUS
<1>2. Len(q) \in Nat
  OBVIOUS
<1>3. QED
  BY <1>1, <1>2 DEF Queued

(* Receiving the oldest event loses no other event. *)
LEMMA QueuedTail ==
  ASSUME NEW S, NEW q \in Seq(S), q # <<>>
  PROVE  /\ Head(q) \in S
         /\ Tail(q) \in Seq(S)
         /\ \A x : Queued(q, x) /\ x # Head(q) => Queued(Tail(q), x)
<1>1. /\ Head(q) \in S
      /\ Tail(q) \in Seq(S)
      /\ Head(q) = q[1]
      /\ Len(q) \in Nat \ {0}
      /\ Len(Tail(q)) = Len(q) - 1
      /\ \A i \in 1..Len(Tail(q)) : Tail(q)[i] = q[i + 1]
  OBVIOUS
<1>2. ASSUME NEW x, Queued(q, x), x # Head(q)
      PROVE  Queued(Tail(q), x)
  <2>1. PICK i \in 1..Len(q) : q[i] = x
    BY <1>2 DEF Queued
  <2>2. i # 1
    BY <1>1, <1>2, <2>1
  <2>3. i - 1 \in 1..Len(Tail(q)) /\ Tail(q)[i - 1] = x
    BY <1>1, <2>1, <2>2
  <2>4. QED
    BY <2>3 DEF Queued
<1>3. QED
  BY <1>1, <1>2

(* Event e waits at most once in the queue q. *)
AtMostOnce(q, e) == \A i, j \in 1..Len(q) : q[i] = e /\ q[j] = e => i = j

(* Posting another event, or an event that was not there, keeps an event   *)
(* from waiting twice.                                                     *)
LEMMA OnceAppend ==
  ASSUME NEW S, NEW q \in Seq(S), NEW e \in S, NEW x, AtMostOnce(q, x)
  PROVE  /\ e # x => AtMostOnce(Append(q, e), x)
         /\ e # x => (Queued(Append(q, e), x) <=> Queued(q, x))
         /\ ~Queued(q, x) => AtMostOnce(Append(q, e), x)
<1>1. /\ Len(Append(q, e)) = Len(q) + 1
      /\ Append(q, e)[Len(q) + 1] = e
      /\ \A i \in 1..Len(q) : Append(q, e)[i] = q[i]
      /\ Len(q) \in Nat
  OBVIOUS
<1>2. \A i \in 1..Len(Append(q, e)) : i \in 1..Len(q) \/ i = Len(q) + 1
  BY <1>1
<1>3. \A i \in 1..Len(q) : i \in 1..Len(Append(q, e))
  BY <1>1
<1>4. e # x => AtMostOnce(Append(q, e), x)
  BY <1>1, <1>2 DEF AtMostOnce
<1>5. e # x => (Queued(Append(q, e), x) <=> Queued(q, x))
  BY <1>1, <1>2, <1>3 DEF Queued
<1>6. ~Queued(q, x) => AtMostOnce(Append(q, e), x)
  BY <1>1, <1>2 DEF Queued, AtMostOnce
<1>7. QED
  BY <1>4, <1>5, <1>6

(* Once received, such an event is gone; receiving another leaves it.      *)
LEMMA OnceTail ==
  ASSUME NEW S, NEW q \in Seq(S), q # <<>>, NEW x, AtMostOnce(q, x)
  PROVE  /\ AtMostOnce(Tail(q), x)
         /\ Head(q) = x => ~Queued(Tail(q), x)
         /\ Head(q) # x => (Queued(Tail(q), x) <=> Queued(q, x))
<1>1. /\ Head(q) = q[1]
      /\ Len(q) \in Nat \ {0}
      /\ Len(Tail(q)) = Len(q) - 1
      /\ \A i \in 1..Len(Tail(q)) : Tail(q)[i] = q[i + 1]
  OBVIOUS
<1>2. \A i \in 1..Len(Tail(q)) : i + 1 \in 1..Len(q) /\ i + 1 # 1
  BY <1>1
<1>3. AtMostOnce(Tail(q), x)
  <2> SUFFICES ASSUME NEW i \in 1..Len(Tail(q)), NEW j \in 1..Len(Tail(q)),
                      Tail(q)[i] = x, Tail(q)[j] = x
               PROVE  i = j
    BY DEF AtMostOnce
  <2>1. i + 1 = j + 1
    BY <1>1, <1>2 DEF AtMostOnce
  <2>2. QED
    BY <2>1
<1>4. Head(q) = x => ~Queued(Tail(q), x)
  <2> SUFFICES ASSUME Head(q) = x, NEW i \in 1..Len(Tail(q)), Tail(q)[i] = x
               PROVE  FALSE
    BY DEF Queued
  <2>1. q[i + 1] = x /\ q[1] = x /\ i + 1 \in 1..Len(q) /\ 1 \in 1..Len(q)
    BY <1>1, <1>2
  <2>2. i + 1 = 1
    BY <2>1 DEF AtMostOnce
  <2>3. QED
    BY <1>2, <2>2
<1>5. Queued(Tail(q), x) => Queued(q, x)
  BY <1>1, <1>2 DEF Queued
<1>6. Queued(q, x) /\ x # Head(q) => Queued(Tail(q), x)
  BY QueuedTail
<1>7. QED
  BY <1>3, <1>4, <1>5, <1>6

(* Setting, advancing and posting a timer keep it a timer; only posting    *)
(* disarms it.                                                             *)
LEMMA EtimerType ==
  ASSUME NEW t \in AnyEtimer, NEW n \in Nat
  PROVE  /\ EtimerSet(n) \in AnyEtimer
         /\ EtimerSet(n).armed
         /\ EtimerAdvance(t) \in AnyEtimer
         /\ EtimerAdvance(t).armed = t.armed
         /\ EtimerPosted(t) \in AnyEtimer
         /\ EtimerPosted(t).left = t.left /\ ~EtimerPosted(t).armed
         /\ EtimerUnset \in AnyEtimer
<1>1. EtimerSet(n) \in AnyEtimer /\ EtimerSet(n).armed
  BY DEF EtimerSet, AnyEtimer
<1>2. /\ EtimerPosted(t) \in AnyEtimer
      /\ EtimerPosted(t).left = t.left /\ ~EtimerPosted(t).armed
  BY DEF EtimerPosted, AnyEtimer
<1>3. EtimerAdvance(t) \in AnyEtimer
  <2>1. CASE t.armed /\ t.left > 0
    <3>1. t.left - 1 \in Nat
      BY <2>1 DEF AnyEtimer
    <3>2. [t EXCEPT !.left = @ - 1] \in AnyEtimer
      BY <3>1 DEF AnyEtimer
    <3>3. QED
      BY <2>1, <3>2 DEF EtimerAdvance
  <2>2. CASE ~(t.armed /\ t.left > 0)
    BY <2>2 DEF EtimerAdvance
  <2>3. QED
    BY <2>1, <2>2
<1>4. EtimerAdvance(t).armed = t.armed
  BY DEF EtimerAdvance, AnyEtimer
<1>5. EtimerUnset \in AnyEtimer
  BY DEF EtimerUnset, AnyEtimer
<1>6. QED
  BY <1>1, <1>2, <1>3, <1>4, <1>5

-----------------------------------------------------------------------------
(* Every operator returns a connection. *)
LEMMA MqttTypes ==
  ASSUME NEW T, NEW c \in MqttConnection(T), NEW r \in T \cup {"publish"}
  PROVE  /\ MqttRegistered \in MqttConnection(T)
         /\ MqttConnect(c) \in MqttConnection(T)
         /\ MqttRequest(c, r) \in MqttConnection(T)
         /\ MqttAccepted(c) \in MqttConnection(T)
         /\ MqttRefused(c) \in MqttConnection(T)
         /\ MqttTcpLost(c) \in MqttConnection(T)
         /\ MqttAborted(c) \in MqttConnection(T)
         /\ MqttPingLost(c) \in MqttConnection(T)
<1>1. MqttRegistered \in MqttConnection(T)
  BY DEF MqttRegistered, MqttConnection, Links
<1>2. MqttConnect(c) \in MqttConnection(T)
  BY DEF MqttConnect, MqttConnection, Links
<1>3. MqttRequest(c, r) \in MqttConnection(T)
  BY DEF MqttRequest, MqttConnection, Links
<1>4. MqttAccepted(c) \in MqttConnection(T)
  BY DEF MqttAccepted, MqttConnection, Links
<1>5. MqttTcpLost(c) \in MqttConnection(T)
  BY <1>1 DEF MqttTcpLost, MqttConnection, Links
<1>6. MqttPingLost(c) \in MqttConnection(T)
  BY DEF MqttPingLost, MqttConnection, Links
<1>7. QED
  BY <1>1, <1>2, <1>3, <1>4, <1>5, <1>6 DEF MqttRefused, MqttAborted

(* A request that is over leaves the slot free and the link as it was. *)
LEMMA MqttDoneFrees ==
  ASSUME NEW T, "publish" \notin T, "free" \notin T,
         NEW c \in MqttConnection(T), c.slot # "free", NEW g \in BOOLEAN
  PROVE  /\ MqttDone(c, g) \in MqttConnection(T)
         /\ MqttDone(c, g).slot = "free"
         /\ MqttDone(c, g).link = c.link
<1>1. /\ c = [link |-> c.link, slot |-> c.slot, granted |-> c.granted, refused |-> c.refused]
      /\ c.link \in Links /\ c.slot \in {"free", "publish"} \cup T
      /\ c.granted \subseteq T /\ c.refused \subseteq T
  BY DEF MqttConnection
<1>2. PICK granted \in SUBSET T, refused \in SUBSET T :
        MqttDone(c, g) = [link |-> c.link, slot |-> "free", granted |-> granted, refused |-> refused]
  <2>1. CASE c.slot = "publish"
    <3>1. MqttDone(c, g) = [c EXCEPT !.slot = "free"]
      BY <2>1 DEF MqttDone
    <3> QED
      BY <1>1, <3>1
  <2>2. CASE c.slot # "publish" /\ g
    <3>1. MqttDone(c, g) = [c EXCEPT !.slot = "free", !.granted = @ \cup {c.slot}]
      BY <2>2 DEF MqttDone
    <3>2. c.granted \cup {c.slot} \subseteq T
      BY <1>1, <2>2
    <3> QED
      BY <1>1, <3>1, <3>2
  <2>3. CASE c.slot # "publish" /\ ~g
    <3>1. MqttDone(c, g) = [c EXCEPT !.slot = "free", !.refused = @ \cup {c.slot}]
      BY <2>3 DEF MqttDone
    <3>2. c.refused \cup {c.slot} \subseteq T
      BY <1>1, <2>3
    <3> QED
      BY <1>1, <3>1, <3>2
  <2> QED
    BY <2>1, <2>2, <2>3
<1> QED
  BY <1>1, <1>2 DEF MqttConnection

(* The link and the slot after a call or an event. *)
LEMMA MqttEffects ==
  ASSUME NEW T, NEW c \in MqttConnection(T), NEW r \in T \cup {"publish"}
  PROVE  /\ MqttConnect(c).slot = c.slot
         /\ c.link \in {"down", "closed"} => MqttConnect(c).link = "connecting"
         /\ c.link \notin {"down", "closed"} => MqttConnect(c) = c
         /\ MqttRequest(c, r).link = c.link
         /\ MqttStatus(c) # "OUT_QUEUE_FULL" => c.link # "up" \/ c.slot = "free"
         /\ c.slot = "free" => MqttStatus(c) # "OUT_QUEUE_FULL"
         /\ MqttAccepted(c).link = "up" /\ MqttAccepted(c).slot = c.slot
         /\ MqttRefused(c).link = "down" /\ MqttRefused(c).slot = "free"
         /\ MqttTcpLost(c).link = "aborting" /\ MqttTcpLost(c).slot = "free"
         /\ MqttAborted(c).link = "down" /\ MqttAborted(c).slot = "free"
         /\ MqttPingLost(c).link = "closed" /\ MqttPingLost(c).slot = c.slot
  BY DEF MqttConnect, MqttRequest, MqttStatus, MqttAccepted, MqttRefused,
         MqttTcpLost, MqttAborted, MqttPingLost, MqttRegistered, MqttConnection
=============================================================================
