---------------------------- MODULE SeatMonitoring --------------------------
(***************************************************************************)
(* The observation of the seats by the client: the resource of each mote   *)
(* (CoAP_pir_server/resources/res_seat.c), the datagrams between, and the  *)
(* observers of the client (seatMonitoring/SeatMonitoring.java), which     *)
(* Main.java creates one after the other and which share one array.        *)
(*                                                                         *)
(* A notification is a datagram: it may be lost, arrive twice or be        *)
(* overtaken.  Each carries a number, and the client's CoAP library drops  *)
(* the ones that are not newer than the last.  The reply never expires     *)
(* (max-age -1), so the library never renews an observation.               *)
(***************************************************************************)
EXTENDS Naturals, FiniteSets

CONSTANTS
  NumSeats,     \* number of seat motes; mote i has the identifier i + 3
  MaxChanges    \* bound: number of changes of a seat

ASSUME MonitoringAssumption ==
  /\ NumSeats \in Nat \ {0}
  /\ MaxChanges \in Nat

Seats == 1 .. NumSeats

VARIABLES
  isFree,      \* mote: is_free of the resource
  observed,    \* mote: it has the client in its list of observers
  number,      \* mote: number of its last answer or notification
  changes,     \* number of changes so far
  net,         \* the datagrams on their way to the client
  request,     \* client: none, sent, done or failed
  latest,      \* client: number of the newest datagram it has accepted
  state,       \* client: the shared array
  lost         \* history: a fault has kept something from the client

moteVars == <<isFree, observed, number, changes>>
clientVars == <<request, latest, state>>
monitoringVars == <<moteVars, net, clientVars, lost>>

-----------------------------------------------------------------------------

Init ==
  /\ isFree = [s \in Seats |-> TRUE]
  /\ observed = [s \in Seats |-> FALSE]
  /\ number = [s \in Seats |-> 0]
  /\ changes = [s \in Seats |-> 0]
  /\ net = [s \in Seats |-> {}]
  /\ request = [s \in Seats |-> "none"]
  /\ latest = [s \in Seats |-> 0]
  /\ state = [s \in Seats |-> TRUE]
  /\ lost = [s \in Seats |-> FALSE]

-----------------------------------------------------------------------------
(* The motes. *)

(* A variant of Send that counts afterwards. *)
SendThenCount(s, free) ==
  /\ number' = [number EXCEPT ![s] = @ + 1]
  /\ net' = [net EXCEPT ![s] = @ \cup {[number |-> number[s], free |-> free]}]

(* res_get_handler, for the observer: the state goes out under the next    *)
(* number.                                                                 *)
Send(s, free) ==
  /\ number' = [number EXCEPT ![s] = @ + 1]
  /\ net' = [net EXCEPT ![s] = @ \cup {[number |-> number'[s], free |-> free]}]

(* The mote answers the request and remembers the observer.  That a lost   *)
(* answer is asked for again is left out: it counts as lost.               *)
Answer(s) ==
  /\ request[s] = "sent"
  /\ ~observed[s]
  /\ observed' = [observed EXCEPT ![s] = TRUE]
  /\ Send(s, isFree[s])
  /\ UNCHANGED <<isFree, changes, clientVars, lost>>

(* A variant of Trigger that notifies before it switches the state. *)
TriggerNotifyFirst(s) ==
  /\ changes[s] < MaxChanges
  /\ changes' = [changes EXCEPT ![s] = @ + 1]
  /\ isFree' = [isFree EXCEPT ![s] = ~@]
  /\ IF observed[s] THEN Send(s, isFree[s]) ELSE UNCHANGED <<number, net>>
  /\ UNCHANGED <<observed, clientVars, lost>>

(* res_event_handler: the seat changes, and its observer is notified. *)
Trigger(s) ==
  /\ changes[s] < MaxChanges
  /\ changes' = [changes EXCEPT ![s] = @ + 1]
  /\ isFree' = [isFree EXCEPT ![s] = ~@]
  /\ IF observed[s] THEN Send(s, isFree'[s]) ELSE UNCHANGED <<number, net>>
  /\ UNCHANGED <<observed, clientVars, lost>>

(* A confirmable notification is not acknowledged: the observer is         *)
(* dropped.  Or the mote is rebooted: it drops it, too, and believes the   *)
(* seat to be free.  Bound: not while the first request is on its way.     *)
Forget(s) ==
  /\ request[s] \in {"done", "failed"}
  /\ observed[s]
  /\ observed' = [observed EXCEPT ![s] = FALSE]
  /\ isFree' \in {isFree, [isFree EXCEPT ![s] = TRUE]}
  /\ lost' = [lost EXCEPT ![s] = TRUE]
  /\ UNCHANGED <<number, changes, net, clientVars>>

(* The network loses a datagram. *)
Lose(s, m) ==
  /\ m \in net[s]
  /\ net' = [net EXCEPT ![s] = @ \ {m}]
  /\ lost' = [lost EXCEPT ![s] = TRUE]
  /\ UNCHANGED <<moteVars, clientVars>>

-----------------------------------------------------------------------------
(* The client. *)

(* Main creates the observers in the order of the seats; the constructor   *)
(* sends the request and does not wait.                                    *)
Observe(s) ==
  /\ request[s] = "none"
  /\ \A u \in 1 .. s - 1 : request[u] # "none"
  /\ request' = [request EXCEPT ![s] = "sent"]
  /\ UNCHANGED <<moteVars, net, latest, state, lost>>

(* onError only prints a line.  The request is given up. *)
RequestFails(s) ==
  /\ request[s] = "sent"
  /\ request' = [request EXCEPT ![s] = "failed"]
  /\ lost' = [lost EXCEPT ![s] = TRUE]
  /\ UNCHANGED <<moteVars, net, latest, state>>

(* The element of the array an observer writes: id - 4, counted from 0. *)
Element(id) == id - 4 + 1

(* The state of the message is stored, and the table redrawn (SeatPanel).  *)
OnLoad(s, m) == state' = [state EXCEPT ![Element(s + 3)] = m.free]

(* A variant of Newer, which takes datagrams as they come. *)
NewerOrNot(s, m) == TRUE

(* The library's test. *)
Newer(s, m) == m.number > latest[s]

(* A datagram arrives; it may have been duplicated. *)
Deliver(s, m) ==
  /\ m \in net[s]
  /\ request[s] \in {"sent", "done"}
  /\ request' = [request EXCEPT ![s] = "done"]
  /\ net' \in {net, [net EXCEPT ![s] = @ \ {m}]}
  /\ IF Newer(s, m)
     THEN /\ latest' = [latest EXCEPT ![s] = m.number]
          /\ OnLoad(s, m)
     ELSE UNCHANGED <<latest, state>>
  /\ UNCHANGED <<moteVars, lost>>

(* The last copy of a datagram arrives. *)
DeliverLast(s) == \E m \in net[s] : Deliver(s, m) /\ net'[s] = net[s] \ {m}

Next ==
  \E s \in Seats :
    \/ Answer(s) \/ Trigger(s) \/ Forget(s)
    \/ Observe(s) \/ RequestFails(s)
    \/ \E m \in net[s] : Lose(s, m) \/ Deliver(s, m)

Spec == Init /\ [][Next]_monitoringVars

(* The client's main thread runs, a request is repeated until it is        *)
(* answered or given up, and a datagram that is not lost arrives.          *)
FairSpec ==
  /\ Spec
  /\ \A s \in Seats :
       /\ WF_monitoringVars(Observe(s))
       /\ WF_monitoringVars(Answer(s))
       /\ WF_monitoringVars(DeliverLast(s))

-----------------------------------------------------------------------------
(* Properties *)

Datagrams == [number : 1 .. MaxChanges + 1, free : BOOLEAN]

TypeOK ==
  /\ isFree \in [Seats -> BOOLEAN]
  /\ observed \in [Seats -> BOOLEAN]
  /\ number \in [Seats -> 0 .. MaxChanges + 1]
  /\ changes \in [Seats -> 0 .. MaxChanges]
  /\ net \in [Seats -> SUBSET Datagrams]
  /\ request \in [Seats -> {"none", "sent", "done", "failed"}]
  /\ latest \in [Seats -> 0 .. MaxChanges + 1]
  /\ state \in [Seats -> BOOLEAN]
  /\ lost \in [Seats -> BOOLEAN]

(* Registration, changes, duplicates and overtaken datagrams in any order: *)
(* an observer that is not up to date, although nothing was lost, has the  *)
(* present state on its way, under the newest number.                      *)
StaleOnlyAfterLoss ==
  \A s \in Seats :
    request[s] = "done" /\ ~lost[s] /\ state[s] # isFree[s]
      => [number |-> number[s], free |-> isFree[s]] \in net[s]

(* When a seat changes no more, the client shows it in the end, or         *)
(* something was lost that nobody ever asks for again.                     *)
ShownUnlessLost ==
  \A s \in Seats : <>(lost[s] \/ [](request[s] = "done" /\ state[s] = isFree[s]))
=============================================================================
