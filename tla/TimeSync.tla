------------------------------- MODULE TimeSync -----------------------------
(***************************************************************************)
(* How a reading gets its date.  The client (Main.java) takes its start as *)
(* the time reference, subscribes to the readings, and asks all motes once *)
(* (synch/Synchronizer.java) to count from now.  A mote publishes with a   *)
(* reading the seconds since then, and the subscribers                     *)
(* (temperature/SubscriberTemperature.java, noise/SubscriberNoise.java)    *)
(* store it under reference + seconds (DatabaseConnection.java).           *)
(*                                                                         *)
(* Everything goes through a broker, with quality of service 0 at the      *)
(* motes, nothing retained and no lasting session: a message reaches who   *)
(* is connected and subscribed when it is published.  The client and the   *)
(* motes come and go independently of each other.                          *)
(***************************************************************************)
EXTENDS Integers, Sequences

CONSTANTS
  MaxTime,     \* bound: the clock, in seconds
  MaxStarts    \* bound: starts of the client

ASSUME SyncAssumption ==
  /\ MaxTime \in Nat
  /\ MaxStarts \in Nat

(* The subscribers, in the order in which Main creates them. *)
Topics == <<"temperature", "noise">>
Motes == {"temperature", "noise"}

Never == -1
NoRow == [reference |-> Never, dated |-> Never, measured |-> Never, own |-> FALSE]

VARIABLES
  now,          \* the time
  starts,       \* starts of the client so far
  main,         \* client: down, starting, running, or failed in between
  made,         \* client: number of subscribers created
  reference,    \* client: time_reference
  listening,    \* client: motes whose subscriber is connected
  online,       \* motes that are connected and subscribed to time_synch
  base,         \* mote: time_synch or base_time; Never before a message
  source,       \* history: the start of the client the base stems from
  synch,        \* starts whose time_synch is on its way to the mote
  reading,      \* readings on their way to the client
  row           \* the last row stored for the mote

clientVars == <<starts, main, made, reference, listening>>
moteVars == <<online, base, source>>
dataVars == <<reading, row>>
syncVars == <<now, clientVars, moteVars, synch, dataVars>>

-----------------------------------------------------------------------------

SyncInit ==
  /\ now = 0
  /\ starts = 0
  /\ main = "down"
  /\ made = 0
  /\ reference = Never
  /\ listening = {}
  /\ online \in SUBSET Motes
  /\ base = [m \in Motes |-> Never]
  /\ source = [m \in Motes |-> 0]
  /\ synch = [m \in Motes |-> <<>>]
  /\ reading = [m \in Motes |-> <<>>]
  /\ row = [m \in Motes |-> NoRow]

Tick ==
  /\ now < MaxTime
  /\ now' = now + 1
  /\ UNCHANGED <<clientVars, moteVars, synch, dataVars>>

-----------------------------------------------------------------------------
(* The client. *)

Start ==
  /\ main = "down"
  /\ starts < MaxStarts
  /\ starts' = starts + 1
  /\ main' = "starting"
  /\ made' = 0
  /\ reference' = now
  /\ UNCHANGED <<now, listening, moteVars, synch, dataVars>>

(* The constructor of the next subscriber connects and subscribes. *)
Subscribe ==
  /\ main = "starting"
  /\ made < Len(Topics)
  /\ made' = made + 1
  /\ listening' = listening \cup {Topics[made']}
  /\ UNCHANGED <<now, starts, main, reference, moteVars, synch, dataVars>>

(* It throws: main ends, but the window and the subscribers made so far    *)
(* stay.                                                                   *)
SubscribeFails ==
  /\ main = "starting"
  /\ made < Len(Topics)
  /\ main' = "failed"
  /\ UNCHANGED <<now, starts, made, reference, listening, moteVars, synch, dataVars>>

(* time_synch is published: it is on its way to the motes online. *)
SendSynch ==
  synch' = [m \in Motes |-> IF m \in online THEN Append(synch[m], starts) ELSE synch[m]]

(* The constructor of the synchroniser sends one message; an exception is  *)
(* caught there and main goes on.                                          *)
Synchronize ==
  /\ main = "starting"
  /\ made = Len(Topics)
  /\ main' = "running"
  /\ SendSynch \/ UNCHANGED synch
  /\ UNCHANGED <<now, starts, made, reference, listening, moteVars, dataVars>>

(* The window is closed, which ends the whole client, and what is on its   *)
(* way to it is lost.                                                      *)
Exit ==
  /\ main # "down"
  /\ main' = "down"
  /\ listening' = {}
  /\ reading' = [m \in Motes |-> <<>>]
  /\ UNCHANGED <<now, starts, made, reference, moteVars, synch, row>>

(* connectionLost does nothing: the subscriber hears nothing any more. *)
SubscriberLost(m) ==
  /\ m \in listening
  /\ listening' = listening \ {m}
  /\ reading' = [reading EXCEPT ![m] = <<>>]
  /\ UNCHANGED <<now, starts, main, made, reference, moteVars, synch, row>>

(* A variant of Dated with the wrong sign. *)
DatedBackwards(r) == reference - r.elapsed

(* 1000 * timestamp + time_reference, in seconds. *)
Dated(r) == reference + r.elapsed

(* messageArrived: the reading is dated and inserted.  An insert that      *)
(* fails only prints a line.                                               *)
Receive(m) ==
  /\ reading[m] # <<>>
  /\ LET r == Head(reading[m]) IN
       row' \in {row, [row EXCEPT ![m] = [reference |-> reference,
                                          dated     |-> Dated(r),
                                          measured  |-> r.measured,
                                          own       |-> r.source = starts]]}
  /\ reading' = [reading EXCEPT ![m] = Tail(@)]
  /\ UNCHANGED <<now, clientVars, moteVars, synch>>

-----------------------------------------------------------------------------
(* The motes. *)

(* pub_handler: the mote counts from now. *)
TimeSynch(m) ==
  /\ synch[m] # <<>>
  /\ synch' = [synch EXCEPT ![m] = Tail(@)]
  /\ base' = [base EXCEPT ![m] = now]
  /\ source' = [source EXCEPT ![m] = Head(synch[m])]
  /\ UNCHANGED <<now, clientVars, online, dataVars>>

(* A variant of HasBase that takes a base of zero for none. *)
HasPositiveBase(m) == base[m] > 0

HasBase(m) == base[m] # Never

(* A mote with a base publishes; the broker passes it to the subscriber.   *)
(* Bound: one reading on its way.                                          *)
Publish(m) ==
  /\ m \in online
  /\ HasBase(m)
  /\ m \in listening
  /\ reading[m] = <<>>
  /\ reading' = [reading EXCEPT ![m] =
       Append(@, [elapsed |-> now - base[m], measured |-> now, source |-> source[m]])]
  /\ UNCHANGED <<now, clientVars, moteVars, synch, row>>

(* The mote loses its connection, and keeps its base; or it is rebooted    *)
(* and keeps nothing.                                                      *)
GoOffline(m) ==
  /\ m \in online
  /\ online' = online \ {m}
  /\ synch' = [synch EXCEPT ![m] = <<>>]
  /\ \/ UNCHANGED <<base, source>>
     \/ /\ base' = [base EXCEPT ![m] = Never]
        /\ source' = [source EXCEPT ![m] = 0]
  /\ UNCHANGED <<now, clientVars, dataVars>>

GoOnline(m) ==
  /\ m \notin online
  /\ online' = online \cup {m}
  /\ UNCHANGED <<now, clientVars, base, source, synch, dataVars>>

SyncNext ==
  \/ Tick
  \/ Start \/ Subscribe \/ SubscribeFails \/ Synchronize \/ Exit
  \/ \E m \in Motes :
       \/ SubscriberLost(m) \/ Receive(m)
       \/ TimeSynch(m) \/ Publish(m) \/ GoOffline(m) \/ GoOnline(m)

SyncSpec == SyncInit /\ [][SyncNext]_syncVars

(* Both programs run, and what is on its way arrives or is lost.  Nobody   *)
(* has to start the client, and nothing has to come online.                *)
SyncFairSpec ==
  /\ SyncSpec
  /\ WF_syncVars(Subscribe \/ SubscribeFails)
  /\ WF_syncVars(Synchronize)
  /\ \A m \in Motes :
       WF_syncVars(Receive(m)) /\ WF_syncVars(TimeSynch(m)) /\ WF_syncVars(Publish(m))

-----------------------------------------------------------------------------
(* Properties *)

Times == Never .. MaxTime

SyncTypeOK ==
  /\ now \in 0 .. MaxTime
  /\ starts \in 0 .. MaxStarts
  /\ main \in {"down", "starting", "running", "failed"}
  /\ made \in 0 .. Len(Topics)
  /\ reference \in Times
  /\ listening \subseteq Motes
  /\ online \subseteq Motes
  /\ base \in [Motes -> Times]
  /\ source \in [Motes -> 0 .. MaxStarts]
  /\ synch \in [Motes -> Seq(1 .. MaxStarts)]
  /\ reading \in [Motes -> Seq([elapsed : 0 .. MaxTime, measured : 0 .. MaxTime,
                                source : 1 .. MaxStarts])]
  /\ row \in [Motes -> [reference : Times, dated : Never .. 2 * MaxTime,
                        measured : Times, own : BOOLEAN]]

(* A row of a mote that was synchronised by the client that stored it is   *)
(* dated between that client's start and the moment of the measurement,    *)
(* however late the mote heard of it (Main.java:25, noise-sensor.c:249).   *)
OwnRowsDatedInTime ==
  \A m \in Motes :
    row[m].own => /\ row[m].reference <= row[m].dated
                  /\ row[m].dated <= row[m].measured

(* Once the last message sent to a mote is the running client's, a reading *)
(* that counts from it reaches that client, whatever older messages and    *)
(* readings are still on their way, unless the client ends, the mote goes  *)
(* offline or the subscriber's connection is lost, after which             *)
(* connectionLost does nothing and nothing is heard any more               *)
(* (Synchronizer.java:30, SubscriberNoise.java:43, noise-sensor.c:231).    *)
SynchSettles ==
  \A m \in Motes :
    (main = "running" /\ synch[m] # <<>> /\ synch[m][Len(synch[m])] = starts)
      ~> \/ main # "running" \/ m \notin online \/ m \notin listening
         \/ reading[m] # <<>> /\ Head(reading[m]).source = starts

(* Expected to fail.  "to synchronize with a common reference time"        *)
(* (Main.java:41): with one reference for client and motes, no row is      *)
(* dated later than it was measured.  A client that was started again      *)
(* subscribes before it sends its message (Main.java:37-42), and a mote    *)
(* counts from the last start until it has heard the new one.              *)
RowsNotDatedAhead ==
  \A m \in Motes : row[m].dated <= row[m].measured

=============================================================================
