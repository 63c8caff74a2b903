------------------------------- MODULE Etimer -------------------------------
(***************************************************************************)
(* Event timers and the event queue of Contiki-NG, as the three motes of   *)
(* the room use them.  The kernel is not part of the repository: these     *)
(* operators say what the calls in the motes' code rely on.                *)
(*                                                                         *)
(* A timer is a record: `armed' while it is in the kernel's list, `left'   *)
(* the clock units before it is due.  A due timer stays armed until the    *)
(* etimer process posts its event to the owner; from then on               *)
(* etimer_expired is true of it.  Setting a timer again does not take back *)
(* an event that is already in the queue.                                  *)
(***************************************************************************)
EXTENDS Naturals, Sequences

(* Any event timer. *)
AnyEtimer == [armed : BOOLEAN, left : Nat]

(* A timer that was never set: zero-initialised memory. *)
EtimerUnset == [armed |-> FALSE, left |-> 0]

(* etimer_set, and etimer_restart: the interval starts now. *)
EtimerSet(interval) == [armed |-> TRUE, left |-> interval]

(* The clock advances by one unit. *)
EtimerAdvance(t) == IF t.armed /\ t.left > 0 THEN [t EXCEPT !.left = @ - 1] ELSE t

(* The etimer process has something to post for t. *)
EtimerDue(t) == t.armed /\ t.left = 0

(* t after the etimer process posted its event. *)
EtimerPosted(t) == [t EXCEPT !.armed = FALSE]

(* etimer_expired(t) *)
EtimerExpired(t) == ~t.armed

(* Event e waits in the queue q. *)
Queued(q, e) == \E i \in 1..Len(q) : q[i] = e
=============================================================================
