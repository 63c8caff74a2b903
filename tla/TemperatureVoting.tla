-------------------------- MODULE TemperatureVoting -------------------------
(***************************************************************************)
(* The client's temperature panel (ui/TemperaturePanel.java) and the       *)
(* collection of votes behind it (temperature/PublisherTemperature.java).  *)
(*                                                                         *)
(* Two threads meet here.  The callback thread of the subscriber handles   *)
(* one reading after the other and replaces the three buttons outside of   *)
(* the event thread, piece by piece.  The event thread paints, finds the   *)
(* button a click hits, runs its listener and, in a vote that completes a  *)
(* command, waits inside the publication of the mean until the broker has  *)
(* acknowledged it or the library gives up.                                *)
(***************************************************************************)
EXTENDS Readings, Sequences

CONSTANTS
  VotesNeeded,   \* 10 in collectValuationTemperature
  Lowest,        \* 18 in changeTemperatureValue, MIN_TEMPERATURE of the mote
  Highest,       \* 30 in changeTemperatureValue, MAX_TEMPERATURE of the mote
  Measured,      \* the temperatures the mote may publish, in thousandths
  MaxVotes       \* bound: votes collected while none is acknowledged

ASSUME VotingAssumption ==
  /\ VotesNeeded \in Nat \ {0}
  /\ Lowest \in Nat /\ Highest \in Nat /\ Lowest < Highest
  /\ Measured \subseteq 1000 * Lowest .. 1000 * Highest
  /\ MaxVotes \in Nat /\ VotesNeeded <= MaxVotes

(* The three suggestions, in the order in which the code handles them. *)
Order == <<"left", "center", "right">>
Positions == {"left", "center", "right"}

(* The phases of changeTemperatureValue, each of them one position at a    *)
(* time, but for the last.                                                 *)
Phases == <<"remove", "suggest", "add", "listen", "repaint">>

NoButton == [label |-> -1, listening |-> FALSE]
NoClick == [at |-> "left", label |-> -1, removed |-> FALSE]

VARIABLES
  suggested,   \* left_value, center_value, right_value
  button,      \* the buttons in the panel, NoButton where one is missing
  painted,     \* the labels on the screen, -1 for "..." or nothing
  dirty,       \* a repaint is requested
  redraw,      \* how far the callback thread is
  edt,         \* the event thread: idle, between a click and its listener,
               \*   or waiting in publish
  click,       \* history: the button hit last, the number on it, and whether
               \*   it was removed before its listener ran
  client,      \* the MQTT client of the publisher: "up" or "down"
  counter,     \* counterTemperature
  collected,   \* collectTemperature
  command,     \* the last message that reached the broker: sum and votes
  cast,        \* history: the votes since the last acknowledged command
  failed       \* history: the publications since then that failed although
               \*   the connection was there

panelVars == <<suggested, button, dirty, redraw>>
voteVars == <<edt, client, counter, collected, command, cast, failed>>
votingVars == <<panelVars, painted, click, voteVars>>

-----------------------------------------------------------------------------

Idle == [phase |-> 0, at |-> 1, reading |-> 0]

(* The first buttons say "..." and have no listener.  The publisher's      *)
(* constructor only prints the exception of a connection that failed.      *)
Init ==
  /\ suggested = [p \in Positions |-> 0]
  /\ button = [p \in Positions |-> NoButton]
  /\ painted = [p \in Positions |-> -1]
  /\ dirty = FALSE
  /\ redraw = Idle
  /\ edt = "idle"
  /\ click = NoClick
  /\ client \in {"up", "down"}
  /\ counter = 0
  /\ collected = 0
  /\ command = [sum |-> 0, votes |-> 0]
  /\ cast = [sum |-> 0, votes |-> 0]
  /\ failed = 0

-----------------------------------------------------------------------------
(* The callback thread. *)

(* messageArrived hands the reading to changeTemperatureValue. *)
ReadingArrives(v) ==
  /\ redraw = Idle
  /\ redraw' = [phase |-> 1, at |-> 1, reading |-> v]
  /\ UNCHANGED <<suggested, button, dirty, painted, click, voteVars>>

(* The callback thread is at position p of the phase and goes on. *)
AtStep(phase, p) ==
  /\ redraw.phase > 0
  /\ Phases[redraw.phase] = phase
  /\ Order[redraw.at] = p
  /\ redraw' = IF redraw.at < Len(Order)
               THEN [redraw EXCEPT !.at = @ + 1]
               ELSE [redraw EXCEPT !.phase = @ + 1, !.at = 1]

(* A variant of RemoveButton that leaves the button in the panel until it  *)
(* is replaced.                                                            *)
RemoveButtonLater(p) ==
  /\ AtStep("remove", p)
  /\ UNCHANGED <<button, suggested, dirty, painted, click, voteVars>>

RemoveButton(p) ==
  /\ AtStep("remove", p)
  /\ button' = [button EXCEPT ![p] = NoButton]
  /\ click' = [click EXCEPT !.removed = @ \/ (edt = "clicked" /\ click.at = p)]
  /\ UNCHANGED <<suggested, dirty, painted, voteVars>>

SetSuggestion(p) ==
  /\ AtStep("suggest", p)
  /\ suggested' = [suggested EXCEPT ![p] = Suggestion(p, Received(redraw.reading), Lowest, Highest)]
  /\ UNCHANGED <<button, dirty, painted, click, voteVars>>

(* The new button takes its label from the field, once. *)
AddButton(p) ==
  /\ AtStep("add", p)
  /\ button' = [button EXCEPT ![p] = [label |-> suggested[p],
                                      listening |-> FALSE]]
  /\ UNCHANGED <<suggested, dirty, painted, click, voteVars>>

AddListener(p) ==
  /\ AtStep("listen", p)
  /\ button' = [button EXCEPT ![p].listening = TRUE]
  /\ UNCHANGED <<suggested, dirty, painted, click, voteVars>>

(* A variant of Repaint that returns without asking for it. *)
RepaintForgotten ==
  /\ redraw.phase > 0 /\ Phases[redraw.phase] = "repaint"
  /\ redraw' = Idle
  /\ UNCHANGED <<dirty, suggested, button, painted, click, voteVars>>

Repaint ==
  /\ redraw.phase > 0 /\ Phases[redraw.phase] = "repaint"
  /\ redraw' = Idle
  /\ dirty' = TRUE
  /\ UNCHANGED <<suggested, button, painted, click, voteVars>>

Redraw ==
  \/ \E p \in Positions :
       RemoveButton(p) \/ SetSuggestion(p) \/ AddButton(p) \/ AddListener(p)
  \/ Repaint

-----------------------------------------------------------------------------
(* The event thread. *)

(* The window may be painted at any moment, for whatever reason. *)
Paint ==
  /\ edt = "idle"
  /\ painted' = [p \in Positions |-> button[p].label]
  /\ dirty' = FALSE
  /\ UNCHANGED <<suggested, button, redraw, click, voteVars>>

(* A variant of Collect that wants more than VotesNeeded votes. *)
CollectOneMore(t) ==
  /\ counter' = counter + 1
  /\ collected' = collected + t
  /\ edt' = IF counter' > VotesNeeded /\ client = "up" THEN "publishing" ELSE "idle"

(* collectValuationTemperature(t), up to the publication: a client without *)
(* connection throws at once, and the votes stay.                          *)
Collect(t) ==
  /\ counter' = counter + 1
  /\ collected' = collected + t
  /\ edt' = IF counter' >= VotesNeeded /\ client = "up" THEN "publishing" ELSE "idle"

(* A click is dispatched to the button it hits, which is in the panel and  *)
(* has its listener.                                                       *)
Click(p) ==
  /\ edt = "idle"
  /\ button[p].listening
  /\ counter < MaxVotes
  /\ edt' = "clicked"
  /\ click' = [at |-> p, label |-> button[p].label, removed |-> FALSE]
  /\ UNCHANGED <<panelVars, painted, client, counter, collected, command, cast, failed>>

(* The listener of that button reads the field's present value: a redraw   *)
(* may have removed the button and set the field since it was hit.         *)
Vote ==
  /\ edt = "clicked"
  /\ Collect(suggested[click.at])
  /\ cast' = [sum |-> cast.sum + suggested[click.at], votes |-> cast.votes + 1]
  /\ click' = NoClick
  /\ UNCHANGED <<panelVars, painted, client, command, failed>>

(* The mean of the votes reaches the broker. *)
CommandArrives ==
  /\ edt = "publishing"
  /\ command' = [sum |-> collected, votes |-> counter]
  /\ edt' = "delivered"
  /\ UNCHANGED <<panelVars, painted, click, client, counter, collected, cast, failed>>

(* publish returns: the votes are forgotten. *)
CommandAcknowledged ==
  /\ edt = "delivered"
  /\ edt' = "idle"
  /\ counter' = 0
  /\ collected' = 0
  /\ cast' = [sum |-> 0, votes |-> 0]
  /\ failed' = 0
  /\ UNCHANGED <<panelVars, painted, click, client, command>>

(* The library cannot store the message before it sends it and publish     *)
(* throws, the connection being as it was: the votes stay, too.            *)
PublishFails ==
  /\ edt = "publishing"
  /\ edt' = "idle"
  /\ failed' = failed + 1
  /\ UNCHANGED <<panelVars, painted, click, client, counter, collected, command, cast>>

(* The connection is lost.  A publication under way, acknowledged or not,  *)
(* ends with an exception; nothing connects the client again.              *)
ConnectionLost ==
  /\ client = "up"
  /\ client' = "down"
  /\ edt' = IF edt = "clicked" THEN "clicked" ELSE "idle"
  /\ UNCHANGED <<panelVars, painted, click, counter, collected, command, cast, failed>>

Publishing == CommandArrives \/ CommandAcknowledged \/ PublishFails

Next ==
  \/ \E v \in Measured : ReadingArrives(v)
  \/ Redraw
  \/ Paint
  \/ \E p \in Positions : Click(p)
  \/ Vote
  \/ Publishing
  \/ ConnectionLost

Spec == Init /\ [][Next]_votingVars

(* Threads run, a publication is acknowledged or ends with an exception,   *)
(* and a requested repaint, which waits in the first-in first-out queue of *)
(* the event thread, is served however often somebody clicks.  Nobody has  *)
(* to click.                                                               *)
FairSpec ==
  /\ Spec
  /\ WF_votingVars(Redraw)
  /\ SF_votingVars(dirty /\ Paint)
  /\ WF_votingVars(Vote)
  /\ WF_votingVars(Publishing)

-----------------------------------------------------------------------------
(* Properties *)

Labels == {-1} \cup 0 .. Highest

TypeOK ==
  /\ suggested \in [Positions -> 0 .. Highest]
  /\ button \in [Positions -> [label : Labels, listening : BOOLEAN]]
  /\ painted \in [Positions -> Labels]
  /\ dirty \in BOOLEAN
  /\ redraw \in [phase : 0 .. Len(Phases), at : 1 .. Len(Order),
                 reading : {0} \cup Measured]
  /\ edt \in {"idle", "clicked", "publishing", "delivered"}
  /\ click \in [at : Positions, label : Labels, removed : BOOLEAN]
  /\ client \in {"up", "down"}
  /\ counter \in 0 .. MaxVotes
  /\ collected \in Nat
  /\ command \in [sum : Nat, votes : Nat]
  /\ cast \in [sum : Nat, votes : Nat]
  /\ failed \in Nat

(* A click counts the number on the button it hit, unless that very button *)
(* was removed between the click and its listener: a field is set only     *)
(* while its button is out of the panel, and a new button gets its         *)
(* listener only with the field's number on it (TemperaturePanel.java:115, *)
(* 147, 152, 186, 190).                                                    *)
ClickCountsItsNumber ==
  edt = "clicked" /\ ~click.removed => suggested[click.at] = click.label

(* From the moment the buttons are made, each suggests what follows from   *)
(* the temperature the mote measured, although the fraction is printed     *)
(* without its leading zero and cut off (MQTT_server_temperature.c:156):   *)
(* two degrees less, one less or one more than its whole degrees, within   *)
(* the range the mote accepts (TemperaturePanel.java:147).                 *)
SuggestionsFitRoom ==
  redraw.phase > 2 =>
    LET whole == redraw.reading \div 1000
        wanted == [left   |-> IF whole - 2 < Lowest THEN Lowest ELSE whole - 2,
                   center |-> IF whole - 1 < Lowest THEN Lowest ELSE whole - 1,
                   right  |-> IF whole + 1 > Highest THEN Highest ELSE whole + 1]
    IN  \A p \in Positions : suggested[p] = wanted[p]

(* Each command is the mean of exactly the votes cast since the last       *)
(* acknowledged one, none lost and none counted twice, although a          *)
(* publication that fails leaves its votes behind.  They are ten, and one  *)
(* more for each publication that failed on a connection that was there: a *)
(* vote sets the counter off again each time (PublisherTemperature.java:   *)
(* 43-52).  A client that lost its connection never publishes again.       *)
CommandCountsVotes ==
  edt = "delivered" => command = cast /\ command.votes = VotesNeeded + failed

(* When no more readings come, the screen ends up with the suggestions     *)
(* that a click stands for.                                                *)
ScreenCatchesUp ==
  <>[](redraw = Idle)
    => <>[](\A p \in Positions : painted[p] = button[p].label)

=============================================================================
