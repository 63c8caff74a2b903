---------------------------- MODULE ReadingsProofs ----------------------------
(***************************************************************************)
(* What becomes of a reading in the client, for every value of the         *)
(* constants.                                                              *)
(*                                                                         *)
(* First facts about Readings: whole units survive the encoding, and       *)
(* everything the client compares or casts depends on them only.  Then two *)
(* inductive invariants of TemperatureVoting: Redrawing for the buttons,   *)
(* by how far the callback thread is, and Votes for what the event thread  *)
(* has collected and published.  At last one of TimeSync, Dating, for the  *)
(* date of the row.                                                        *)
(***************************************************************************)
EXTENDS TemperatureVoting, TimeSync, SequenceTheorems, TLAPS

(* The fraction is garbled, but it stays a fraction. *)
LEMMA WholeUnitsSurvive ==
  ASSUME NEW t \in Nat
  PROVE  Received(t) \in Nat /\ Received(t) \div 100 = t \div 1000
<1>1. Hundredths(t) \in 0 .. 99
  BY SMT DEF Hundredths
<1> DEFINE f == IF Hundredths(t) < 10 THEN 10 * Hundredths(t) ELSE Hundredths(t)
           w == t \div 1000
<1>2. f \in 0 .. 99
  BY <1>1
<1>3. w \in Nat
  BY SMT
<1>4. Received(t) = w * 100 + f
  BY DEF Received
<1> HIDE DEF f, w
<1>5. (w * 100 + f) \div 100 = w
  BY <1>2, <1>3, SMT
<1> QED
  BY <1>2, <1>3, <1>4, <1>5 DEF w

(* The level stored with a noise value (SubscriberNoise.java:55-60) is the  *)
(* one of the value the mote measured (noise-sensor.c:249).                 *)
THEOREM LevelSurvives ==
  ASSUME NEW t \in Nat
  PROVE  Level(Received(t)) = IF t < 45000 THEN "low" ELSE IF t < 60000 THEN "medium" ELSE "high"
<1> DEFINE v == Received(t)
<1>1. v \in Nat /\ v \div 100 = t \div 1000
  BY WholeUnitsSurvive
<1> HIDE DEF v
<1>2. (v < 4500 <=> t < 45000) /\ (v < 6000 <=> t < 60000)
  BY <1>1, SMT
<1> QED
  BY <1>2 DEF Level, v

(* The degrees a button suggests (TemperaturePanel.java:147-149) are within *)
(* the range and two less, one less and one more than the whole degrees     *)
(* the mote measured, wherever the range leaves room for that.              *)
THEOREM SuggestionSurvives ==
  ASSUME NEW lowest \in Nat, NEW highest \in Nat, lowest < highest,
         NEW t \in 1000 * lowest .. 1000 * highest,
         NEW p \in {"left", "center", "right"}
  PROVE  LET whole == t \div 1000
             s == Suggestion(p, Received(t), lowest, highest)
         IN  /\ s \in lowest .. highest
             /\ p = "left"   => s = IF whole - 2 < lowest THEN lowest ELSE whole - 2
             /\ p = "center" => s = IF whole - 1 < lowest THEN lowest ELSE whole - 1
             /\ p = "right"  => s = IF whole + 1 > highest THEN highest ELSE whole + 1
<1> DEFINE v == Received(t)
           w == t \div 1000
<1>1. t \in Nat
  OBVIOUS
<1>2. v \in Nat /\ v \div 100 = w
  BY <1>1, WholeUnitsSurvive
<1>3. w \in lowest .. highest
  BY <1>1, SMT
<1> HIDE DEF v, w
<1>4. v \in 100 * w .. 100 * w + 99
  BY <1>2, <1>3, SMT
<1>5. CASE p = "left"
  BY <1>3, <1>4, <1>5, SMT DEF Suggestion, Warmest, v, w
<1>6. CASE p = "center"
  BY <1>3, <1>4, <1>6, SMT DEF Suggestion, Warmest, v, w
<1>7. CASE p = "right"
  BY <1>3, <1>4, <1>7, SMT DEF Suggestion, Coolest, v, w
<1> QED
  BY <1>5, <1>6, <1>7

-----------------------------------------------------------------------------
(* Position i has been handled in phase n of the redraw under way. *)
Done(n, i) == redraw.phase > n \/ (redraw.phase = n /\ i < redraw.at)

(* A redraw has a reading, and there is room for the vote of a click. *)
UnderWay ==
  /\ redraw.phase > 0 => redraw.reading \in Measured
  /\ edt = "clicked" => counter < MaxVotes

(* A button is out of the panel while its field may change, and takes its  *)
(* label from the field afterwards; the field follows from the reading.  A *)
(* button that was hit stays as it is until it is removed.                 *)
ButtonTellsItsVote ==
  \A p \in Positions : button[p].listening => button[p].label = suggested[p]

HitStays ==
  edt = "clicked" /\ ~click.removed =>
    button[click.at].listening /\ suggested[click.at] = click.label

Redrawing ==
  /\ \A i \in 1..3 :
       /\ Done(1, i) /\ ~Done(3, i) => ~button[Order[i]].listening
       /\ Done(2, i) => suggested[Order[i]] =
                          Suggestion(Order[i], Received(redraw.reading), Lowest, Highest)
       /\ Done(3, i) => button[Order[i]].label = suggested[Order[i]]
  /\ ButtonTellsItsVote
  /\ HitStays

(* The votes counted are those cast; with a connection each publication    *)
(* begins at the tenth of them, or at the first after one that failed.     *)
Waiting == edt \in {"publishing", "delivered"}
Votes ==
  /\ cast = [sum |-> collected, votes |-> counter]
  /\ Waiting => client = "up" /\ counter = VotesNeeded + failed
  /\ client = "up" /\ ~Waiting =>
       IF failed = 0 THEN counter < VotesNeeded ELSE counter = VotesNeeded + failed - 1
  /\ edt = "delivered" => command = cast

LEMMA Places ==
  /\ Len(Order) = 3 /\ Len(Phases) = 5
  /\ \A i \in 1..3 : Order[i] \in Positions
  /\ \A i, j \in 1..3 : Order[i] = Order[j] => i = j
  /\ \A p \in Positions : \E i \in 1..3 : Order[i] = p
<1>1. Order[1] = "left" /\ Order[2] = "center" /\ Order[3] = "right" /\ Len(Order) = 3
  BY DEF Order
<1>2. Len(Phases) = 5
  BY DEF Phases
<1>3. \A i \in 1..3 : i = 1 \/ i = 2 \/ i = 3
  OBVIOUS
<1>4. QED
  BY <1>1, <1>2, <1>3 DEF Positions

(* What a step of the callback thread does to its own position. *)
LEMMA StepTaken ==
  ASSUME TypeOK, NEW phase \in {"remove", "suggest", "add", "listen"}, NEW p \in Positions,
         AtStep(phase, p)
  PROVE  \E n \in 1..4, i \in 1..3 :
           /\ Phases[n] = phase /\ Order[i] = p
           /\ redraw.phase = n /\ redraw.at = i
           /\ redraw'.reading = redraw.reading
           /\ redraw'.phase = IF i < 3 THEN n ELSE n + 1
           /\ redraw'.at = IF i < 3 THEN i + 1 ELSE 1
           /\ redraw' \in [phase : 0..5, at : 1..3, reading : {0} \cup Measured]
<1>1. redraw \in [phase : 0..5, at : 1..3, reading : {0} \cup Measured]
  BY Places DEF TypeOK
<1>2. /\ redraw.phase \in 1..5 /\ redraw.at \in 1..3
      /\ Phases[redraw.phase] = phase /\ Order[redraw.at] = p
  BY <1>1 DEF AtStep
<1>3. redraw.phase # 5
  BY <1>2 DEF Phases
<1>4. CASE redraw.at < 3
  BY <1>1, <1>2, <1>3, <1>4, Places DEF AtStep
<1>5. CASE redraw.at = 3
  <2>1. redraw' = [redraw EXCEPT !.phase = @ + 1, !.at = 1]
    BY <1>5, Places DEF AtStep
  <2>2. /\ redraw'.reading = redraw.reading
        /\ redraw'.phase = redraw.phase + 1
        /\ redraw'.at = 1
    BY <1>1, <2>1
  <2>3. redraw.phase \in 1..4 /\ redraw.phase + 1 \in 0..5
    BY <1>2, <1>3
  <2>4. redraw' \in [phase : 0..5, at : 1..3, reading : {0} \cup Measured]
    <3>1. ASSUME NEW r \in [phase : 0..5, at : 1..3, reading : {0} \cup Measured],
                 NEW n \in 0..5
          PROVE  [r EXCEPT !.phase = n, !.at = 1]
                   \in [phase : 0..5, at : 1..3, reading : {0} \cup Measured]
      <4>1. [r EXCEPT !.phase = n] \in [phase : 0..5, at : 1..3, reading : {0} \cup Measured]
        OBVIOUS
      <4>2. [r EXCEPT !.phase = n, !.at = 1] = [[r EXCEPT !.phase = n] EXCEPT !.at = 1]
        OBVIOUS
      <4>3. ASSUME NEW q \in [phase : 0..5, at : 1..3, reading : {0} \cup Measured]
            PROVE  [q EXCEPT !.at = 1] \in [phase : 0..5, at : 1..3, reading : {0} \cup Measured]
        OBVIOUS
      <4>4. QED
        BY <4>1, <4>2, <4>3
    <3>2. QED
      BY <1>1, <2>1, <2>3, <3>1
  <2>5. QED
    BY <1>2, <1>5, <2>2, <2>3, <2>4
<1>6. QED
  BY <1>2, <1>4, <1>5

(* The last step of a redraw, and the first. *)
LEMMA RepaintTaken ==
  ASSUME TypeOK, Repaint
  PROVE  redraw.phase = 5 /\ redraw' = Idle
<1>1. redraw.phase \in 1..5 /\ Phases[redraw.phase] = "repaint"
  BY Places DEF TypeOK, Repaint
<1>2. QED
  BY <1>1 DEF Phases, Repaint

(* The mote clamps what it measures. *)
LEMMA MeasuredInRange ==
  ASSUME NEW r \in Measured
  PROVE  r \in 1000 * Lowest .. 1000 * Highest
<1> DEFINE Sent == 1000 * Lowest .. 1000 * Highest
<1>1. Measured \subseteq Sent
  BY VotingAssumption
<1> HIDE DEF Sent
<1>2. r \in Sent
  BY <1>1
<1> QED
  BY <1>2 DEF Sent

(* A suggestion for a reading the mote may have sent is a temperature the  *)
(* mote accepts.                                                           *)
LEMMA SuggestionInRange ==
  ASSUME TypeOK, UnderWay, redraw.phase > 0, NEW p \in Positions
  PROVE  Suggestion(p, Received(redraw.reading), Lowest, Highest) \in Lowest..Highest
<1>1. redraw.reading \in Measured
  BY DEF UnderWay
<1>2. Lowest \in Nat /\ Highest \in Nat /\ Lowest < Highest
  BY VotingAssumption
<1>3. redraw.reading \in 1000 * Lowest .. 1000 * Highest
  BY <1>1, MeasuredInRange
<1>4. QED
  BY <1>2, <1>3, SuggestionSurvives DEF Positions

LEMMA IdleTyped ==
  [phase |-> 0, at |-> 1, reading |-> 0] \in [phase : 0..5, at : 1..3, reading : {0} \cup Measured]
<1>1. 0 \in 0..5 /\ 1 \in 1..3 /\ 0 \in {0} \cup Measured
  OBVIOUS
<1>2. QED
  BY <1>1

LEMMA TypesStep ==
  ASSUME TypeOK, UnderWay, [Next]_votingVars
  PROVE  TypeOK' /\ UnderWay'
<1>0. /\ suggested \in [Positions -> 0 .. Highest]
      /\ button \in [Positions -> [label : Labels, listening : BOOLEAN]]
      /\ redraw \in [phase : 0..5, at : 1..3, reading : {0} \cup Measured]
      /\ counter \in Nat /\ counter <= MaxVotes /\ collected \in Nat
      /\ cast.sum \in Nat /\ cast.votes \in Nat
      /\ painted \in [Positions -> Labels] /\ dirty \in BOOLEAN
      /\ click \in [at : Positions, label : Labels, removed : BOOLEAN]
  BY VotingAssumption, Places DEF TypeOK
<1>1. ASSUME redraw' \in [phase : 0..5, at : 1..3, reading : {0} \cup Measured],
             suggested' \in [Positions -> 0 .. Highest],
             button' \in [Positions -> [label : Labels, listening : BOOLEAN]],
             dirty' \in BOOLEAN,
             click' \in [at : Positions, label : Labels, removed : BOOLEAN],
             redraw'.phase > 0 => redraw'.reading \in Measured,
             UNCHANGED <<painted, voteVars>>
      PROVE  TypeOK' /\ UnderWay'
  BY <1>1, Places DEF TypeOK, UnderWay, voteVars
<1>2. ASSUME NEW phase \in {"remove", "suggest", "add", "listen"}, NEW p \in Positions,
             AtStep(phase, p)
      PROVE  /\ redraw' \in [phase : 0..5, at : 1..3, reading : {0} \cup Measured]
             /\ (redraw'.phase > 0 => redraw'.reading \in Measured) /\ redraw.phase > 0
  <2>1. /\ redraw' \in [phase : 0..5, at : 1..3, reading : {0} \cup Measured]
        /\ redraw.phase > 0 /\ redraw'.reading = redraw.reading
    BY <1>2, StepTaken
  <2>2. QED
    BY <2>1 DEF UnderWay
<1>3. ASSUME NEW v \in Measured, ReadingArrives(v)
      PROVE  TypeOK' /\ UnderWay'
  <2>1. redraw' = [phase |-> 1, at |-> 1, reading |-> v]
    BY <1>3 DEF ReadingArrives
  <2>2. redraw' \in [phase : 0..5, at : 1..3, reading : {0} \cup Measured]
    BY <2>1
  <2>3. QED
    BY <1>0, <1>1, <1>3, <2>1, <2>2 DEF ReadingArrives
<1>4. ASSUME NEW p \in Positions, RemoveButton(p)
      PROVE  TypeOK' /\ UnderWay'
  <2>1. NoButton \in [label : Labels, listening : BOOLEAN]
    BY DEF NoButton, Labels
  <2>2. button' \in [Positions -> [label : Labels, listening : BOOLEAN]]
    BY <1>0, <1>4, <2>1 DEF RemoveButton
  <2>3. click' \in [at : Positions, label : Labels, removed : BOOLEAN]
    BY <1>0, <1>4 DEF RemoveButton
  <2>4. QED
    BY <1>0, <1>1, <1>2, <1>4, <2>2, <2>3 DEF RemoveButton
<1>5. ASSUME NEW p \in Positions, SetSuggestion(p)
      PROVE  TypeOK' /\ UnderWay'
  <2>1. redraw.phase > 0
    BY <1>2, <1>5 DEF SetSuggestion
  <2>2. Suggestion(p, Received(redraw.reading), Lowest, Highest) \in Lowest..Highest
    BY <2>1, SuggestionInRange
  <2>3. Suggestion(p, Received(redraw.reading), Lowest, Highest) \in 0..Highest
    <3>1. Lowest \in Nat /\ Highest \in Nat
      BY VotingAssumption
    <3> QED
      BY <2>2, <3>1
  <2>4. suggested' \in [Positions -> 0 .. Highest]
    BY <1>0, <1>5, <2>3 DEF SetSuggestion
  <2>5. QED
    BY <1>0, <1>1, <1>2, <1>5, <2>4 DEF SetSuggestion
<1>6. ASSUME NEW p \in Positions, AddButton(p)
      PROVE  TypeOK' /\ UnderWay'
  <2>1. suggested[p] \in Labels
    BY <1>0 DEF Labels
  <2>2. [label |-> suggested[p], listening |-> FALSE] \in [label : Labels, listening : BOOLEAN]
    BY <2>1
  <2>3. button' \in [Positions -> [label : Labels, listening : BOOLEAN]]
    BY <1>0, <1>6, <2>2 DEF AddButton
  <2>4. QED
    BY <1>0, <1>1, <1>2, <1>6, <2>3 DEF AddButton
<1>7. ASSUME NEW p \in Positions, AddListener(p)
      PROVE  TypeOK' /\ UnderWay'
  <2>1. [button[p] EXCEPT !.listening = TRUE] \in [label : Labels, listening : BOOLEAN]
    <3>1. button[p] \in [label : Labels, listening : BOOLEAN]
      BY <1>0
    <3>2. QED
      BY <3>1
  <2>2. button' \in [Positions -> [label : Labels, listening : BOOLEAN]]
    BY <1>0, <1>7, <2>1 DEF AddListener
  <2>3. QED
    BY <1>0, <1>1, <1>2, <1>7, <2>2 DEF AddListener
<1>8. CASE Repaint
  <2>1. redraw' = [phase |-> 0, at |-> 1, reading |-> 0]
    BY <1>8, RepaintTaken DEF Idle
  <2>2. redraw' \in [phase : 0..5, at : 1..3, reading : {0} \cup Measured]
    BY <2>1, IdleTyped
  <2>3. QED
    BY <1>0, <1>1, <1>8, <2>1, <2>2 DEF Repaint
<1>9. CASE Paint
  <2>1. painted' \in [Positions -> Labels]
    BY <1>0, <1>9 DEF Paint
  <2>2. QED
    BY <1>9, <2>1 DEF Paint, voteVars, TypeOK, UnderWay
<1>10. ASSUME NEW p \in Positions, Click(p)
       PROVE  TypeOK' /\ UnderWay'
  <2>1. button[p].label \in Labels
    BY <1>0
  <2>2. click' \in [at : Positions, label : Labels, removed : BOOLEAN]
    BY <1>10, <2>1 DEF Click
  <2>3. UNCHANGED <<panelVars, painted, client, counter, collected, command, cast, failed>>
    BY <1>10 DEF Click
  <2>4. edt' = "clicked" /\ counter < MaxVotes
    BY <1>10 DEF Click
  <2>5. QED
    BY <2>2, <2>3, <2>4 DEF panelVars, TypeOK, UnderWay
<1>11. CASE Vote
  <2>1. suggested[click.at] \in Nat /\ counter < MaxVotes
    BY <1>0, <1>11 DEF Vote, UnderWay
  <2>2. counter' \in 0..MaxVotes /\ collected' \in Nat
    BY <1>0, <1>11, <2>1, VotingAssumption DEF Vote, Collect
  <2>3. cast' \in [sum : Nat, votes : Nat]
    BY <1>0, <1>11, <2>1 DEF Vote
  <2>4. edt' \in {"idle", "publishing"}
    BY <1>11 DEF Vote, Collect
  <2>5. NoClick \in [at : Positions, label : Labels, removed : BOOLEAN]
    BY DEF NoClick, Positions, Labels
  <2>6. click' = NoClick /\ UNCHANGED <<panelVars, painted, client, command, failed>>
    BY <1>11 DEF Vote
  <2>7. QED
    BY <2>2, <2>3, <2>4, <2>5, <2>6 DEF panelVars, TypeOK, UnderWay
<1>12. CASE Publishing \/ ConnectionLost
  <2>1. command' \in [sum : Nat, votes : Nat] /\ cast' \in [sum : Nat, votes : Nat]
    BY <1>0, <1>12
    DEF Publishing, CommandArrives, CommandAcknowledged, PublishFails, ConnectionLost, TypeOK
  <2>2. UNCHANGED <<panelVars, painted, click>>
    BY <1>12
    DEF Publishing, CommandArrives, CommandAcknowledged, PublishFails, ConnectionLost
  <2>3. /\ edt' \in {"idle", "clicked", "publishing", "delivered"} /\ client' \in {"up", "down"}
        /\ counter' \in 0 .. MaxVotes /\ collected' \in Nat /\ failed' \in Nat
    BY <1>12, VotingAssumption
    DEF Publishing, CommandArrives, CommandAcknowledged, PublishFails, ConnectionLost, TypeOK
  <2>4. edt' = "clicked" => edt = "clicked" /\ counter' = counter
    BY <1>12
    DEF Publishing, CommandArrives, CommandAcknowledged, PublishFails, ConnectionLost
  <2>5. QED
    BY <2>1, <2>2, <2>3, <2>4 DEF panelVars, TypeOK, UnderWay
<1>13. CASE UNCHANGED votingVars
  BY <1>13 DEF votingVars, panelVars, voteVars, TypeOK, UnderWay
<1>14. QED
  BY <1>3, <1>4, <1>5, <1>6, <1>7, <1>8, <1>9, <1>10, <1>11, <1>12, <1>13 DEF Next, Redraw

(* Every variable keeps its type; in particular every suggestion is within *)
(* the range, from whatever reading it follows.                            *)
LEMMA TypesInvariant == Spec => [](TypeOK /\ UnderWay)
<1>1. Init => TypeOK /\ UnderWay
  <2> SUFFICES ASSUME Init
               PROVE  TypeOK /\ UnderWay
    OBVIOUS
  <2>1. redraw = [phase |-> 0, at |-> 1, reading |-> 0]
    BY DEF Init, Idle
  <2>2. button \in [Positions -> [label : Labels, listening : BOOLEAN]]
    BY DEF Init, NoButton, Labels
  <2>3. suggested \in [Positions -> 0..Highest] /\ painted \in [Positions -> Labels]
    BY VotingAssumption DEF Init, Labels
  <2>4. redraw \in [phase : 0..5, at : 1..3, reading : {0} \cup Measured]
    BY <2>1, IdleTyped
  <2>5. [sum |-> 0, votes |-> 0] \in [sum : Nat, votes : Nat]
    OBVIOUS
  <2>6. /\ 0 \in 0..MaxVotes
        /\ NoClick \in [at : Positions, label : Labels, removed : BOOLEAN]
    BY VotingAssumption DEF NoClick, Positions, Labels
  <2>7. redraw \in [phase : 0..Len(Phases), at : 1..Len(Order), reading : {0} \cup Measured]
    BY <2>4, Places
  <2>8. TypeOK
    BY <2>2, <2>3, <2>5, <2>6, <2>7, Zenon DEF Init, TypeOK
  <2>9. QED
    BY <2>1, <2>8 DEF Init, UnderWay
<1>2. QED
  BY <1>1, TypesStep, PTL DEF Spec

THEOREM VotingTypes == Spec => []TypeOK
  BY TypesInvariant, PTL

-----------------------------------------------------------------------------
(* A step of the callback thread handles one position of one phase.        *)
LEMMA DoneStep ==
  ASSUME TypeOK, NEW phase \in {"remove", "suggest", "add", "listen"}, NEW p \in Positions,
         AtStep(phase, p)
  PROVE  \E n \in 1..4, i \in 1..3 :
           /\ Phases[n] = phase /\ Order[i] = p
           /\ redraw'.reading = redraw.reading
           /\ \A m \in 1..3, j \in 1..3 :
                /\ Done(m, j)' <=> Done(m, j) \/ (m = n /\ j = i)
                /\ m < n => Done(m, j)
                /\ m > n => ~Done(m, j)
           /\ n < 4 => ~Done(n, i)
<1>1. PICK n \in 1..4, i \in 1..3 :
        /\ Phases[n] = phase /\ Order[i] = p
        /\ redraw.phase = n /\ redraw.at = i
        /\ redraw'.reading = redraw.reading
        /\ redraw'.phase = IF i < 3 THEN n ELSE n + 1
        /\ redraw'.at = IF i < 3 THEN i + 1 ELSE 1
  BY StepTaken
<1>2. ASSUME NEW m \in 1..3, NEW j \in 1..3
      PROVE  /\ Done(m, j)' <=> Done(m, j) \/ (m = n /\ j = i)
             /\ m < n => Done(m, j)
             /\ m > n => ~Done(m, j)
  BY <1>1 DEF Done
<1>3. n < 4 => ~Done(n, i)
  BY <1>1 DEF Done
<1>4. QED
  BY <1>1, <1>2, <1>3

(* The phases, by number. *)
LEMMA PhaseNumbers ==
  ASSUME NEW n \in 1..4
  PROVE  /\ Phases[n] = "remove"  => n = 1
         /\ Phases[n] = "suggest" => n = 2
         /\ Phases[n] = "add"     => n = 3
         /\ Phases[n] = "listen"  => n = 4
  BY DEF Phases

LEMMA RedrawingStep ==
  ASSUME TypeOK, Redrawing, [Next]_votingVars
  PROVE  Redrawing'
<1>0. /\ suggested \in [Positions -> 0 .. Highest]
      /\ button \in [Positions -> [label : Labels, listening : BOOLEAN]]
      /\ click \in [at : Positions, label : Labels, removed : BOOLEAN]
  BY DEF TypeOK
<1>1. ASSUME NEW v \in Measured, ReadingArrives(v)
      PROVE  Redrawing'
  <2>1. redraw'.phase = 1 /\ redraw'.at = 1 /\ UNCHANGED <<suggested, button, click, edt>>
    BY <1>1 DEF ReadingArrives, voteVars
  <2>2. \A m \in 1..3, j \in 1..3 : ~Done(m, j)'
    BY <2>1 DEF Done
  <2>3. QED
    BY <2>1, <2>2 DEF Redrawing, ButtonTellsItsVote, HitStays
<1>2. ASSUME NEW p \in Positions, RemoveButton(p)
      PROVE  Redrawing'
  <2>1. AtStep("remove", p) /\ UNCHANGED <<suggested, edt>>
    BY <1>2 DEF RemoveButton, voteVars
  <2>2. PICK i \in 1..3 :
          /\ Order[i] = p /\ redraw'.reading = redraw.reading
          /\ \A m \in 1..3, j \in 1..3 : /\ Done(m, j)' <=> Done(m, j) \/ (m = 1 /\ j = i)
                                         /\ m > 1 => ~Done(m, j)
    BY <2>1, DoneStep, PhaseNumbers
  <2>3. /\ ~button'[p].listening
        /\ \A q \in Positions : q # p => button'[q] = button[q]
    BY <1>0, <1>2 DEF RemoveButton, NoButton
  <2>4. edt = "clicked" /\ ~click'.removed =>
          /\ ~click.removed /\ click.at # p
          /\ click'.at = click.at /\ click'.label = click.label
    BY <1>0, <1>2 DEF RemoveButton
  <2>5. HitStays'
    BY <1>0, <2>1, <2>3, <2>4 DEF Redrawing, HitStays
  <2>6. QED
    BY <2>1, <2>2, <2>3, <2>5, Places DEF Redrawing, ButtonTellsItsVote, HitStays
<1>3. ASSUME NEW p \in Positions, SetSuggestion(p)
      PROVE  Redrawing'
  <2>1. AtStep("suggest", p) /\ UNCHANGED <<button, click, edt>>
    BY <1>3 DEF SetSuggestion, voteVars
  <2>2. PICK i \in 1..3 :
          /\ Order[i] = p /\ redraw'.reading = redraw.reading
          /\ \A m \in 1..3, j \in 1..3 : /\ Done(m, j)' <=> Done(m, j) \/ (m = 2 /\ j = i)
                                         /\ m < 2 => Done(m, j)
                                         /\ m > 2 => ~Done(m, j)
    BY <2>1, DoneStep, PhaseNumbers
  <2>3. /\ suggested'[p] = Suggestion(p, Received(redraw.reading), Lowest, Highest)
        /\ \A q \in Positions : q # p => suggested'[q] = suggested[q]
    BY <1>0, <1>3 DEF SetSuggestion
  <2>4. ~button[p].listening
    BY <2>2 DEF Redrawing
  <2>5. HitStays'
    BY <1>0, <2>1, <2>3, <2>4 DEF Redrawing, HitStays
  <2>6. QED
    BY <2>1, <2>2, <2>3, <2>4, <2>5, Places DEF Redrawing, ButtonTellsItsVote
<1>4. ASSUME NEW p \in Positions, AddButton(p)
      PROVE  Redrawing'
  <2>1. AtStep("add", p) /\ UNCHANGED <<suggested, click, edt>>
    BY <1>4 DEF AddButton, voteVars
  <2>2. PICK i \in 1..3 :
          /\ Order[i] = p /\ redraw'.reading = redraw.reading
          /\ \A m \in 1..3, j \in 1..3 : /\ Done(m, j)' <=> Done(m, j) \/ (m = 3 /\ j = i)
                                         /\ m < 3 => Done(m, j)
          /\ ~Done(3, i)
    BY <2>1, DoneStep, PhaseNumbers
  <2>3. /\ button'[p].label = suggested[p] /\ ~button'[p].listening
        /\ \A q \in Positions : q # p => button'[q] = button[q]
    BY <1>0, <1>4 DEF AddButton
  <2>4. ~button[p].listening
    BY <2>2 DEF Redrawing
  <2>5. HitStays'
    BY <1>0, <2>1, <2>3, <2>4 DEF Redrawing, HitStays
  <2>6. QED
    BY <2>1, <2>2, <2>3, <2>5, Places DEF Redrawing, ButtonTellsItsVote
<1>5. ASSUME NEW p \in Positions, AddListener(p)
      PROVE  Redrawing'
  <2>1. AtStep("listen", p) /\ UNCHANGED <<suggested, click, edt>>
    BY <1>5 DEF AddListener, voteVars
  <2>2. PICK i \in 1..3 :
          /\ Order[i] = p /\ redraw'.reading = redraw.reading
          /\ \A m \in 1..3, j \in 1..3 : Done(m, j)' /\ Done(m, j)
    BY <2>1, DoneStep, PhaseNumbers
  <2>3. /\ button'[p].label = button[p].label /\ button'[p].listening
        /\ \A q \in Positions : q # p => button'[q] = button[q]
    BY <1>0, <1>5 DEF AddListener
  <2>4. HitStays'
    BY <1>0, <2>1, <2>3 DEF Redrawing, HitStays
  <2>5. QED
    BY <2>1, <2>2, <2>3, <2>4, Places DEF Redrawing, ButtonTellsItsVote
<1>6. CASE Repaint
  <2>1. redraw'.phase = 0 /\ UNCHANGED <<suggested, button, click, edt>>
    BY <1>6, RepaintTaken DEF Repaint, Idle, voteVars
  <2>2. \A m \in 1..3, j \in 1..3 : ~Done(m, j)'
    BY <2>1 DEF Done
  <2>3. QED
    BY <1>6, <2>1, <2>2 DEF Redrawing, ButtonTellsItsVote, HitStays
<1>7. ASSUME NEW p \in Positions, Click(p)
      PROVE  Redrawing'
  <2>1. UNCHANGED <<suggested, button, redraw>>
    BY <1>7 DEF Click, panelVars
  <2>2. /\ button[p].listening
        /\ click'.at = p /\ click'.label = button[p].label
    BY <1>7 DEF Click
  <2>3. HitStays'
    BY <2>1, <2>2 DEF Redrawing, ButtonTellsItsVote, HitStays
  <2>4. QED
    BY <2>1, <2>3 DEF Redrawing, Done, ButtonTellsItsVote
<1>8. ASSUME UNCHANGED <<suggested, button, redraw>>,
             edt' = "clicked" => edt = "clicked" /\ click' = click
      PROVE  Redrawing'
  BY <1>8 DEF Redrawing, Done, ButtonTellsItsVote, HitStays
<1>9. CASE Paint \/ Vote \/ Publishing \/ ConnectionLost \/ UNCHANGED votingVars
  <2>1. UNCHANGED <<suggested, button, redraw>>
    BY <1>9 DEF Paint, Vote, Publishing, CommandArrives, CommandAcknowledged, PublishFails,
                ConnectionLost, votingVars, panelVars
  <2>2. edt' = "clicked" => edt = "clicked" /\ click' = click
    BY <1>9 DEF Paint, Vote, Collect, Publishing, CommandArrives, CommandAcknowledged,
                PublishFails, ConnectionLost, votingVars, voteVars
  <2>3. QED
    BY <1>8, <2>1, <2>2
<1>10. QED
  BY <1>1, <1>2, <1>3, <1>4, <1>5, <1>6, <1>7, <1>9 DEF Next, Redraw

LEMMA RedrawingInvariant == Spec => [](TypeOK /\ UnderWay /\ Redrawing)
<1>1. Init => Redrawing
  <2> SUFFICES ASSUME Init
               PROVE  Redrawing
    OBVIOUS
  <2>1. \A m \in 1..3, j \in 1..3 : ~Done(m, j)
    BY DEF Init, Idle, Done
  <2>2. ButtonTellsItsVote /\ HitStays
    BY DEF Init, NoButton, ButtonTellsItsVote, HitStays
  <2>3. QED
    BY <2>1, <2>2 DEF Redrawing
<1>2. QED
  BY <1>1, RedrawingStep, TypesInvariant, PTL DEF Spec

(* Wherever in a redraw a click and its listener fall, the vote is the     *)
(* number on the button that was hit, unless that very button was removed  *)
(* in between (TemperaturePanel.java:115, 147, 190).                       *)
THEOREM VotingClicks == Spec => []ClickCountsItsNumber
<1>1. Redrawing => ClickCountsItsNumber
  BY DEF Redrawing, HitStays, ClickCountsItsNumber
<1>2. QED
  BY <1>1, RedrawingInvariant, PTL

(* From the moment the buttons are made they suggest what follows from the *)
(* temperature the mote measured, for every range and every temperature in *)
(* it (TemperaturePanel.java:147).                                         *)
THEOREM VotingSuggestions == Spec => []SuggestionsFitRoom
<1>1. TypeOK /\ UnderWay /\ Redrawing => SuggestionsFitRoom
  <2> SUFFICES ASSUME TypeOK, UnderWay, Redrawing, redraw.phase > 2, NEW p \in Positions
               PROVE  LET whole == redraw.reading \div 1000
                          wanted ==
                            [left   |-> IF whole - 2 < Lowest THEN Lowest ELSE whole - 2,
                             center |-> IF whole - 1 < Lowest THEN Lowest ELSE whole - 1,
                             right  |-> IF whole + 1 > Highest THEN Highest ELSE whole + 1]
                      IN  suggested[p] = wanted[p]
    BY DEF SuggestionsFitRoom
  <2>1. PICK i \in 1..3 : Order[i] = p
    BY Places
  <2>2. redraw.phase > 0 /\ Done(2, i)
    BY Places DEF TypeOK, Done
  <2>3. suggested[p] = Suggestion(p, Received(redraw.reading), Lowest, Highest)
    BY <2>1, <2>2 DEF Redrawing
  <2>4. redraw.reading \in Measured
    BY <2>2 DEF UnderWay
  <2>5. redraw.reading \in 1000 * Lowest .. 1000 * Highest
    BY <2>4, MeasuredInRange
  <2>6. Lowest \in Nat /\ Highest \in Nat /\ Lowest < Highest
    BY VotingAssumption
  <2>7. p \in {"left", "center", "right"}
    BY DEF Positions
  <2> DEFINE whole == redraw.reading \div 1000
             s == Suggestion(p, Received(redraw.reading), Lowest, Highest)
  <2>8. /\ p = "left"   => s = IF whole - 2 < Lowest THEN Lowest ELSE whole - 2
        /\ p = "center" => s = IF whole - 1 < Lowest THEN Lowest ELSE whole - 1
        /\ p = "right"  => s = IF whole + 1 > Highest THEN Highest ELSE whole + 1
    BY <2>5, <2>6, <2>7, SuggestionSurvives
  <2> HIDE DEF whole, s
  <2>9. QED
    BY <2>3, <2>7, <2>8 DEF whole, s
<1>2. QED
  BY <1>1, RedrawingInvariant, PTL

-----------------------------------------------------------------------------
(* The votes and the publication. *)
LEMMA VotesStep ==
  ASSUME TypeOK, Votes, [Next]_votingVars
  PROVE  Votes'
<1> USE VotingAssumption
<1>0. /\ counter \in Nat /\ collected \in Nat /\ failed \in Nat
      /\ edt \in {"idle", "clicked", "publishing", "delivered"} /\ client \in {"up", "down"}
      /\ suggested[click.at] \in Nat
  BY DEF TypeOK
<1>1. CASE Vote
  <2>1. /\ edt = "clicked" /\ UNCHANGED <<client, command, failed>>
        /\ counter' = counter + 1 /\ collected' = collected + suggested[click.at]
        /\ edt' = IF counter' >= VotesNeeded /\ client = "up" THEN "publishing" ELSE "idle"
        /\ cast' = [sum |-> cast.sum + suggested[click.at], votes |-> cast.votes + 1]
    BY <1>1 DEF Vote, Collect
  <2>2. cast.sum = collected /\ cast.votes = counter
    BY DEF Votes
  <2>3. cast' = [sum |-> collected', votes |-> counter']
    BY <2>1, <2>2
  <2>4. client = "up" =>
          IF failed = 0 THEN counter < VotesNeeded ELSE counter = VotesNeeded + failed - 1
    BY <2>1 DEF Votes, Waiting
  <2>5. /\ Waiting' => client' = "up" /\ counter' = VotesNeeded + failed'
        /\ client' = "up" /\ ~Waiting' =>
             IF failed' = 0 THEN counter' < VotesNeeded ELSE counter' = VotesNeeded + failed' - 1
    BY <1>0, <2>1, <2>4 DEF Waiting
  <2>6. QED
    BY <2>1, <2>3, <2>5 DEF Votes
<1>2. CASE CommandArrives
  BY <1>0, <1>2 DEF CommandArrives, Votes, Waiting
<1>3. CASE CommandAcknowledged
  BY <1>0, <1>3 DEF CommandAcknowledged, Votes, Waiting
<1>4. CASE PublishFails
  BY <1>0, <1>4 DEF PublishFails, Votes, Waiting
<1>5. CASE ConnectionLost
  BY <1>0, <1>5 DEF ConnectionLost, Votes, Waiting
<1>6. ASSUME NEW p \in Positions, Click(p)
      PROVE  Votes'
  BY <1>6 DEF Click, Votes, Waiting
<1>7. CASE UNCHANGED voteVars
  BY <1>7 DEF voteVars, Votes, Waiting
<1>8. QED
  BY <1>1, <1>2, <1>3, <1>4, <1>5, <1>6, <1>7
     DEF Next, Redraw, ReadingArrives, RemoveButton, SetSuggestion, AddButton, AddListener,
         Repaint, Paint, Publishing, votingVars

(* Each command is the mean of exactly the votes cast since the last       *)
(* acknowledged one: as many as the code asks for, and one more for each   *)
(* publication in between that failed on a connection that was there,      *)
(* whatever that number is and whenever the connection is lost             *)
(* (PublisherTemperature.java:43-52).                                      *)
THEOREM VotingCommands == Spec => []CommandCountsVotes
<1>1. Init => Votes
  BY VotingAssumption DEF Init, Votes, Waiting
<1>2. TypeOK /\ Votes => CommandCountsVotes
  BY DEF TypeOK, Votes, Waiting, CommandCountsVotes
<1>3. QED
  BY <1>1, <1>2, VotesStep, VotingTypes, PTL DEF Spec

-----------------------------------------------------------------------------
(* The date of a reading (TimeSync). *)

(* What a base says about its source: one of the client that runs, or ran  *)
(* last, was not set before that client's reference.                       *)
SoundBase(m) ==
  /\ base[m] <= now
  /\ source[m] <= starts
  /\ base[m] # Never => source[m] >= 1
  /\ base[m] # Never /\ source[m] = starts => reference <= base[m]

(* The same about a reading, which tells its base by the seconds since it. *)
SoundReadings ==
  {r \in [elapsed : 0 .. MaxTime, measured : 0 .. MaxTime, source : 1 .. starts] :
     r.source = starts => reference + r.elapsed <= r.measured}

(* Nothing is on its way to a client that is down, so that no reading      *)
(* meets a reference that is younger than itself.                          *)
ClientFollowed ==
  /\ main # "down" => starts >= 1
  /\ main = "down" => listening = {} /\ \A m \in Motes : reading[m] = <<>>
  /\ reference <= now

Dating ==
  /\ ClientFollowed
  /\ \A m \in Motes :
       /\ SoundBase(m)
       /\ synch[m] \in Seq(1 .. starts)
       /\ reading[m] \in Seq(SoundReadings)
  /\ OwnRowsDatedInTime

(* A sequence stays one over a larger set: an old time_synch message is    *)
(* still one of an earlier client after another start.                     *)
LEMMA SeqGrows ==
  ASSUME NEW S, NEW T, S \subseteq T, NEW s \in Seq(S)
  PROVE  s \in Seq(T)
OBVIOUS

(* The inductive invariant. *)
DatedInOrder == SyncTypeOK /\ Dating

(* At the beginning nothing is synchronised. *)
LEMMA DatingStarts ==
  ASSUME SyncInit
  PROVE  DatedInOrder
BY SyncAssumption, EmptySeq DEF SyncInit, DatedInOrder, SyncTypeOK, Dating, ClientFollowed,
   SoundBase, OwnRowsDatedInTime, NoRow, Never, Times, Motes, Topics

(* What DatedInOrder says about one mote, and what it says about the rest. *)
LEMMA DatedInOrderOf ==
  ASSUME DatedInOrder
  PROVE  /\ MaxTime \in Nat /\ MaxStarts \in Nat
         /\ now \in 0 .. MaxTime /\ starts \in 0 .. MaxStarts /\ reference \in -1 .. MaxTime
         /\ ClientFollowed
         /\ \A m \in Motes :
              /\ base[m] \in -1 .. MaxTime /\ source[m] \in 0 .. MaxStarts
              /\ SoundBase(m)
              /\ synch[m] \in Seq(1 .. starts)
              /\ synch[m] \in Seq(1 .. MaxStarts)
              /\ reading[m] \in Seq(SoundReadings)
BY SyncAssumption DEF DatedInOrder, SyncTypeOK, Times, Never, Dating

(* A new start makes all bases and readings those of an earlier client,    *)
(* and nothing is on its way to the new one.                               *)
LEMMA StartKeepsDating ==
  ASSUME DatedInOrder, Start
  PROVE  DatedInOrder'
<1>1. /\ UNCHANGED <<now, listening, online, base, source, synch, reading, row>>
      /\ main = "down" /\ main' = "starting" /\ made' = 0 /\ reference' = now
      /\ starts' = starts + 1 /\ starts < MaxStarts
  BY DEF Start, moteVars, dataVars
<1>2. starts' \in 1 .. MaxStarts /\ starts < starts' /\ reference' \in 0 .. MaxTime
  BY <1>1, DatedInOrderOf
<1>3. ASSUME NEW m \in Motes
      PROVE  SoundBase(m)' /\ synch'[m] \in Seq(1 .. starts') /\ reading'[m] \in Seq(SoundReadings')
  <2>1. synch'[m] \in Seq(1 .. starts')
    <3>1. 1 .. starts \subseteq 1 .. starts'
      BY <1>1, <1>2, DatedInOrderOf
    <3> QED
      BY <1>1, <3>1, SeqGrows, DatedInOrderOf
  <2>2. reading'[m] \in Seq(SoundReadings')
    <3>1. reading[m] = <<>>
      BY <1>1, DatedInOrderOf DEF ClientFollowed
    <3> QED
      BY <1>1, <3>1, EmptySeq
  <2>3. SoundBase(m)'
    BY <1>1, <1>2, DatedInOrderOf DEF SoundBase
  <2> QED
    BY <2>1, <2>2, <2>3
<1>4. ClientFollowed'
  BY <1>1, <1>2, DatedInOrderOf DEF ClientFollowed
<1>5. SyncTypeOK'
  <2>1. made' \in 0 .. Len(Topics)
    BY <1>1 DEF Topics
  <2>2. starts' \in 0 .. MaxStarts /\ reference' \in Times
    BY <1>2 DEF Times, Never
  <2> QED
    BY <1>1, <2>1, <2>2 DEF DatedInOrder, SyncTypeOK
<1>6. OwnRowsDatedInTime'
  BY <1>1 DEF DatedInOrder, Dating, OwnRowsDatedInTime
<1> QED
  BY <1>3, <1>4, <1>5, <1>6 DEF DatedInOrder, Dating

(* The other steps of the client; only the broadcast of its number matters. *)
LEMMA ClientKeepsDating ==
  ASSUME DatedInOrder,
         Subscribe \/ SubscribeFails \/ Synchronize \/ Exit
  PROVE  DatedInOrder'
<1>1. CASE Subscribe
  <2>1. /\ UNCHANGED <<now, starts, main, reference, online, base, source, synch, reading, row>>
        /\ main = "starting" /\ made < Len(Topics) /\ made' = made + 1
        /\ listening' = listening \cup {Topics[made']}
    BY <1>1 DEF Subscribe, moteVars, dataVars
  <2>2. made' \in 1 .. 2 /\ made' \in 0 .. Len(Topics)
    BY <2>1 DEF DatedInOrder, SyncTypeOK, Topics
  <2>3. listening' \subseteq Motes
    <3>1. Topics[made'] \in Motes
      BY <2>2 DEF Topics, Motes
    <3> QED
      BY <2>1, <3>1 DEF DatedInOrder, SyncTypeOK
  <2>4. SyncTypeOK'
    BY <2>1, <2>2, <2>3 DEF DatedInOrder, SyncTypeOK
  <2>5. Dating'
    BY <2>1 DEF DatedInOrder, Dating, ClientFollowed, SoundBase, SoundReadings, OwnRowsDatedInTime
  <2> QED
    BY <2>4, <2>5 DEF DatedInOrder
<1>2. CASE SubscribeFails
  <2>1. /\ UNCHANGED <<now, starts, made, reference, listening, online, base, source, synch, reading, row>>
        /\ main = "starting" /\ main' = "failed"
    BY <1>2 DEF SubscribeFails, moteVars, dataVars
  <2> QED
    BY <2>1 DEF DatedInOrder, SyncTypeOK, Dating, ClientFollowed, SoundBase, SoundReadings,
                OwnRowsDatedInTime
<1>3. CASE Synchronize
  <2>1. /\ UNCHANGED <<now, starts, made, reference, listening, online, base, source, reading, row>>
        /\ main = "starting" /\ main' = "running"
        /\ SendSynch \/ UNCHANGED synch
    BY <1>3 DEF Synchronize, moteVars, dataVars
  <2>2. starts \in 1 .. starts /\ starts \in 1 .. MaxStarts
    BY <2>1, DatedInOrderOf DEF ClientFollowed
  <2>3. \A m \in Motes : synch'[m] \in {synch[m], Append(synch[m], starts)}
    BY <2>1 DEF SendSynch
  <2>4. ASSUME NEW m \in Motes
        PROVE  synch'[m] \in Seq(1 .. starts) /\ synch'[m] \in Seq(1 .. MaxStarts)
    <3>1. synch[m] \in Seq(1 .. starts) /\ synch[m] \in Seq(1 .. MaxStarts)
      BY DatedInOrderOf
    <3>2. /\ Append(synch[m], starts) \in Seq(1 .. starts)
          /\ Append(synch[m], starts) \in Seq(1 .. MaxStarts)
      BY <2>2, <3>1, AppendProperties
    <3> QED
      BY <2>3, <3>1, <3>2
  <2>5. synch' \in [Motes -> Seq(1 .. MaxStarts)]
    <3>1. synch' = [m \in Motes |-> synch'[m]]
      BY <2>1 DEF SendSynch, DatedInOrder, SyncTypeOK
    <3> QED
      BY <2>4, <3>1
  <2>6. SyncTypeOK'
    BY <2>1, <2>5 DEF DatedInOrder, SyncTypeOK
  <2>7. Dating'
    BY <2>1, <2>4 DEF DatedInOrder, Dating, ClientFollowed, SoundBase, SoundReadings,
                      OwnRowsDatedInTime
  <2> QED
    BY <2>6, <2>7 DEF DatedInOrder
<1>4. CASE Exit
  <2>1. /\ UNCHANGED <<now, starts, made, reference, online, base, source, synch, row>>
        /\ main' = "down" /\ listening' = {} /\ reading' = [m \in Motes |-> <<>>]
    BY <1>4 DEF Exit, moteVars
  <2>2. SyncTypeOK'
    BY <2>1, EmptySeq DEF DatedInOrder, SyncTypeOK
  <2>3. Dating'
    BY <2>1, EmptySeq DEF DatedInOrder, Dating, ClientFollowed, SoundBase, OwnRowsDatedInTime
  <2> QED
    BY <2>2, <2>3 DEF DatedInOrder
<1> QED
  BY <1>1, <1>2, <1>3, <1>4

(* What is under way from one mote may change as long as all of it is      *)
(* sound.                                                                  *)
LEMMA ReadingsKeepDating ==
  ASSUME DatedInOrder, NEW m \in Motes,
         SubscriberLost(m) \/ Receive(m) \/ Publish(m)
  PROVE  DatedInOrder'
<1> DEFINE Sent == [elapsed : 0 .. MaxTime, measured : 0 .. MaxTime, source : 1 .. MaxStarts]
           Rows == [reference : Times, dated : Never .. 2 * MaxTime,
                    measured : Times, own : BOOLEAN]
<1>0. SoundReadings \subseteq Sent /\ reading[m] \in Seq(SoundReadings)
  BY DatedInOrderOf DEF SoundReadings
<1>1. ASSUME UNCHANGED <<now, starts, main, made, reference, online, base, source, synch>>,
             listening' \subseteq listening,
             NEW s \in Seq(SoundReadings), reading' = [reading EXCEPT ![m] = s],
             main = "down" => s = <<>>,
             row' \in [Motes -> Rows], OwnRowsDatedInTime'
      PROVE  DatedInOrder'
  <2>1. s \in Seq(Sent)
    BY <1>0, SeqGrows
  <2>2. reading' \in [Motes -> Seq(Sent)]
    BY <1>1, <2>1 DEF DatedInOrder, SyncTypeOK
  <2>3. \A k \in Motes : reading'[k] \in {reading[k], s}
    BY <1>1 DEF DatedInOrder, SyncTypeOK
  <2>4. SyncTypeOK'
    BY <1>1, <2>2 DEF DatedInOrder, SyncTypeOK
  <2>5. Dating'
    BY <1>1, <2>3 DEF DatedInOrder, Dating, ClientFollowed, SoundBase, SoundReadings
  <2> QED
    BY <2>4, <2>5 DEF DatedInOrder
<1>2. row \in [Motes -> Rows] /\ OwnRowsDatedInTime
  BY DEF DatedInOrder, SyncTypeOK, Dating
<1>3. UNCHANGED row => OwnRowsDatedInTime'
  BY <1>2 DEF OwnRowsDatedInTime
<1>4. CASE SubscriberLost(m)
  <2>1. /\ UNCHANGED <<now, starts, main, made, reference, online, base, source, synch, row>>
        /\ listening' \subseteq listening /\ reading' = [reading EXCEPT ![m] = <<>>]
    BY <1>4 DEF SubscriberLost, moteVars
  <2>2. <<>> \in Seq(SoundReadings)
    BY EmptySeq
  <2> HIDE DEF Rows
  <2> QED
    BY <1>1, <1>2, <1>3, <2>1, <2>2
<1>5. CASE Receive(m)
  <2> DEFINE r == Head(reading[m])
  <2>1. /\ reading[m] # <<>> /\ reading' = [reading EXCEPT ![m] = Tail(reading[m])]
        /\ UNCHANGED <<now, starts, main, made, reference, listening, online, base, source, synch>>
        /\ row' \in {row, [row EXCEPT ![m] = [reference |-> reference,
                                              dated     |-> reference + r.elapsed,
                                              measured  |-> r.measured,
                                              own       |-> r.source = starts]]}
    BY <1>5 DEF Receive, Dated, clientVars, moteVars
  <2>2. r \in SoundReadings /\ Tail(reading[m]) \in Seq(SoundReadings)
    BY <1>0, <2>1, HeadTailProperties
  <2>3. main # "down"
    BY <2>1, DatedInOrderOf DEF ClientFollowed
  <2> HIDE DEF r
  <2>4. /\ r.elapsed \in 0 .. MaxTime /\ r.measured \in 0 .. MaxTime
        /\ r.source = starts => reference + r.elapsed <= r.measured
    BY <2>2 DEF SoundReadings
  <2>5. reference + r.elapsed \in -1 .. 2 * MaxTime /\ reference <= reference + r.elapsed
    BY <2>4, DatedInOrderOf
  <2> DEFINE stored == [reference |-> reference, dated |-> reference + r.elapsed,
                        measured |-> r.measured, own |-> r.source = starts]
  <2>6. stored \in Rows
    BY <2>4, <2>5, DatedInOrderOf DEF Times, Never
  <2>7. stored.own => stored.reference <= stored.dated /\ stored.dated <= stored.measured
    BY <2>4, <2>5
  <2>8. row' \in {row, [row EXCEPT ![m] = stored]}
    BY <2>1
  <2> HIDE DEF stored, Rows
  <2>9. row' \in [Motes -> Rows] /\ OwnRowsDatedInTime'
    BY <1>2, <2>6, <2>7, <2>8 DEF OwnRowsDatedInTime
  <2> QED
    BY <1>1, <2>1, <2>2, <2>3, <2>9
<1>6. CASE Publish(m)
  <2> DEFINE r == [elapsed |-> now - base[m], measured |-> now, source |-> source[m]]
  <2>1. /\ base[m] # -1 /\ m \in listening
        /\ reading' = [reading EXCEPT ![m] = Append(reading[m], r)]
        /\ UNCHANGED <<now, starts, main, made, reference, listening, online, base, source, synch, row>>
    BY <1>6 DEF Publish, HasBase, Never, clientVars, moteVars
  <2>2. main # "down"
    BY <2>1, DatedInOrderOf DEF ClientFollowed
  <2>3. /\ now - base[m] \in 0 .. MaxTime /\ source[m] \in 1 .. starts
        /\ source[m] = starts => reference + (now - base[m]) <= now
    BY <2>1, DatedInOrderOf DEF SoundBase, Never
  <2>4. r \in SoundReadings
    BY <2>3, DatedInOrderOf DEF SoundReadings
  <2> HIDE DEF r, Rows
  <2>5. Append(reading[m], r) \in Seq(SoundReadings)
    BY <1>0, <2>4, AppendProperties
  <2> QED
    BY <1>1, <1>2, <1>3, <2>1, <2>2, <2>5
<1> QED
  BY <1>4, <1>5, <1>6

(* A base changes to the present time, with the number of a client that    *)
(* has been started, or to none.                                           *)
LEMMA MoteKeepsDating ==
  ASSUME DatedInOrder, NEW m \in Motes,
         TimeSynch(m) \/ GoOffline(m) \/ GoOnline(m)
  PROVE  DatedInOrder'
<1>1. ASSUME UNCHANGED <<now, starts, main, made, reference, listening, reading, row>>,
             online' \subseteq Motes,
             NEW s \in Seq(1 .. starts), s \in Seq(1 .. MaxStarts),
             synch' = synch \/ synch' = [synch EXCEPT ![m] = s],
             NEW b \in -1 .. MaxTime, NEW f \in 0 .. MaxStarts,
             base' = [base EXCEPT ![m] = b], source' = [source EXCEPT ![m] = f],
             b <= now, f <= starts,
             b # -1 => f >= 1,
             b # -1 /\ f = starts => reference <= b
      PROVE  DatedInOrder'
  <2>1. SyncTypeOK'
    BY <1>1 DEF DatedInOrder, SyncTypeOK, Times, Never
  <2>2. \A k \in Motes : synch'[k] \in Seq(1 .. starts)
    BY <1>1, DatedInOrderOf DEF DatedInOrder, SyncTypeOK
  <2>3. ASSUME NEW k \in Motes
        PROVE  SoundBase(k)'
    <3>1. CASE k = m
      BY <1>1, <3>1 DEF DatedInOrder, SyncTypeOK, SoundBase, Never
    <3>2. CASE k # m
      BY <1>1, <3>2 DEF DatedInOrder, SyncTypeOK, Dating, SoundBase
    <3> QED
      BY <3>1, <3>2
  <2>4. Dating'
    BY <1>1, <2>2, <2>3 DEF DatedInOrder, Dating, ClientFollowed, SoundReadings,
                            OwnRowsDatedInTime
  <2> QED
    BY <2>1, <2>4 DEF DatedInOrder
<1>2. /\ base[m] \in -1 .. MaxTime /\ source[m] \in 0 .. MaxStarts
      /\ base = [base EXCEPT ![m] = base[m]] /\ source = [source EXCEPT ![m] = source[m]]
      /\ base[m] <= now /\ source[m] <= starts
      /\ base[m] # -1 => source[m] >= 1
      /\ base[m] # -1 /\ source[m] = starts => reference <= base[m]
  BY DatedInOrderOf DEF DatedInOrder, SyncTypeOK, SoundBase, Never
<1>3. /\ now \in 0 .. MaxTime /\ starts \in 0 .. MaxStarts /\ reference <= now
      /\ -1 \in -1 .. MaxTime /\ 0 \in 0 .. MaxStarts
      /\ online \subseteq Motes
  <2>1. now \in 0 .. MaxTime /\ starts \in 0 .. MaxStarts /\ MaxTime \in Nat /\ MaxStarts \in Nat
    BY DatedInOrderOf
  <2>2. reference <= now
    BY DatedInOrderOf DEF ClientFollowed
  <2>3. online \subseteq Motes
    BY DEF DatedInOrder, SyncTypeOK
  <2> QED
    BY <2>1, <2>2, <2>3
<1>4. CASE TimeSynch(m)
  <2>1. /\ synch[m] # <<>> /\ synch' = [synch EXCEPT ![m] = Tail(synch[m])]
        /\ base' = [base EXCEPT ![m] = now]
        /\ source' = [source EXCEPT ![m] = Head(synch[m])]
        /\ UNCHANGED <<now, starts, main, made, reference, listening, online, reading, row>>
    BY <1>4 DEF TimeSynch, clientVars, dataVars
  <2>2. Head(synch[m]) \in 1 .. starts /\ Tail(synch[m]) \in Seq(1 .. starts)
    BY <2>1, HeadTailProperties, DatedInOrderOf
  <2>3. Tail(synch[m]) \in Seq(1 .. MaxStarts)
    BY <2>1, HeadTailProperties, DatedInOrderOf
  <2> DEFINE f == Head(synch[m])
  <2> HIDE DEF f
  <2>4. f \in 0 .. MaxStarts /\ f <= starts /\ f >= 1 /\ now \in -1 .. MaxTime /\ now <= now
    <3>1. f \in 1 .. starts
      BY <2>2 DEF f
    <3>2. MaxTime \in Nat /\ MaxStarts \in Nat
      BY DatedInOrderOf
    <3> QED
      BY <1>3, <3>1, <3>2
  <2>5. source' = [source EXCEPT ![m] = f]
    BY <2>1 DEF f
  <2> QED
    BY <1>1, <1>3, <2>1, <2>2, <2>3, <2>4, <2>5
<1>5. CASE GoOffline(m)
  <2>1. /\ synch' = [synch EXCEPT ![m] = <<>>] /\ online' \subseteq online
        /\ UNCHANGED <<now, starts, main, made, reference, listening, reading, row>>
        /\ \/ UNCHANGED <<base, source>>
           \/ base' = [base EXCEPT ![m] = -1] /\ source' = [source EXCEPT ![m] = 0]
    BY <1>5 DEF GoOffline, clientVars, dataVars, Never
  <2>2. <<>> \in Seq(1 .. starts) /\ <<>> \in Seq(1 .. MaxStarts)
    BY EmptySeq
  <2>3. CASE UNCHANGED <<base, source>>
    BY <1>1, <1>2, <1>3, <2>1, <2>2, <2>3
  <2>4. CASE base' = [base EXCEPT ![m] = -1] /\ source' = [source EXCEPT ![m] = 0]
    <3>1. -1 <= now /\ 0 <= starts /\ -1 \in -1 .. MaxTime
      BY <1>3
    <3> QED
      BY <1>1, <1>3, <2>1, <2>2, <2>4, <3>1
  <2> QED
    BY <2>1, <2>3, <2>4
<1>6. CASE GoOnline(m)
  <2>1. /\ online' = online \cup {m}
        /\ UNCHANGED <<now, starts, main, made, reference, listening, base, source, synch, reading, row>>
    BY <1>6 DEF GoOnline, clientVars, dataVars
  <2>2. <<>> \in Seq(1 .. starts) /\ <<>> \in Seq(1 .. MaxStarts)
    BY EmptySeq
  <2> QED
    BY <1>1, <1>2, <1>3, <2>1, <2>2
<1> QED
  BY <1>4, <1>5, <1>6

(* Dating is kept by every step. *)
LEMMA DatingInductive ==
  ASSUME DatedInOrder, [SyncNext]_syncVars
  PROVE  DatedInOrder'
<1>1. CASE Tick
  <2>1. /\ now < MaxTime /\ now' = now + 1
        /\ UNCHANGED <<starts, main, made, reference, listening, online, base, source, synch,
                       reading, row>>
    BY <1>1 DEF Tick, clientVars, moteVars, dataVars
  <2>2. now' \in 0 .. MaxTime /\ now < now'
    BY <2>1, DatedInOrderOf
  <2>3. \A m \in Motes : SoundBase(m)'
    BY <2>1, DatedInOrderOf DEF SoundBase
  <2>4. ClientFollowed'
    BY <2>1, DatedInOrderOf DEF ClientFollowed
  <2>5. SyncTypeOK'
    BY <2>1, <2>2 DEF DatedInOrder, SyncTypeOK
  <2>6. Dating'
    BY <2>1, <2>3, <2>4 DEF DatedInOrder, Dating, SoundReadings, OwnRowsDatedInTime
  <2> QED
    BY <2>5, <2>6 DEF DatedInOrder
<1>2. CASE UNCHANGED syncVars
  <2>1. UNCHANGED <<now, starts, main, made, reference, listening, online, base, source, synch,
                    reading, row>>
    BY <1>2 DEF syncVars, clientVars, moteVars, dataVars
  <2> QED
    BY <2>1 DEF DatedInOrder, SyncTypeOK, Dating, ClientFollowed, SoundBase, SoundReadings,
                OwnRowsDatedInTime
<1> QED
  BY <1>1, <1>2, StartKeepsDating, ClientKeepsDating, ReadingsKeepDating, MoteKeepsDating
  DEF SyncNext

LEMMA DatedInOrderHolds == SyncSpec => []DatedInOrder
<1>1. SyncInit => DatedInOrder
  BY DatingStarts
<1>2. DatedInOrder /\ [SyncNext]_syncVars => DatedInOrder'
  BY DatingInductive
<1> QED
  BY <1>1, <1>2, PTL DEF SyncSpec

(* Every variable of the client and the motes keeps its type: in           *)
(* particular the seconds a mote counts are never negative                 *)
(* (noise-sensor.c:249), for any number of starts and any time.            *)
THEOREM SyncTypes == SyncSpec => []SyncTypeOK
<1>1. DatedInOrder => SyncTypeOK
  BY DEF DatedInOrder
<1> QED
  BY <1>1, DatedInOrderHolds, PTL

(* A row of a mote that was synchronised by the client that stored it is   *)
(* dated between that client's start and the measurement, however late the *)
(* mote heard of it, for any number of starts (Main.java:25,               *)
(* noise-sensor.c:249).                                                    *)
THEOREM SyncOwnRowsDated == SyncSpec => []OwnRowsDatedInTime
<1>1. DatedInOrder => OwnRowsDatedInTime
  BY DEF DatedInOrder, Dating
<1> QED
  BY <1>1, DatedInOrderHolds, PTL
=============================================================================
