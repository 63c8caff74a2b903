--------------------------- MODULE SeatPanelProofs --------------------------
(* Theorems about SeatPanel, for any seats, tests and number of loads.     *)
EXTENDS SeatPanel, TLAPS

(* The label of the field can only be missing from the panel while a       *)
(* redraw that will add it has not come to its end.                        *)
Missing ==
  label \notin components =>
    \E s \in Seats : step[s] \in {"choose", "label", "add"}

(* Every variable of the panel keeps its type (SeatPanel.java:65-103,      *)
(* SeatMonitoring.java:34-40).                                             *)
THEOREM PanelTypes == Spec => []TypeOK
<1>1. Init => TypeOK
  BY PanelAssumption DEF Init, TypeOK, Labels
<1>2. TypeOK /\ [Next]_panelVars => TypeOK'
  <2> SUFFICES ASSUME TypeOK, [Next]_panelVars
               PROVE  TypeOK'
    OBVIOUS
  <2> USE PanelAssumption DEF TypeOK, Labels
  <2>1. ASSUME NEW s \in Seats, NEW free \in BOOLEAN, Load(s, free)
        PROVE  TypeOK'
    BY <2>1 DEF Load
  <2>2. ASSUME NEW s \in Seats, RemoveLabel(s)
        PROVE  TypeOK'
    BY <2>2 DEF RemoveLabel
  <2>3. ASSUME NEW s \in Seats, Choose(s)
        PROVE  TypeOK'
    <3>1. Occupied \in SUBSET Seats /\ Len(Tests) \in Nat
      BY DEF Occupied
    <3>2. /\ UNCHANGED <<state, label, components, made, lone>>
          /\ test' = test \/ test' = [test EXCEPT ![s] = test[s] + 1]
          /\ test' # test => test[s] < Len(Tests)
          /\ picture' \in {picture, [picture EXCEPT ![s] = Occupied],
                                   [picture EXCEPT ![s] = {}]}
          /\ step' \in {step, [step EXCEPT ![s] = "label"]}
      BY <2>3 DEF Choose
    <3>3. test' \in [Seats -> 1 .. Len(Tests)]
      BY <3>1, <3>2
    <3>4. picture' \in [Seats -> SUBSET Seats]
      BY <3>1, <3>2
    <3>5. QED
      BY <3>2, <3>3, <3>4
  <2>4. ASSUME NEW s \in Seats, MakeLabel(s)
        PROVE  TypeOK'
    BY <2>4 DEF MakeLabel
  <2>5. ASSUME NEW s \in Seats, AddLabel(s)
        PROVE  TypeOK'
    BY <2>5 DEF AddLabel
  <2>6. CASE UNCHANGED panelVars
    BY <2>6 DEF panelVars
  <2>7. QED
    BY <2>1, <2>2, <2>3, <2>4, <2>5, <2>6 DEF Next, ChangeState
<1>3. QED
  BY <1>1, <1>2, PTL DEF Spec

(* However the redraws of the observers interleave, the table does not     *)
(* vanish: when all are done, the label of the field is in the panel.      *)
THEOREM PanelTableShown == Spec => []TableShown
<1>1. Init => Missing
  BY DEF Init, Missing
<1>2. TypeOK /\ Missing /\ [Next]_panelVars => Missing'
  <2> SUFFICES ASSUME TypeOK, Missing, [Next]_panelVars
               PROVE  Missing'
    OBVIOUS
  <2> USE DEF Missing, TypeOK
  <2>1. ASSUME NEW s \in Seats, NEW free \in BOOLEAN, Load(s, free)
        PROVE  Missing'
    BY <2>1 DEF Load
  <2>2. ASSUME NEW s \in Seats, RemoveLabel(s)
        PROVE  Missing'
    BY <2>2 DEF RemoveLabel
  <2>3. ASSUME NEW s \in Seats, Choose(s)
        PROVE  Missing'
    BY <2>3 DEF Choose
  <2>4. ASSUME NEW s \in Seats, MakeLabel(s)
        PROVE  Missing'
    BY <2>4 DEF MakeLabel
  <2>5. ASSUME NEW s \in Seats, AddLabel(s)
        PROVE  Missing'
    BY <2>5 DEF AddLabel
  <2>6. CASE UNCHANGED panelVars
    BY <2>6 DEF panelVars
  <2>7. QED
    BY <2>1, <2>2, <2>3, <2>4, <2>5, <2>6 DEF Next, ChangeState
<1>3. Missing => TableShown
  BY DEF Missing, TableShown, Quiet
<1>4. QED
  BY <1>1, <1>2, <1>3, PanelTypes, PTL DEF Spec

-----------------------------------------------------------------------------
(* While an observer redraws a tidy panel alone all others are idle, and   *)
(* what it has done so far is in the panel: no test before the one it is   *)
(* at recognises the array, which nobody writes in the meantime.           *)
Repairing(s) ==
  /\ \A u \in Seats \ {s} : step[u] = "idle"
  /\ step[s] = "remove" => components = {label}
  /\ step[s] = "choose" =>
       /\ components = {}
       /\ \A i \in 1 .. Len(Tests) : i < test[s] => Tests[i] # Occupied
  /\ step[s] = "label" => components = {} /\ picture[s] = Occupied
  /\ step[s] = "add" => components = {} /\ label.picture = Occupied
  /\ step[s] = "idle" => components = {label} /\ label.picture = Occupied

Repair == \A s \in lone : Repairing(s)

(* A step of the lone observer. *)
LEMMA RepairGoesOn ==
  ASSUME TypeOK, NEW s \in Seats, Repairing(s), ChangeState(s)
  PROVE  Repairing(s)'
<1> USE PanelAssumption DEF Repairing
<1>0. /\ step \in [Seats -> {"idle", "remove", "choose", "label", "add"}]
      /\ test \in [Seats -> 1 .. Len(Tests)] /\ Len(Tests) \in Nat
      /\ picture \in [Seats -> SUBSET Seats]
      /\ Occupied \in SUBSET Seats
  BY DEF TypeOK, Occupied
<1>1. Occupied' = Occupied
  BY DEF ChangeState, RemoveLabel, Choose, MakeLabel, AddLabel, Occupied
<1>2. CASE RemoveLabel(s)
  <2>1. /\ step[s] = "remove" /\ step' = [step EXCEPT ![s] = "choose"]
        /\ test' = [test EXCEPT ![s] = 1] /\ components' = components \ {label}
    BY <1>2 DEF RemoveLabel
  <2>2. step'[s] = "choose" /\ test'[s] = 1 /\ components' = {}
    BY <1>0, <2>1
  <2>3. QED
    BY <1>0, <2>1, <2>2
<1>3. CASE Choose(s)
  <2>1. step[s] = "choose" /\ components' = {} /\ UNCHANGED label
    BY <1>3 DEF Choose
  <2>2. CASE Tests[test[s]] = Occupied
    <3>1. /\ picture' = [picture EXCEPT ![s] = Occupied]
          /\ step' = [step EXCEPT ![s] = "label"]
      BY <1>3, <2>2 DEF Choose
    <3>2. QED
      BY <1>0, <1>1, <2>1, <3>1
  <2>3. CASE Tests[test[s]] # Occupied /\ test[s] < Len(Tests)
    <3>1. test' = [test EXCEPT ![s] = @ + 1] /\ step' = step
      BY <1>0, <1>3, <2>3 DEF Choose
    <3>2. test'[s] = test[s] + 1
      BY <1>0, <3>1
    <3>3. \A i \in 1 .. Len(Tests) : i < test'[s] => Tests[i] # Occupied
      BY <1>0, <2>1, <2>3, <3>2
    <3>4. QED
      BY <1>0, <1>1, <2>1, <3>1, <3>3
  <2>4. CASE Tests[test[s]] # Occupied /\ test[s] = Len(Tests)
    <3>1. \A i \in 1 .. Len(Tests) : Tests[i] # Occupied
      BY <1>0, <2>1, <2>4
    <3>2. Occupied = {}
      BY <1>0, <3>1, TestsAssumption
    <3>3. /\ picture' = [picture EXCEPT ![s] = {}]
          /\ step' = [step EXCEPT ![s] = "label"]
      BY <1>0, <1>3, <2>4 DEF Choose
    <3>4. QED
      BY <1>0, <1>1, <2>1, <3>2, <3>3
  <2>5. QED
    BY <1>0, <2>2, <2>3, <2>4
<1>4. CASE MakeLabel(s)
  <2>1. /\ step[s] = "label" /\ step' = [step EXCEPT ![s] = "add"]
        /\ label' = [number |-> made', picture |-> picture[s]] /\ UNCHANGED components
    BY <1>4 DEF MakeLabel
  <2>2. step'[s] = "add" /\ label'.picture = Occupied
    BY <1>0, <2>1
  <2>3. QED
    BY <1>0, <1>1, <2>1, <2>2
<1>5. CASE AddLabel(s)
  <2>1. /\ step[s] = "add" /\ step' = [step EXCEPT ![s] = "idle"]
        /\ components' = {label} /\ UNCHANGED label
    BY <1>5 DEF AddLabel
  <2>2. QED
    BY <1>0, <1>1, <2>1
<1>6. QED
  BY <1>2, <1>3, <1>4, <1>5 DEF ChangeState

(* A redraw that starts on a tidy panel and is not interrupted leaves one  *)
(* label, with the present picture, whatever the panel showed before, as   *)
(* long as the tests of changeState are complete                           *)
(* (ui/SeatPanel.java:65-97).                                              *)
THEOREM PanelLoneRedraw == Spec => []LoneRedrawRepairs
<1>1. Init => Repair
  BY DEF Init, Repair
<1>2. TypeOK /\ Repair /\ [Next]_panelVars => Repair'
  <2> SUFFICES ASSUME TypeOK, Repair, [Next]_panelVars
               PROVE  Repair'
    OBVIOUS
  <2>0. /\ step \in [Seats -> {"idle", "remove", "choose", "label", "add"}]
        /\ lone \subseteq Seats
    BY DEF TypeOK
  <2>1. ASSUME NEW s \in Seats, NEW free \in BOOLEAN, Load(s, free)
        PROVE  Repair'
    <3>1. CASE Quiet /\ components = {label}
      <4>1. /\ lone' = {s} /\ UNCHANGED <<components, label>>
            /\ step' = [step EXCEPT ![s] = "remove"]
        BY <2>1, <3>1 DEF Load
      <4>2. /\ step'[s] = "remove"
            /\ \A u \in Seats \ {s} : step'[u] = "idle"
        BY <2>0, <3>1, <4>1 DEF Quiet
      <4>3. Repairing(s)'
        BY <3>1, <4>1, <4>2 DEF Repairing
      <4>4. QED
        BY <4>1, <4>3 DEF Repair
    <3>2. CASE ~(Quiet /\ components = {label})
      BY <2>1, <3>2 DEF Load, Repair
    <3>3. QED
      BY <3>1, <3>2
  <2>2. ASSUME NEW s \in Seats, ChangeState(s)
        PROVE  Repair'
    <3>1. lone' = lone /\ step[s] # "idle"
      BY <2>2 DEF ChangeState, RemoveLabel, Choose, MakeLabel, AddLabel
    <3>2. \A u \in lone : u = s
      BY <2>0, <3>1 DEF Repair, Repairing
    <3>3. s \in lone => Repairing(s)'
      BY <2>2, RepairGoesOn DEF Repair
    <3>4. QED
      BY <3>1, <3>2, <3>3 DEF Repair
  <2>3. CASE UNCHANGED panelVars
    BY <2>3 DEF panelVars, Repair, Repairing, Occupied
  <2>4. QED
    BY <2>1, <2>2, <2>3 DEF Next
<1>3. TypeOK /\ Repair => LoneRedrawRepairs
  BY DEF TypeOK, Repair, Repairing, LoneRedrawRepairs, Quiet
<1>4. QED
  BY <1>1, <1>2, <1>3, PanelTypes, PTL DEF Spec
=============================================================================
