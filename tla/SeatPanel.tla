------------------------------ MODULE SeatPanel -----------------------------
(***************************************************************************)
(* The client's picture of the table (ui/SeatPanel.java) and the array of  *)
(* seat states behind it (seatMonitoring/SeatMonitoring.java).             *)
(*                                                                         *)
(* Each seat has an observer whose notifications are handled one after the *)
(* other, by a thread of the CoAP library.  The observers of different     *)
(* seats run at the same time, write one shared array and each redraw the  *)
(* one panel, without a lock and outside of the event thread.  A picture   *)
(* is named by the seats it shows as occupied.                             *)
(*                                                                         *)
(* The panel draws on top what was added first.  The field only ever goes  *)
(* on to newer labels, and labels are added from the field: so the oldest  *)
(* label in the panel is on top, and the panel needs no order of its own.  *)
(***************************************************************************)
EXTENDS Naturals, Sequences, FiniteSets

CONSTANTS
  Seats,       \* the seats that are observed
  Tests,       \* the seats occupied in each test of changeState, in order
  MaxLoads     \* bound: notifications handled in a behaviour

ASSUME PanelAssumption ==
  /\ IsFiniteSet(Seats)
  /\ Tests \in Seq(SUBSET Seats) /\ Tests # <<>>
  /\ MaxLoads \in Nat

(* The tests of changeState leave no combination of the observed seats out. *)
ASSUME TestsAssumption ==
  \A S \in SUBSET Seats : S # {} => \E i \in 1 .. Len(Tests) : Tests[i] = S

VARIABLES
  state,        \* the shared array: FALSE where somebody sits
  step,         \* what the observer of each seat does next
  test,         \* the number of the test it is at
  picture,      \* the picture it has chosen (type_configuration)
  label,        \* the field label_table_image: a label's number and picture
  components,   \* the labels in the panel
  made,         \* number of labels made so far
  lone          \* history: the observers that redraw a tidy panel alone

panelVars == <<state, step, test, picture, label, components, made, lone>>

Occupied == {s \in Seats : ~state[s]}

-----------------------------------------------------------------------------

Init ==
  /\ state = [s \in Seats |-> TRUE]
  /\ step = [s \in Seats |-> "idle"]
  /\ test = [s \in Seats |-> 1]
  /\ picture = [s \in Seats |-> {}]
  /\ label = [number |-> 0, picture |-> {}]
  /\ components = {label}
  /\ made = 0
  /\ lone = {}

Quiet == \A s \in Seats : step[s] = "idle"

(* onLoad: the state of the seat is stored, and the panel redrawn. *)
Load(s, free) ==
  /\ step[s] = "idle"
  /\ made + Cardinality({u \in Seats : step[u] # "idle"}) < MaxLoads
  /\ state' = [state EXCEPT ![s] = free]
  /\ step' = [step EXCEPT ![s] = "remove"]
  /\ lone' = IF Quiet /\ components = {label} THEN {s} ELSE {}
  /\ UNCHANGED <<test, picture, label, components, made>>

(* Variants of RemoveLabel: the old label is left where it is, and the     *)
(* tests begin before the first.                                           *)
RemoveLabelNever(s) ==
  /\ step[s] = "remove"
  /\ step' = [step EXCEPT ![s] = "choose"]
  /\ test' = [test EXCEPT ![s] = 1]
  /\ UNCHANGED <<state, picture, label, components, made, lone>>

RemoveLabelTestZero(s) ==
  /\ step[s] = "remove"
  /\ step' = [step EXCEPT ![s] = "choose"]
  /\ test' = [test EXCEPT ![s] = 0]
  /\ components' = components \ {label}
  /\ UNCHANGED <<state, picture, label, made, lone>>

(* The label the field names leaves the panel, if it is there. *)
RemoveLabel(s) ==
  /\ step[s] = "remove"
  /\ step' = [step EXCEPT ![s] = "choose"]
  /\ test' = [test EXCEPT ![s] = 1]
  /\ components' = components \ {label}
  /\ UNCHANGED <<state, picture, label, made, lone>>

(* The array is read anew for each test, and a state that no test has      *)
(* recognised is drawn as an empty table.                                  *)
Choose(s) ==
  /\ step[s] = "choose"
  /\ \/ /\ Tests[test[s]] = Occupied
        /\ picture' = [picture EXCEPT ![s] = Occupied]
        /\ step' = [step EXCEPT ![s] = "label"]
        /\ UNCHANGED test
     \/ /\ Tests[test[s]] # Occupied
        /\ test[s] < Len(Tests)
        /\ test' = [test EXCEPT ![s] = @ + 1]
        /\ UNCHANGED <<picture, step>>
     \/ /\ Tests[test[s]] # Occupied
        /\ test[s] = Len(Tests)
        /\ picture' = [picture EXCEPT ![s] = {}]
        /\ step' = [step EXCEPT ![s] = "label"]
        /\ UNCHANGED test
  /\ UNCHANGED <<state, label, components, made, lone>>

(* The field gets a new label. *)
MakeLabel(s) ==
  /\ step[s] = "label"
  /\ step' = [step EXCEPT ![s] = "add"]
  /\ made' = made + 1
  /\ label' = [number |-> made', picture |-> picture[s]]
  /\ UNCHANGED <<state, test, picture, components, lone>>

(* A variant of AddLabel that gives way to a label it finds in the panel. *)
AddLabelIfEmpty(s) ==
  /\ step[s] = "add"
  /\ step' = [step EXCEPT ![s] = "idle"]
  /\ components' = IF components = {} THEN {label} ELSE components
  /\ UNCHANGED <<state, test, picture, label, made, lone>>

(* The label the field names by now is added to the panel, unless it is    *)
(* there already.                                                          *)
AddLabel(s) ==
  /\ step[s] = "add"
  /\ step' = [step EXCEPT ![s] = "idle"]
  /\ components' = components \cup {label}
  /\ UNCHANGED <<state, test, picture, label, made, lone>>

ChangeState(s) == RemoveLabel(s) \/ Choose(s) \/ MakeLabel(s) \/ AddLabel(s)

Next ==
  \E s \in Seats : (\E free \in BOOLEAN : Load(s, free)) \/ ChangeState(s)

Spec == Init /\ [][Next]_panelVars

-----------------------------------------------------------------------------
(* Properties *)

Labels == [number : Nat, picture : SUBSET Seats]

TypeOK ==
  /\ state \in [Seats -> BOOLEAN]
  /\ step \in [Seats -> {"idle", "remove", "choose", "label", "add"}]
  /\ test \in [Seats -> 1 .. Len(Tests)]
  /\ picture \in [Seats -> SUBSET Seats]
  /\ label \in Labels
  /\ components \subseteq Labels
  /\ made \in Nat
  /\ lone \subseteq Seats

(* However the redraws interleave, the table never vanishes: when all of   *)
(* them are done, the label of the field is in the panel, where the next   *)
(* redraw will remove it (SeatPanel.java:69, 94, 97).                      *)
TableShown == Quiet => label \in components

(* A redraw that starts on a tidy panel and is not interrupted leaves one  *)
(* label, with the present picture, whatever the panel showed before.      *)
LoneRedrawRepairs ==
  Quiet /\ lone # {} =>
    /\ components = {label}
    /\ label.picture = Occupied

(* The label on top. *)
Top == CHOOSE l \in components : \A k \in components : l.number <= k.number

(* Expected to fail.  "per mostrare il tavolo" (MainFrame.java:43): the    *)
(* panel shows the table.  Two notifications that arrive together may both *)
(* add a label; the older one stays on top for ever.                       *)
TableIsCurrent == Quiet => Top.picture = Occupied
=============================================================================
