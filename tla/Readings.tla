------------------------------ MODULE Readings -------------------------------
(***************************************************************************)
(* What becomes of a measured value on its way from a mote to the client:  *)
(* the motes print whole units and hundredths as two integers, the client  *)
(* reads them as one decimal number and compares it with whole units.      *)
(* Measured values are in thousandths, received ones in hundredths.        *)
(***************************************************************************)
EXTENDS Integers

(* "%d.%d" of the whole units and the hundredths, the latter without a     *)
(* leading zero: 20.05 is read as 20.5.                                    *)
Hundredths(t) == (t % 1000) \div 10

(* A variant of Received that rounds what it reads to whole units. *)
ReceivedRounded(t) ==
  LET read == IF Hundredths(t) < 10 THEN 10 * Hundredths(t) ELSE Hundredths(t)
  IN  (t \div 1000) * 100 + (IF read < 50 THEN 0 ELSE 100)

Received(t) ==
  (t \div 1000) * 100 + (IF Hundredths(t) < 10 THEN 10 * Hundredths(t) ELSE Hundredths(t))

(* The level of a received noise value. *)
Level(v) == IF v < 4500 THEN "low" ELSE IF v < 6000 THEN "medium" ELSE "high"

(* The whole degrees suggested for a received temperature, within the      *)
(* range; the cast to int cuts off.                                        *)
Warmest(v, lowest) == IF v < 100 * lowest THEN 100 * lowest ELSE v
Coolest(v, highest) == IF v > 100 * highest THEN 100 * highest ELSE v

(* A variant of Suggestion that does not limit the warmer one. *)
SuggestionUnlimited(p, v, lowest, highest) ==
  CASE p = "left"   -> Warmest(v - 200, lowest) \div 100
    [] p = "center" -> Warmest(v - 100, lowest) \div 100
    [] p = "right"  -> (v + 100) \div 100

Suggestion(p, v, lowest, highest) ==
  CASE p = "left"   -> Warmest(v - 200, lowest) \div 100
    [] p = "center" -> Warmest(v - 100, lowest) \div 100
    [] p = "right"  -> Coolest(v + 100, highest) \div 100
=============================================================================
