------------------------------ MODULE Presence ------------------------------
(***************************************************************************)
(* What one reading of the load cell means, and how many rounds make up a  *)
(* number of seconds: the arithmetic of src/presence.rs and of the cadence *)
(* in src/config.rs.  Raw ticks stay integers; saturation at the ends of   *)
(* i32 is out of the range considered.                                     *)
(***************************************************************************)
EXTENDS Integers

AtLeastOne(n) == IF n < 1 THEN 1 ELSE n

Band(threshold) == AtLeastOne(threshold \div 4)

Decide(delta, wasPresent, threshold) ==
  IF delta >= threshold
  THEN IF wasPresent THEN "Staying" ELSE "Arrived"
  ELSE IF wasPresent THEN "Departed"
  ELSE IF -Band(threshold) <= delta /\ delta <= Band(threshold)
       THEN "Quiet" ELSE "Unexplained"

\* A quiet reading pulls the baseline by a sixteenth of the difference,
\* rounded down: i32 >> 4 and \div agree on negative numbers.
Drifted(baseline, delta) == baseline + (delta \div 16)

RoundsFor(secs, roundSecs) ==
  LET r == AtLeastOne(roundSecs) IN AtLeastOne((secs + r - 1) \div r)

MayPublish(roundsSincePublish, gapRounds) == roundsSincePublish >= gapRounds

\* Rounds before the next heartbeat, rounded down.
HeartbeatWakes(heartbeatSecs, roundSecs) ==
  AtLeastOne(heartbeatSecs \div AtLeastOne(roundSecs))

\* battery::should_park over what the divider can say of the cell.
ShouldPark(cell, parked) == cell = "flat" \/ (cell = "low" /\ parked)
=============================================================================
