------------------------------- MODULE MCLamp -------------------------------
(***************************************************************************)
(* Lamp in the middle of June, when an evening has eleven minutes, and the *)
(* pure functions of Evening against what src/solar.rs and its tests say   *)
(* of them.                                                                *)
(***************************************************************************)
EXTENDS Lamp

MidJune == {165}
DefaultAndEarly == {DEFAULT, [start |-> 30, off |-> 1212]}
Good == {4000}
NoneOrTwo == {0, 2}

Distance(a, b) == IF a > b THEN a - b ELSE b - a

\* Sunrise and sunset of four days of 2025 (src/solar.rs, REFERENCE), within
\* the five minutes of its test.
ASSUME SolarAgrees ==
  \A r \in {<<354, 440, 926>>, <<78, 328, 1058>>, <<171, 196, 1177>>, <<265, 313, 1041>>} :
    Distance(Sun(r[1], 1), r[2]) <= 5 /\ Distance(Sun(r[1], 2), r[3]) <= 5

\* "days since the epoch modulo the tropical year is within one day of it
\* across 2026-2040" (src/solar.rs header); 2026-01-01 is day 20454.
ASSUME DayOfYearAgrees ==
  \A y \in 2026..2040 :
    LET newYear == 20454 + 365 * (y - 2026) + (y - 2025) \div 4
    IN  \A d \in 1..363 : Distance(DayOfYear(newYear + d), d) <= 1

\* "the window is always the inside of the night", whatever the margin.
ASSUME NightIsInside ==
  \A d \in {0, 78, 171, 265, 354, 365}, m \in {0, 45, 90, 180, 999}, t \in 0..(DAY_MIN - 1) :
    IsNight(t, d, m) => t >= Sun(d, 2) \/ t < Sun(d, 1)

\* "the lit window never crosses midnight UTC" (src/lamp.rs), for any start a
\* slider can ask for, on any day.
ASSUME WindowInOneDay ==
  \A d \in 0..365 : StartOf(d, [DEFAULT EXCEPT !.start = 180]) < DAY_MIN

\* "A short evening never jumps" (src/lamp.rs, tests): from one minute to the
\* next the brightness moves by no more than the fade-out does.
ASSUME NoJumps ==
  \A d \in {0, 78, 171, 265, 354}, s \in {0, 45, 180}, off \in {1185, 1225, 1230, 1320},
     t \in 900..1330 :
    LET sched == [start |-> s, off |-> off]
    IN  Distance(Twilight(t, d, sched), Twilight(t + 1, d, sched)) <= 1000 \div FADE_OUT_MIN

\* "charge_permille never falls as the cell rises" (src/lamp.rs, tests).
ASSUME ChargeRises == \A mv \in 3000..4250 : Charge(mv) <= Charge(mv + 1)
=============================================================================
