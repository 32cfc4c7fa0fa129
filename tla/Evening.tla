------------------------------ MODULE Evening -------------------------------
(***************************************************************************)
(* The pure half of the lamp: when the sun sets (src/solar.rs), when and   *)
(* how brightly the lamp burns (src/lamp.rs) and what a cell voltage says  *)
(* about the charge (src/battery.rs).  Minutes are minutes past midnight   *)
(* UTC, brightness is in per mille, as in the code.                        *)
(***************************************************************************)
EXTENDS Integers, Sequences, FiniteSetsExt

DAY_MIN == 1440

\* Sunrise and sunset at 24 points spaced evenly through the year.
TABLE ==
  << <<443, 935>>, <<436, 954>>, <<419, 978>>, <<393, 1006>>, <<364, 1031>>,
     <<332, 1055>>, <<300, 1079>>, <<268, 1102>>, <<238, 1127>>, <<216, 1148>>,
     <<201, 1166>>, <<196, 1176>>, <<202, 1177>>, <<217, 1165>>, <<236, 1145>>,
     <<258, 1119>>, <<280, 1088>>, <<304, 1054>>, <<327, 1021>>, <<350, 990>>,
     <<375, 962>>, <<399, 940>>, <<423, 926>>, <<438, 924>> >>

\* day_of_year(): whole days since the epoch, modulo the tropical year.
DayOfYear(days) ==
  LET years == (days * 10000) \div 3652425
  IN  days - (years * 3652425) \div 10000

\* lerp(): f sixteenths of the way, truncated towards the starting point.
Lerp(a, b, f) ==
  IF b >= a THEN a + ((b - a) * f) \div 16 ELSE a - ((a - b) * f) \div 16

\* sun(): which = 1 for sunrise, 2 for sunset.
Sun(doy, which) ==
  LET pos == (doy * 24 * 16) \div 366
      i == (pos \div 16) % 24
  IN  Lerp(TABLE[i + 1][which], TABLE[((i + 1) % 24) + 1][which], pos % 16)

\* is_night(): the dark stretch of day doy, a margin of daylight kept clear.
IsNight(minute, doy, margin) ==
  LET m == Min({margin, 180})
      from == (Sun(doy, 2) + m) % DAY_MIN
      to == (Sun(doy, 1) + DAY_MIN - m) % DAY_MIN
  IN  CASE from = to -> FALSE
        [] from < to -> from <= minute /\ minute < to
        [] from > to -> from <= minute \/ minute < to

-----------------------------------------------------------------------------
(* The evening. *)

RAMP_MIN == 40
FADE_OUT_MIN == 10

Schedule == [start : 0..180, off : 0..(DAY_MIN - 1)]
DEFAULT == [start |-> 45, off |-> 20 * 60 + 30]

\* window(): [StartOf, schedule.off).
StartOf(doy, schedule) == Sun(doy, 2) + schedule.start

IsEvening(minute, doy, schedule) ==
  StartOf(doy, schedule) <= minute /\ minute < schedule.off

\* twilight_permille(): a climb at the start and a fall at the end, the dimmer
\* of the two where they overlap.
Twilight(minute, doy, schedule) ==
  LET start == StartOf(doy, schedule)
      ramp == ((minute - start) * 1000) \div RAMP_MIN
      tail == ((schedule.off - minute) * 1000) \div FADE_OUT_MIN
  IN  IF IsEvening(minute, doy, schedule) THEN Min({ramp, tail, 1000}) ELSE 0

CURVE ==
  << <<3270, 0>>, <<3610, 5>>, <<3690, 10>>, <<3710, 15>>, <<3730, 20>>,
     <<3750, 25>>, <<3770, 30>>, <<3790, 35>>, <<3800, 40>>, <<3820, 45>>,
     <<3840, 50>>, <<3850, 55>>, <<3870, 60>>, <<3910, 65>>, <<3950, 70>>,
     <<3980, 75>>, <<4020, 80>>, <<4080, 85>>, <<4110, 90>>, <<4150, 95>>,
     <<4200, 100>> >>

\* percent(): linear between two points of the curve, rounded to nearest.
Percent(mv) ==
  IF mv <= CURVE[1][1] THEN CURVE[1][2]
  ELSE IF mv >= CURVE[Len(CURVE)][1] THEN CURVE[Len(CURVE)][2]
  ELSE LET hi == Min({i \in 1..Len(CURVE) : mv <= CURVE[i][1]})
           span == CURVE[hi][1] - CURVE[hi - 1][1]
           rise == CURVE[hi][2] - CURVE[hi - 1][2]
       IN  CURVE[hi - 1][2]
             + ((mv - CURVE[hi - 1][1]) * rise + span \div 2) \div span

DARK_BELOW_PCT == 20
FULL_FROM_PCT == 90

\* charge_permille(): what the cell can afford tonight.
Charge(mv) ==
  LET soc == Percent(mv)
  IN  IF soc < DARK_BELOW_PCT THEN 0
      ELSE IF soc >= FULL_FROM_PCT THEN 1000
      ELSE ((soc - DARK_BELOW_PCT) * 1000) \div (FULL_FROM_PCT - DARK_BELOW_PCT)

\* gate_permille(), for a slider at its top: everything but the breath.
Gate(minute, doy, mv, on, schedule) ==
  IF on THEN (Twilight(minute, doy, schedule) * Charge(mv)) \div 1000 ELSE 0
=============================================================================
