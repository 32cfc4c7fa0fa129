--------------------------- MODULE LampWifiProofs ---------------------------
(***************************************************************************)
(* The evening for every day, schedule and minute; the lamp for every      *)
(* season, cell and length of a round; its brightness for every voltage;   *)
(* and the connection task it shares with every other board, for any       *)
(* credentials, any bound on counters and any number of failures.          *)
(*                                                                         *)
(* The lamp's clock, network and cell are taken for every value they may   *)
(* have: its two invariants need of them only that a round and a tick end. *)
(* The connection task is WifiJoin as it stands, over the constants and    *)
(* variables of Joining, of which Lamp has none.                           *)
(***************************************************************************)
EXTENDS Lamp, Joining, TLAPS, WellFoundedInduction

Wifi == INSTANCE WifiJoin

-----------------------------------------------------------------------------
(* Sunrise and sunset: every value lies between the extremes of the table. *)

Dawns == 196..443
Dusks == 924..1177

LEMMA TableBounds ==
  ASSUME NEW i \in 1..24
  PROVE  TABLE[i][1] \in Dawns /\ TABLE[i][2] \in Dusks
  BY DEF TABLE, Dawns, Dusks

\* lerp() never leaves the interval its two points lie in.
LEMMA Lerps ==
  ASSUME NEW lo \in Nat, NEW hi \in Nat, NEW a \in lo..hi, NEW b \in lo..hi, NEW f \in 0..15
  PROVE  Lerp(a, b, f) \in lo..hi
<1>1. ASSUME NEW n \in Nat PROVE (n * f) \div 16 \in 0..n
  <2>1. n * f \in Nat /\ n * f <= n * 16
    OBVIOUS
  <2> QED BY <2>1
<1>2. CASE b >= a
  BY <1>1, <1>2, b - a \in Nat DEF Lerp
<1>3. CASE ~(b >= a)
  BY <1>1, <1>3, a - b \in Nat DEF Lerp
<1> QED BY <1>2, <1>3

\* sun(): on any day, dawn is in the morning and dusk in the evening, UTC.
LEMMA SunBounds ==
  ASSUME NEW day \in Nat
  PROVE  Sun(day, 1) \in Dawns /\ Sun(day, 2) \in Dusks
<1> DEFINE pos == (day * 24 * 16) \div 366
           i == (pos \div 16) % 24
<1>1. pos \in Nat
  OBVIOUS
<1>2. i \in 0..23 /\ i + 1 \in 1..24 /\ ((i + 1) % 24) + 1 \in 1..24 /\ pos % 16 \in 0..15
  BY <1>1
<1> HIDE DEF i, pos
<1>3. /\ TABLE[i + 1][1] \in Dawns /\ TABLE[((i + 1) % 24) + 1][1] \in Dawns
      /\ TABLE[i + 1][2] \in Dusks /\ TABLE[((i + 1) % 24) + 1][2] \in Dusks
  BY <1>2, TableBounds
<1>4. ASSUME NEW a \in Dawns, NEW b \in Dawns, NEW f \in 0..15
      PROVE  Lerp(a, b, f) \in Dawns
  <2>1. PICK lo \in Nat : lo = 196
    OBVIOUS
  <2>2. PICK hi \in Nat : hi = 443
    OBVIOUS
  <2>3. Dawns = lo..hi
    BY <2>1, <2>2 DEF Dawns
  <2> QED BY <2>3, Lerps
<1>5. ASSUME NEW a \in Dusks, NEW b \in Dusks, NEW f \in 0..15
      PROVE  Lerp(a, b, f) \in Dusks
  <2>1. PICK lo \in Nat : lo = 924
    OBVIOUS
  <2>2. PICK hi \in Nat : hi = 1177
    OBVIOUS
  <2>3. Dusks = lo..hi
    BY <2>1, <2>2 DEF Dusks
  <2> QED BY <2>3, Lerps
<1> QED BY <1>2, <1>3, <1>4, <1>5 DEF Sun, i, pos

\* The same facts as a number a proof can name.
LEMMA SunsetOf ==
  ASSUME NEW day \in Nat
  PROVE  \E s \in 924..1177 : s = Sun(day, 2)
  BY SunBounds DEF Dusks

LEMMA SunriseOf ==
  ASSUME NEW day \in Nat
  PROVE  \E s \in 196..443 : s = Sun(day, 1)
  BY SunBounds DEF Dawns

-----------------------------------------------------------------------------
(* The window and its brightness. *)

\* "The lit window never crosses midnight UTC" (src/lamp.rs:127): on any day and
\* for any schedule Home Assistant may ask for, a window opens before midnight,
\* so that window() needs no wrap-around.
THEOREM WindowWithinADay ==
  ASSUME NEW day \in Nat, NEW sched \in Schedule
  PROVE  StartOf(day, sched) \in 0..(DAY_MIN - 1) /\ sched.off \in 0..(DAY_MIN - 1)
<1>1. PICK delay \in 0..180 : delay = sched.start
  BY DEF Schedule
<1>2. PICK sunset \in 924..1177 : sunset = Sun(day, 2)
  BY SunsetOf
<1>3. sunset + delay \in 0..(DAY_MIN - 1)
  BY DEF DAY_MIN
<1>4. sched.off \in 0..(DAY_MIN - 1)
  BY DEF Schedule
<1> QED BY <1>1, <1>2, <1>3, <1>4 DEF StartOf

\* Which arm of is_night() answers when the dark stretch crosses midnight.
LEMMA NightAcrossMidnight ==
  ASSUME NEW minute, NEW day, NEW margin, NEW m, NEW from, NEW to,
         m = Min({margin, 180}), from = (Sun(day, 2) + m) % DAY_MIN,
         to = (Sun(day, 1) + DAY_MIN - m) % DAY_MIN,
         ~(from = to), ~(from < to), from > to
  PROVE  IsNight(minute, day, margin) => from <= minute \/ minute < to
  BY Zenon DEF IsNight

\* "The window is always the inside of the night" (src/solar.rs is_night): with
\* any margin, at any minute of any day, what counts as night lies after sunset
\* or before sunrise.
THEOREM NightIsTheInside ==
  ASSUME NEW minute \in 0..(DAY_MIN - 1), NEW day \in Nat, NEW margin \in Nat,
         IsNight(minute, day, margin)
  PROVE  minute >= Sun(day, 2) \/ minute < Sun(day, 1)
<1>1. PICK m \in 0..180 : m = Min({margin, 180})
  <2>1. CASE margin <= 180
    <3>1. Min({margin, 180}) = margin
      BY <2>1 DEF Min
    <3> QED BY <2>1, <3>1
  <2>2. CASE margin > 180
    <3>1. Min({margin, 180}) = 180
      BY <2>2 DEF Min
    <3> QED BY <3>1
  <2> QED BY <2>1, <2>2
<1>2. PICK sunset \in 924..1177 : sunset = Sun(day, 2)
  BY SunsetOf
<1>3. PICK sunrise \in 196..443 : sunrise = Sun(day, 1)
  BY SunriseOf
<1>4. PICK from \in 924..1357 : from = sunset + m /\ from = (Sun(day, 2) + m) % DAY_MIN
  <2>1. (sunset + m) % DAY_MIN = sunset + m
    BY DEF DAY_MIN
  <2>2. (Sun(day, 2) + m) % DAY_MIN = sunset + m
    BY <1>2, <2>1, Zenon
  <2> QED BY <2>2
<1>5. PICK to \in 16..443 : to = sunrise - m /\ to = (Sun(day, 1) + DAY_MIN - m) % DAY_MIN
  <2>1. (sunrise + DAY_MIN - m) % DAY_MIN = sunrise - m
    BY DEF DAY_MIN
  <2>2. (Sun(day, 1) + DAY_MIN - m) % DAY_MIN = sunrise - m
    BY <1>3, <2>1
  <2> QED BY <2>2
<1>6. from > to /\ ~(from = to) /\ ~(from < to)
  OBVIOUS
<1>8. from <= minute \/ minute < to
  BY <1>1, <1>4, <1>5, <1>6, NightAcrossMidnight
<1>9. minute \in Int
  BY DEF DAY_MIN
<1>10. minute >= sunset \/ minute < sunrise
  BY <1>4, <1>5, <1>8, <1>9
<1> QED BY <1>2, <1>3, <1>10

\* The dimmer of two ramps, and of full brightness.
LEMMA DimmerOfTwo ==
  ASSUME NEW x \in Int, NEW y \in Int
  PROVE  \E z \in Int : /\ z = Min({x, y, 1000}) /\ z \in {x, y, 1000}
                        /\ z <= x /\ z <= y /\ z <= 1000
<1>1. \E z \in {x, y, 1000} : \A w \in {x, y, 1000} : z <= w
  OBVIOUS
<1>2. /\ Min({x, y, 1000}) \in {x, y, 1000}
      /\ \A w \in {x, y, 1000} : Min({x, y, 1000}) <= w
  BY <1>1 DEF Min
<1> QED BY <1>2

\* twilight_permille() without its divisions, which come out even.
LEMMA TwilightIs ==
  ASSUME NEW start \in Int, NEW off \in Int, NEW t \in Int, NEW day, NEW sched,
         start = StartOf(day, sched), off = sched.off
  PROVE  \E b \in Int :
           /\ b = Twilight(t, day, sched)
           /\ start <= t /\ t < off => /\ b \in {25 * (t - start), 100 * (off - t), 1000}
                                       /\ b <= 25 * (t - start) /\ b <= 100 * (off - t)
                                       /\ b <= 1000
           /\ ~(start <= t /\ t < off) => b = 0
<1>1. PICK ramp \in Int : ramp = ((t - start) * 1000) \div RAMP_MIN /\ ramp = 25 * (t - start)
  BY DEF RAMP_MIN
<1>2. PICK tail \in Int : tail = ((off - t) * 1000) \div FADE_OUT_MIN /\ tail = 100 * (off - t)
  BY DEF FADE_OUT_MIN
<1>3. IsEvening(t, day, sched) <=> start <= t /\ t < off
  BY DEF IsEvening
<1>4. PICK z \in Int : /\ z = Min({ramp, tail, 1000}) /\ z \in {ramp, tail, 1000}
                       /\ z <= ramp /\ z <= tail /\ z <= 1000
  BY DimmerOfTwo
<1>5. Twilight(t, day, sched) = IF IsEvening(t, day, sched) THEN z ELSE 0
  BY <1>1, <1>2, <1>4 DEF Twilight
<1>6. CASE IsEvening(t, day, sched)
  BY <1>1, <1>2, <1>3, <1>4, <1>5, <1>6
<1>7. CASE ~IsEvening(t, day, sched)
  BY <1>3, <1>5, <1>7
<1> QED BY <1>6, <1>7

\* "A short evening never jumps" (src/lamp.rs:550, tested there for one short
\* evening): on any day, for any schedule, however short its window, the
\* brightness stays within its scale and moves from one minute to the next by
\* no more than the fade-out does.
THEOREM EveningNeverJumps ==
  ASSUME NEW t \in Int, NEW day \in Nat, NEW sched \in Schedule
  PROVE  LET b == Twilight(t, day, sched)
             c == Twilight(t + 1, day, sched)
         IN  b \in 0..1000 /\ b - c \in -100..100
<1> DEFINE Day == 0..(DAY_MIN - 1)
<1>0. StartOf(day, sched) \in Day /\ sched.off \in Day /\ \A m \in Day : m \in Int
  <2>1. \A m \in Day : m \in Int
    BY DEF DAY_MIN
  <2> QED BY <2>1, WindowWithinADay
<1> HIDE DEF Day
<1>1. PICK start \in Int : start = StartOf(day, sched)
  BY <1>0
<1>2. PICK off \in Int : off = sched.off
  BY <1>0
<1>3. PICK b \in Int :
           /\ b = Twilight(t, day, sched)
           /\ start <= t /\ t < off => /\ b \in {25 * (t - start), 100 * (off - t), 1000}
                                       /\ b <= 25 * (t - start) /\ b <= 100 * (off - t)
                                       /\ b <= 1000
           /\ ~(start <= t /\ t < off) => b = 0
  BY <1>1, <1>2, TwilightIs
<1>4. PICK c \in Int :
           /\ c = Twilight(t + 1, day, sched)
           /\ start <= t + 1 /\ t + 1 < off =>
                /\ c \in {25 * (t + 1 - start), 100 * (off - (t + 1)), 1000}
                /\ c <= 25 * (t + 1 - start) /\ c <= 100 * (off - (t + 1))
                /\ c <= 1000
           /\ ~(start <= t + 1 /\ t + 1 < off) => c = 0
  <2>1. t + 1 \in Int
    OBVIOUS
  <2>2. \A u \in Int : \E z \in Int :
           /\ z = Twilight(u, day, sched)
           /\ start <= u /\ u < off => /\ z \in {25 * (u - start), 100 * (off - u), 1000}
                                       /\ z <= 25 * (u - start) /\ z <= 100 * (off - u)
                                       /\ z <= 1000
           /\ ~(start <= u /\ u < off) => z = 0
    BY <1>1, <1>2, TwilightIs
  <2> QED BY <2>1, <2>2
<1>5. b \in 0..1000 /\ b - c \in -100..100
  BY <1>3, <1>4
<1> QED BY <1>3, <1>4, <1>5

-----------------------------------------------------------------------------
(* The lamp. *)

Minutes == 0..(DAY_MIN - 1)

MaxRound == Max(RoundTakes)

LEMMA LongestRound ==
  MaxRound \in Nat /\ \A d \in RoundTakes : d \in Nat /\ d <= MaxRound
<1>1. PICK longest \in RoundTakes : \A d \in RoundTakes : d <= longest
  BY LampAssumption
<1>2. \A d \in RoundTakes : longest >= d
  BY <1>1, LampAssumption
<1>3. MaxRound \in RoundTakes /\ \A d \in RoundTakes : MaxRound >= d
  BY <1>1, <1>2 DEF MaxRound, Max
<1> QED BY <1>3, LampAssumption

LEMMA LampNumbers ==
  /\ PUBLISH_EVERY \in Nat /\ RETRY_MIN \in Nat /\ WAIT \in Nat /\ DRIFT \in Nat
  /\ RETRY_MIN <= DAY_MIN /\ 0 \in Minutes /\ 720 \in Minutes
  /\ 0 \in -MaxBehind..MaxAhead /\ 0 \in 0..MaxActs /\ 0 \in 0..MaxFaults
  BY LampAssumption DEF DAY_MIN, Minutes

LEMMA Wraps ==
  ASSUME NEW n \in Int
  PROVE  n % DAY_MIN \in Minutes
  BY DEF DAY_MIN, Minutes

LEMMA DefaultsAreSettings == Defaults \in Settings
  BY LampAssumption DEF Defaults, Settings

\* lamp_sleep_secs: whatever the clock says, less than two days.
LEMMA AlarmIsSoon ==
  ASSUME TypeOK, NEW at \in Minutes
  PROVE  SleepMinutes(at) \in 0..(2 * DAY_MIN)
<1>1. PICK sched \in Schedule, day \in Nat : sched = cfg.sched /\ day = doy
  BY LampAssumption DEF TypeOK, Settings
<1>2. PICK next \in Nat : next = (day % 365) + 1
  OBVIOUS
<1>3. Minutes = 0..1439
  BY DEF Minutes, DAY_MIN
<1>4. StartOf(day, sched) \in Minutes /\ StartOf(next, sched) \in Minutes
  BY WindowWithinADay DEF Minutes
<1>5. PICK today \in 0..1439 : today = StartOf(day, sched)
  BY <1>3, <1>4
<1>6. PICK tomorrow \in 0..1439 : tomorrow = StartOf(next, sched)
  BY <1>3, <1>4
<1>7. PICK a \in 0..1439 : a = at
  BY <1>3
<1> DEFINE minutes == IF a < today THEN today - a ELSE DAY_MIN - a + tomorrow
<1>8. minutes \in 1..2879
  BY DEF DAY_MIN
<1>9. SleepMinutes(at) = Max({1, minutes})
  BY <1>1, <1>2, <1>5, <1>6, <1>7 DEF SleepMinutes
<1> HIDE DEF minutes
<1>10. Max({1, minutes}) \in 1..2879
  <2>1. PICK w \in 1..2879 : w = minutes
    BY <1>8
  <2>2. Max({1, w}) \in 1..2879
    BY DEF Max
  <2> QED BY <2>1, <2>2
<1> QED BY <1>9, <1>10 DEF DAY_MIN

\* Busy outside the evening: nothing before the loop and in a round that began
\* in it, no more than a round or a tick once it is over.
AwakeForALittle ==
  /\ pc \in {"boot", "join", "first", "round"} => idle = 0
  /\ pc = "loop" /\ Evening => idle = 0
  /\ pc \in {"loop", "bye"} => idle <= MaxRound + 1
  /\ idle <= 2 * MaxRound + 2

\* The clock was last written when the last round began.
WrittenEveryRound == saved = since /\ (since <= PUBLISH_EVERY \/ since <= MaxRound)

LampInv == TypeOK /\ AwakeForALittle /\ WrittenEveryRound

LEMMA LampInit == Init => LampInv
<1> SUFFICES ASSUME Init PROVE LampInv
  OBVIOUS
<1>1. TypeOK
  <2>1. cell \in Cells \cup {NoReading} /\ alarm \in 0..(2 * DAY_MIN) /\ now \in 0..(DAY_MIN - 1)
    BY DEF Init, DAY_MIN
  <2> QED BY <2>1, LampNumbers, DefaultsAreSettings DEF Init, TypeOK
<1>2. AwakeForALittle /\ WrittenEveryRound
  BY LampNumbers, LongestRound DEF Init, AwakeForALittle, WrittenEveryRound
<1> QED BY <1>1, <1>2 DEF LampInv

LEMMA LampTypeStep ==
  ASSUME TypeOK, [Next]_vars
  PROVE  TypeOK'
<1> USE DEF TypeOK
<1> DEFINE Where == pc' \in {"asleep", "boot", "join", "first", "loop", "bye", "round"}
           Counts == saved' \in Nat /\ since' \in Nat /\ idle' \in Nat
<1>0. /\ now \in Int /\ alarm \in Int /\ err \in Int
      /\ -MaxBehind..MaxAhead \subseteq Int
      /\ \A d \in RoundTakes : d \in Nat
  BY LampAssumption DEF DAY_MIN
<1>1. ASSUME NEW d \in Int, Passes(d) PROVE now' \in 0..(DAY_MIN - 1)
  BY <1>0, <1>1, Wraps DEF Passes, Minutes
<1>2. ASSUME NEW e, ErrBecomes(e) PROVE err' \in -MaxBehind..MaxAhead
  BY <1>2 DEF ErrBecomes
<1>3. ASSUME NEW answered \in Answers, NEW d, Syncs(answered, d)
      PROVE  known' \in BOOLEAN /\ err' \in -MaxBehind..MaxAhead
  BY <1>2, <1>3 DEF Syncs, Answers
<1>4. ASSUME NEW d \in Nat, Busy(d) PROVE now' \in 0..(DAY_MIN - 1) /\ idle' \in Nat
  BY <1>1, <1>4 DEF Busy
<1>5. ASSUME NEW step, Forgets(step)
      PROVE  /\ pc' = step /\ stack' \in BOOLEAN /\ cfg' \in Settings /\ lit' \in BOOLEAN
             /\ saved' \in Nat /\ since' \in Nat
  BY <1>5, DefaultsAreSettings DEF Forgets
<1>6. ASSUME NEW lag, Boots(lag)
      PROVE  /\ pc' = "boot" /\ stack' \in BOOLEAN /\ cfg' \in Settings /\ lit' \in BOOLEAN
             /\ known' \in BOOLEAN /\ err' \in -MaxBehind..MaxAhead
             /\ alarm' = 0 /\ Counts
  BY <1>2, <1>5, <1>6 DEF Boots
<1>7. Lasts \subseteq Nat /\ Brings \subseteq Settings
  BY <1>0, LampAssumption DEF Lasts, Brings
<1>8. 0 \in 0..(2 * DAY_MIN) /\ RETRY_MIN \in 0..(2 * DAY_MIN)
  BY LampAssumption DEF DAY_MIN
<1>9. CASE UNCHANGED vars
  BY <1>9 DEF vars, world, clock, bounds
<1>10. CASE Wake
  <2>1. PICK d \in (IF alarm >= LONG THEN -DRIFT..DRIFT ELSE {0}) : Passes(alarm + d) /\ Boots(d)
    BY <1>10 DEF Wake
  <2>2. alarm + d \in Int
    BY <1>0, LampAssumption
  <2>3. now' \in 0..(DAY_MIN - 1)
    BY <1>1, <2>1, <2>2
  <2>4. UNCHANGED <<world, bounds>>
    BY <1>10 DEF Wake
  <2> QED BY <1>6, <1>8, <2>1, <2>3, <2>4 DEF world, bounds
<1>11. CASE RadioStarts \/ Joins
  BY <1>11 DEF RadioStarts, Joins, world, clock, bounds
<1>12. CASE RadioFails
  BY <1>12, LampAssumption DEF RadioFails, world, clock
<1>13. CASE Waits
  <2>1. now' \in 0..(DAY_MIN - 1) /\ err' \in -MaxBehind..MaxAhead
    BY <1>1, <1>2, <1>13, LampNumbers DEF Waits
  <2>2. /\ known' = known
        /\ UNCHANGED <<world, pc, stack, saved, since, cfg, lit, alarm, idle, bounds>>
    BY <1>13 DEF Waits
  <2> QED BY <2>1, <2>2 DEF world, bounds
<1>14. CASE FirstRound
  <2>1. PICK d \in Lasts, answered \in Answers : Syncs(answered, d) /\ Busy(d)
    BY <1>14 DEF FirstRound
  <2>2. d \in Nat /\ cfg' \in Settings
    BY <1>7, <1>14 DEF FirstRound
  <2>3. /\ now' \in 0..(DAY_MIN - 1) /\ idle' \in Nat
        /\ known' \in BOOLEAN /\ err' \in -MaxBehind..MaxAhead
    BY <1>3, <1>4, <2>1, <2>2
  <2>4. saved' = 0 /\ since' = 0 /\ UNCHANGED <<world, lit, bounds>>
    BY <1>14 DEF FirstRound
  <2>5. Where /\ stack' \in BOOLEAN /\ alarm' \in 0..(2 * DAY_MIN)
    <3>1. CASE known'
      BY <1>14, <3>1 DEF FirstRound
    <3>2. CASE ~known'
      BY <1>8, <1>14, <3>2 DEF FirstRound
    <3> QED BY <3>1, <3>2
  <2> QED BY <2>2, <2>3, <2>4, <2>5 DEF world, bounds
<1>15. CASE Decide
  <2>1. lit' \in BOOLEAN /\ UNCHANGED <<world, stack, cfg, alarm, bounds>>
    BY <1>15 DEF Decide
  <2>2. Where
    BY <1>15 DEF Decide, Ticks
  <2>3. CASE UNCHANGED <<now, clock, since, idle>>
    BY <2>1, <2>2, <2>3 DEF world, clock, bounds
  <2>4. CASE Ticks
    <3>1. now' \in 0..(DAY_MIN - 1) /\ idle' \in Nat
      BY <1>4, <2>4 DEF Ticks
    <3>2. known' = known /\ err' \in -MaxBehind..MaxAhead
      BY <1>2, <2>4 DEF Ticks
    <3>3. since' \in Nat /\ saved' \in Nat
      BY <2>4 DEF Ticks
    <3> QED BY <2>1, <2>2, <3>1, <3>2, <3>3 DEF world, bounds
  <2> QED BY <1>15, <2>3, <2>4 DEF Decide
<1>16. CASE Round
  <2>1. PICK d \in Lasts, answered \in Answers :
          Syncs(answered, 0) /\ Busy(d) /\ saved' = d /\ since' = d
    BY <1>16 DEF Round
  <2>2. d \in Nat /\ cfg' \in Settings /\ Where /\ UNCHANGED <<world, stack, lit, alarm, bounds>>
    BY <1>7, <1>16 DEF Round
  <2>3. /\ now' \in 0..(DAY_MIN - 1) /\ idle' \in Nat
        /\ known' \in BOOLEAN /\ err' \in -MaxBehind..MaxAhead
    BY <1>3, <1>4, <2>1, <2>2
  <2> QED BY <2>1, <2>2, <2>3 DEF world, bounds
<1>17. CASE Bye
  <2>1. PICK s \in {0, 1}, d \in Lasts, answered \in Answers :
          /\ Syncs(answered, d)
          /\ alarm' = SleepMinutes(((now + s) + (IF answered THEN 0 ELSE err)) % DAY_MIN)
          /\ Passes(s + d) /\ idle' = idle + s + d
    BY <1>17 DEF Bye
  <2>2. d \in Nat /\ s \in Nat /\ s + d \in Int
    BY <1>7
  <2>3. known' \in BOOLEAN /\ err' \in -MaxBehind..MaxAhead /\ now' \in 0..(DAY_MIN - 1)
    BY <1>1, <1>3, <2>1, <2>2
  <2>4. idle' \in Nat
    BY <2>1, <2>2
  <2>5. (now + s) + (IF answered THEN 0 ELSE err) \in Int
    BY <1>0, <2>2
  <2>6. alarm' \in 0..(2 * DAY_MIN)
    BY <2>1, <2>5, AlarmIsSoon, Wraps
  <2>7. Forgets("asleep") /\ UNCHANGED <<world, bounds>>
    BY <1>17 DEF Bye
  <2> QED BY <1>5, <2>3, <2>4, <2>6, <2>7 DEF world, bounds
<1>18. CASE Restart
  BY <1>6, <1>8, <1>18, LampAssumption DEF Restart, world
<1>19. CASE PowerLoss
  <2>1. /\ faults < MaxFaults /\ faults' = faults + 1 /\ Forgets("boot")
        /\ alarm' = 0 /\ idle' = 0 /\ known' = FALSE /\ err' = 0
        /\ UNCHANGED <<now, world, acts>>
    BY <1>19, Zenon DEF PowerLoss
  <2>2. faults' \in 0..MaxFaults /\ err' \in -MaxBehind..MaxAhead
    BY <2>1, LampNumbers, LampAssumption
  <2> QED BY <1>5, <1>8, <2>1, <2>2 DEF world
<1>20. CASE RouterGoes
  <2>0. faults < MaxFaults /\ faults' = faults + 1 /\ router' = FALSE
    BY <1>20, Zenon DEF RouterGoes
  <2>1. faults' \in 0..MaxFaults
    BY <2>0, LampAssumption
  <2> QED BY <1>20, <2>1 DEF RouterGoes, clock
<1>21. CASE RouterReturns
  BY <1>21 DEF RouterReturns, clock, bounds
<1>22. CASE Wishes
  BY <1>22, LampAssumption DEF Wishes, clock
<1>23. CASE CellChanges
  BY <1>23, LampAssumption DEF CellChanges, clock
<1> QED
  BY <1>9, <1>10, <1>11, <1>12, <1>13, <1>14, <1>15, <1>16, <1>17, <1>18, <1>19, <1>20, <1>21,
     <1>22, <1>23
  DEF Next, Program

LEMMA LampStep ==
  ASSUME LampInv, [Next]_vars
  PROVE  AwakeForALittle' /\ WrittenEveryRound'
<1> USE DEF AwakeForALittle, WrittenEveryRound
<1>0. /\ TypeOK /\ AwakeForALittle /\ WrittenEveryRound
      /\ idle \in Nat /\ since \in Nat /\ MaxRound \in Nat /\ PUBLISH_EVERY \in Nat
  BY LongestRound, LampNumbers DEF LampInv, TypeOK
<1>1. Lasts \subseteq RoundTakes /\ \A d \in Lasts : d \in Nat /\ d <= MaxRound
  BY LongestRound, LampAssumption DEF Lasts
<1>2. ASSUME idle' = 0, since' = 0, saved' = 0
      PROVE  AwakeForALittle' /\ WrittenEveryRound'
  BY <1>0, <1>2
<1>3. ASSUME UNCHANGED <<idle, since, saved>>, pc' = pc, Evening' = Evening
      PROVE  AwakeForALittle' /\ WrittenEveryRound'
  BY <1>0, <1>3
<1>4. ASSUME UNCHANGED <<now, doy, err, cfg>> PROVE Evening' = Evening
  BY <1>4 DEF Evening, Clock, IsEvening, StartOf
<1>5. ASSUME idle = 0, NEW d \in Nat, d <= MaxRound + 1, Busy(d), doy' = doy
      PROVE  idle' \in 0..(MaxRound + 1) /\ (Evening' => idle' = 0)
  <2>1. idle' = IF Evening' THEN idle ELSE idle + d
    BY <1>5 DEF Busy, Evening
  <2> QED BY <1>0, <1>5, <2>1
<1>6. CASE UNCHANGED vars
  BY <1>3, <1>4, <1>6 DEF vars, world, clock
<1>7. CASE Wake \/ Restart \/ PowerLoss
  BY <1>2, <1>7 DEF Wake, Restart, PowerLoss, Boots, Forgets
<1>8. CASE RadioStarts \/ RadioFails \/ Joins
  <2>1. pc \in {"boot", "join"} /\ pc' \in {"join", "first"} /\ UNCHANGED <<idle, since, saved>>
    BY <1>8 DEF RadioStarts, RadioFails, Joins, clock
  <2> QED BY <1>0, <2>1
<1>9. CASE Waits
  <2>1. pc = "join" /\ pc' = pc /\ UNCHANGED <<idle, since, saved>>
    BY <1>9 DEF Waits
  <2> QED BY <1>0, <2>1
<1>10. CASE FirstRound
  <2>1. PICK d \in Lasts, answered \in Answers : Syncs(answered, d) /\ Busy(d)
    BY <1>10 DEF FirstRound
  <2>2. pc = "first" /\ pc' \in {"loop", "asleep"} /\ saved' = 0 /\ since' = 0 /\ doy' = doy
    BY <1>10 DEF FirstRound, world
  <2>3. idle' \in 0..(MaxRound + 1) /\ (Evening' => idle' = 0)
    BY <1>0, <1>1, <1>5, <2>1, <2>2
  <2> QED BY <1>0, <2>2, <2>3
<1>11. CASE Decide
  <2>1. CASE pc' \in {"bye", "round"} /\ UNCHANGED <<now, clock, since, idle>>
    <3>1. pc = "loop" /\ (pc' = "round" => Evening)
      BY <1>11, <2>1 DEF Decide
    <3> QED BY <1>0, <2>1, <3>1 DEF clock
  <2>2. CASE pc' = pc /\ Ticks /\ Evening /\ since < PUBLISH_EVERY
    <3>1. pc = "loop" /\ idle = 0 /\ doy' = doy
      BY <1>0, <1>11, <2>2 DEF Decide, world
    <3>2. Busy(1) /\ since' = since + 1 /\ saved' = saved + 1
      BY <2>2 DEF Ticks
    <3>3. idle' \in 0..(MaxRound + 1) /\ (Evening' => idle' = 0)
      BY <1>0, <1>5, <3>1, <3>2
    <3>4. WrittenEveryRound'
      BY <1>0, <2>2, <3>2
    <3> QED BY <1>0, <2>2, <3>1, <3>3, <3>4
  <2>3. \/ pc' \in {"bye", "round"} /\ UNCHANGED <<now, clock, since, idle>>
        \/ pc' = pc /\ Ticks /\ Evening /\ ~(since >= PUBLISH_EVERY)
    BY <1>11 DEF Decide
  <2> QED BY <1>0, <2>1, <2>2, <2>3
<1>12. CASE Round
  <2>1. PICK d \in Lasts, answered \in Answers : Busy(d) /\ saved' = d /\ since' = d
    BY <1>12 DEF Round
  <2>2. pc = "round" /\ pc' = "loop" /\ doy' = doy
    BY <1>12 DEF Round, world
  <2>3. idle' \in 0..(MaxRound + 1) /\ (Evening' => idle' = 0)
    BY <1>0, <1>1, <1>5, <2>1, <2>2
  <2> QED BY <1>0, <1>1, <2>1, <2>2, <2>3
<1>13. CASE Bye
  <2>1. PICK s \in {0, 1}, d \in Lasts : idle' = idle + s + d
    BY <1>13 DEF Bye
  <2>2. pc = "bye" /\ pc' = "asleep" /\ saved' = 0 /\ since' = 0
    BY <1>13 DEF Bye, Forgets
  <2>3. idle' <= 2 * MaxRound + 2
    BY <1>0, <1>1, <2>1, <2>2
  <2> QED BY <1>0, <2>2, <2>3
<1>14. CASE RouterGoes \/ RouterReturns \/ Wishes \/ CellChanges
  <2>1. UNCHANGED <<now, doy, err, saved, cfg, since, idle, pc>>
    BY <1>14 DEF RouterGoes, RouterReturns, Wishes, CellChanges, clock
  <2> QED BY <1>3, <1>4, <2>1
<1> QED
  BY <1>6, <1>7, <1>8, <1>9, <1>10, <1>11, <1>12, <1>13, <1>14 DEF Next, Program

LEMMA LampInvariant == Spec => []LampInv
<1>1. LampInv /\ [Next]_vars => LampInv'
  BY LampTypeStep, LampStep DEF LampInv
<1> QED BY LampInit, <1>1, PTL DEF Spec

\* Every variable of the lamp keeps its type: the wake-up it sets stays within
\* two days, and a clock without a network within its bounds (src/main.rs
\* run_lamp).
THEOREM TypeCorrect == Spec => []TypeOK
<1>1. LampInv => TypeOK
  BY DEF LampInv
<1> QED BY LampInvariant, <1>1, PTL

\* Wherever a lamp woke, whatever the schedule was changed to and however long
\* its rounds take, it is awake outside its evening for little more than two of
\* them (src/lamp.rs window; src/main.rs run_lamp leaves the loop for the night).
THEOREM LittleIdling == Spec => []IdleBounded
<1>1. LampInv => IdleBounded
  BY DEF LampInv, AwakeForALittle, IdleBounded, MaxRound
<1> QED BY LampInvariant, <1>1, PTL

\* A reset in the middle of an evening costs the clock no more than the time from
\* one round to the end of the next, for any length of a round and any faults
\* (src/main.rs lamp_resync writes the clock whether it was answered or not).
THEOREM ResetIsCheap == Spec => []ResetCostsOneRound
<1>1. LampInv => ResetCostsOneRound
  BY LongestRound, LampNumbers DEF LampInv, TypeOK, WrittenEveryRound, ResetCostsOneRound, MaxRound
<1> QED BY LampInvariant, <1>1, PTL

-----------------------------------------------------------------------------
(* The connection task. *)

\* The credentials of this boot and the counts.
JoinTypes ==
  /\ stored \in Pairs \cup {NoPair} /\ builtIn \in Pairs
  /\ rtcRefusals \in Wifi!Counter /\ refusals \in Wifi!Counter /\ rejected \in Wifi!Counter

\* What the task believes it configured, the driver holds.
DriverHoldsIt ==
  taskPc # "off" /\ configured # NoSsid =>
    controller \in {Wifi!Active, builtIn} /\ controller.ssid = configured

\* And that is the pair it would choose now.
TriesChosen == taskPc = "connect" => configured = Wifi!Chosen.ssid

\* Below the threshold the two counts agree; above it both are above it.  With one
\* SSID for two pairs a refusal may be the other one's.
RefusalsAreRejections ==
  stored # NoPair /\ ~Wifi!OneSsid =>
    /\ rtcRefusals < FALLBACK_AFTER => rejected = rtcRefusals
    /\ rtcRefusals >= FALLBACK_AFTER => rejected >= FALLBACK_AFTER

JoinInv ==
  /\ JoinTypes /\ Wifi!CountSurvivesSleep
  /\ DriverHoldsIt /\ TriesChosen /\ RefusalsAreRejections

LEMMA JoinBounds ==
  ASSUME Wifi!Parameters
  PROVE
  /\ FALLBACK_AFTER \in Nat \ {0} /\ MaxCount \in Nat /\ MaxCount > FALLBACK_AFTER
  /\ 0 \in Wifi!Counter /\ 0 < FALLBACK_AFTER /\ ~(0 >= FALLBACK_AFTER)
  BY DEF Wifi!Parameters, Wifi!Counter

LEMMA Up1Counts ==
  ASSUME Wifi!Parameters, NEW n \in Wifi!Counter
  PROVE  /\ Wifi!Up1(n) \in Wifi!Counter
         /\ n < FALLBACK_AFTER => Wifi!Up1(n) = n + 1
         /\ n >= FALLBACK_AFTER => Wifi!Up1(n) >= FALLBACK_AFTER
  BY DEF Wifi!Parameters, Wifi!Up1, Wifi!Counter

\* A join that is being tried is tried with the pair the task would choose.
LEMMA ConnectUsesChosen ==
  ASSUME Wifi!Parameters
  PROVE  JoinInv => Wifi!JoinsWithChosen
<1> SUFFICES ASSUME JoinInv, taskPc = "connect"
             PROVE  /\ controller \in {Wifi!Active, builtIn} /\ controller.ssid = Wifi!Chosen.ssid
                    /\ ~Wifi!OneSsid => controller = Wifi!Chosen
  BY DEF Wifi!JoinsWithChosen
<1>1. Wifi!Chosen \in Pairs /\ Wifi!Chosen \in {Wifi!Active, builtIn} /\ Wifi!Active \in Pairs
  BY DEF JoinInv, JoinTypes, Wifi!Chosen, Wifi!Active
<1>2. controller \in {Wifi!Active, builtIn} /\ controller.ssid = Wifi!Chosen.ssid
  BY <1>1 DEF Wifi!Parameters, JoinInv, DriverHoldsIt, TriesChosen
<1>3. ~Wifi!OneSsid => Wifi!Active = builtIn \/ Wifi!Active.ssid # builtIn.ssid
  BY DEF Wifi!OneSsid, Wifi!Active
<1> QED BY <1>1, <1>2, <1>3

LEMMA JoinInit == ASSUME Wifi!Parameters PROVE Wifi!Init => JoinInv
<1> SUFFICES ASSUME Wifi!Init PROVE JoinInv
  OBVIOUS
<1>1. taskPc = "off" /\ rtcRefusals = 0 /\ refusals = 0 /\ rejected = 0
  BY DEF Wifi!Init
<1>2. stored \in StoredPairs /\ builtIn \in BuiltIns
  BY DEF Wifi!Init
<1>3. JoinTypes
  <2>1. stored \in Pairs \cup {NoPair} /\ builtIn \in Pairs
    BY <1>2 DEF Wifi!Parameters
  <2> QED BY <1>1, <2>1, JoinBounds DEF JoinTypes
<1>4. Wifi!CountSurvivesSleep /\ DriverHoldsIt /\ TriesChosen
  BY <1>1 DEF Wifi!CountSurvivesSleep, DriverHoldsIt, TriesChosen
<1>5. RefusalsAreRejections
  BY <1>1, JoinBounds DEF RefusalsAreRejections
<1> QED BY <1>3, <1>4, <1>5 DEF JoinInv

LEMMA JoinStep ==
  ASSUME Wifi!Parameters, JoinInv, [Wifi!Next]_(Wifi!vars)
  PROVE  JoinInv'
<1> USE DEF JoinInv, JoinTypes, Wifi!CountSurvivesSleep, DriverHoldsIt, TriesChosen,
            RefusalsAreRejections, Wifi!given, Wifi!task, Wifi!Active, Wifi!Chosen, Wifi!OneSsid
<1>1. CASE UNCHANGED Wifi!vars
  BY <1>1 DEF Wifi!vars
<1>2. CASE Wifi!Wake
  <2>1. /\ taskPc' = "try" /\ refusals' = rtcRefusals' /\ configured' = NoSsid
        /\ UNCHANGED Wifi!given
    BY <1>2 DEF Wifi!Wake
  <2>2. CASE reason = "power on"
    <3>1. rtcRefusals' = 0 /\ rejected' = 0
      BY <1>2, <2>2 DEF Wifi!Wake
    <3>2. refusals' = 0
      BY <2>1, <3>1
    <3>3. JoinTypes' /\ Wifi!CountSurvivesSleep'
      BY <2>1, <3>1, <3>2, JoinBounds
    <3>4. DriverHoldsIt' /\ TriesChosen'
      BY <2>1
    <3>5. RefusalsAreRejections'
      BY <3>1, JoinBounds
    <3> QED BY <3>3, <3>4, <3>5
  <2>3. CASE reason # "power on"
    <3>1. UNCHANGED <<rtcRefusals, rejected>>
      BY <1>2, <2>3 DEF Wifi!Wake
    <3> QED BY <2>1, <3>1
  <2> QED BY <2>2, <2>3
<1>3. CASE Wifi!Configure
  BY <1>3 DEF Wifi!Parameters, Wifi!Configure
<1>4. CASE Wifi!AlreadyConfigured
  BY <1>4 DEF Wifi!AlreadyConfigured
<1>5. CASE Wifi!ConfigureRefused
  BY <1>5 DEF Wifi!ConfigureRefused
<1>6. CASE Wifi!JoinOk
  BY <1>6 DEF Wifi!Parameters, Wifi!JoinOk, Wifi!Counter
<1>7. CASE Wifi!JoinRefused
  <2>1. /\ refusals' = Wifi!Up1(refusals) /\ rtcRefusals' = refusals' /\ taskPc' = "pause"
        /\ taskPc = "connect" /\ rtcRefusals = refusals
        /\ rejected' = IF controller = stored THEN Wifi!Up1(rejected) ELSE rejected
        /\ UNCHANGED <<Wifi!given, configured, controller>>
    BY <1>7 DEF Wifi!JoinRefused
  <2>2. ~Wifi!OneSsid => controller = Wifi!Chosen
    BY <2>1, ConnectUsesChosen DEF Wifi!JoinsWithChosen
  <2>3. stored # NoPair /\ ~Wifi!OneSsid /\ refusals < FALLBACK_AFTER => controller = stored
    <3>1. refusals < FALLBACK_AFTER => ~(refusals >= FALLBACK_AFTER)
      BY JoinBounds DEF Wifi!Counter
    <3> QED BY <2>2, <3>1
  <2>4. refusals' \in Wifi!Counter /\ rejected' \in Wifi!Counter
    BY <2>1, Up1Counts
  <2>5. RefusalsAreRejections'
    BY <2>1, <2>3, <2>4, Up1Counts DEF Wifi!Parameters, Wifi!Counter
  <2> QED BY <2>1, <2>4, <2>5
<1>8. CASE Wifi!PauseEnds \/ Wifi!Disconnect \/ Wifi!AccessPoint
  BY <1>8 DEF Wifi!PauseEnds, Wifi!Disconnect, Wifi!AccessPoint
<1>9. CASE Wifi!Sleep \/ Wifi!Reset
  <2>1. taskPc' = "off" /\ UNCHANGED <<Wifi!given, rtcRefusals, Wifi!task, controller, rejected>>
    BY <1>9 DEF Wifi!Sleep, Wifi!Reset
  <2> QED BY <2>1
<1> QED
  BY <1>1, <1>2, <1>3, <1>4, <1>5, <1>6, <1>7, <1>8, <1>9 DEF Wifi!Next, Wifi!Configuring, Wifi!Answer

LEMMA JoinInvariant ==
  ASSUME Wifi!Parameters
  PROVE  Wifi!Spec => []JoinInv
<1>1. JoinInv /\ [Wifi!Next]_(Wifi!vars) => JoinInv'
  BY JoinStep
<1> QED BY JoinInit, <1>1, PTL DEF Wifi!Spec

\* Credentials that work are never given up on because the driver was busy:
\* the compiled-in pair is tried only after FALLBACK_AFTER refusals of the
\* stored one by the network, unless both are for one SSID (src/main.rs
\* connection).
THEOREM OnlyRefusalsCount ==
  ASSUME Wifi!Parameters
  PROVE  Wifi!Spec => []AbandonsOnlyRefused
<1>1. JoinInv => AbandonsOnlyRefused
  <2> SUFFICES ASSUME JoinInv, taskPc = "connect", stored # NoPair, controller # stored,
                      ~Wifi!OneSsid
               PROVE  rejected >= FALLBACK_AFTER
    BY DEF AbandonsOnlyRefused, OneSsid, Wifi!OneSsid
  <2>1. controller = Wifi!Chosen
    BY ConnectUsesChosen DEF Wifi!JoinsWithChosen
  <2>2. refusals >= FALLBACK_AFTER
    BY <2>1 DEF Wifi!Chosen, Wifi!Active
  <2> QED BY <2>2 DEF JoinInv, Wifi!CountSurvivesSleep, RefusalsAreRejections
<1> QED BY JoinInvariant, <1>1, PTL

\* Every join is tried with the SSID the task chose, whatever the credentials; and
\* with the pair it chose, unless the stored and the compiled-in pair are two
\* passphrases for one SSID (src/main.rs connection: configured is an SSID, set
\* only once the driver took the pair).
THEOREM JoinsAreAsChosen ==
  ASSUME Wifi!Parameters
  PROVE  Wifi!Spec => []JoinsWithChosen
<1>1. JoinInv => JoinsWithChosen
  BY ConnectUsesChosen
     DEF JoinsWithChosen, Wifi!JoinsWithChosen, OneSsid, Wifi!OneSsid, Chosen, Wifi!Chosen, Active, Wifi!Active
<1> QED BY JoinInvariant, <1>1, PTL

-----------------------------------------------------------------------------
(* The cell.  Where something is to be shown for every point of a table or
   every count, the least counterexample is refuted. *)

Below == {ss \in Nat \X Nat : ss[1] < ss[2]}

\* Any set of numbers has a least one.
LEMMA LeastNumber ==
  ASSUME NEW S, S \subseteq Nat, S # {}
  PROVE  \E x \in S : \A y \in S : x <= y
<1>1. IsWellFoundedOn({ss \in Nat \X Nat : ss[1] < ss[2]}, Nat)
  BY NatLessThanWellFounded DEF OpToRel
<1>2. PICK x \in S : \A y \in S : ~(<<y, x>> \in Below)
  BY <1>1, WFMin DEF Below
<1>3. ASSUME NEW y \in S PROVE x <= y
  <2>1. x \in Nat /\ y \in Nat
    OBVIOUS
  <2>2. ~(<<y, x>> \in Below)
    BY <1>2
  <2>3. ~(y < x)
    BY <2>1, <2>2 DEF Below
  <2> QED BY <2>1, <2>3
<1> QED BY <1>3

\* The table: every five per cent, at rising voltages.
LEMMA CurveIs ==
  /\ Len(CURVE) = 21
  /\ \A i \in 1..21 : CURVE[i][1] \in Nat /\ CURVE[i][2] = 5 * (i - 1)
  /\ \A i \in 1..20 : CURVE[i][1] < CURVE[i + 1][1]
  BY DEF CURVE

LEMMA CurveClimbs ==
  ASSUME NEW i \in 1..21, NEW j \in 1..21, i < j
  PROVE  CURVE[i][1] < CURVE[j][1]
<1> DEFINE wrong == {k \in 1..21 : i < k /\ ~(CURVE[i][1] < CURVE[k][1])}
<1>1. wrong \subseteq Nat /\ \A k : k \in wrong <=> k \in 1..21 /\ i < k /\ ~(CURVE[i][1] < CURVE[k][1])
  OBVIOUS
<1> HIDE DEF wrong
<1> SUFFICES ASSUME wrong # {} PROVE FALSE
  BY <1>1
<1>2. PICK k \in wrong : \A n \in wrong : k <= n
  BY <1>1, LeastNumber
<1>3. k \in 1..21 /\ i < k /\ ~(CURVE[i][1] < CURVE[k][1])
  BY <1>1
<1>4. k - 1 \in 1..20 /\ k - 1 \notin wrong /\ (k - 1) + 1 = k
  BY <1>1, <1>2, <1>3
<1>5. CURVE[k - 1][1] < CURVE[k][1]
  BY <1>4, CurveIs
<1>6. CURVE[i][1] < CURVE[k - 1][1] \/ i = k - 1
  BY <1>1, <1>3, <1>4
<1> QED BY <1>3, <1>4, <1>5, <1>6, CurveIs

\* Where a voltage lies on the curve.
Between(i, mv) == i \in 2..21 /\ CURVE[i - 1][1] < mv /\ mv <= CURVE[i][1]

Rounded(i, mv) ==
  5 * (i - 2) + ((mv - CURVE[i - 1][1]) * 5 + (CURVE[i][1] - CURVE[i - 1][1]) \div 2)
                   \div (CURVE[i][1] - CURVE[i - 1][1])

\* percent() clamps at the ends and interpolates between two points.
LEMMA PercentIs ==
  ASSUME NEW mv \in Int
  PROVE  /\ mv <= CURVE[1][1] => Percent(mv) = 0
         /\ mv > CURVE[1][1] /\ mv >= CURVE[21][1] => Percent(mv) = 100
         /\ mv > CURVE[1][1] /\ mv < CURVE[21][1] =>
              \E i \in 2..21 : Between(i, mv) /\ Percent(mv) = Rounded(i, mv)
<1> DEFINE above == {i \in 1..Len(CURVE) : mv <= CURVE[i][1]}
           hi == Min(above)
           inside == CURVE[hi - 1][2]
             + ((mv - CURVE[hi - 1][1]) * (CURVE[hi][2] - CURVE[hi - 1][2])
                  + (CURVE[hi][1] - CURVE[hi - 1][1]) \div 2)
                 \div (CURVE[hi][1] - CURVE[hi - 1][1])
<1>0. Percent(mv) = IF mv <= CURVE[1][1] THEN CURVE[1][2]
                    ELSE IF mv >= CURVE[21][1] THEN CURVE[21][2] ELSE inside
  <2>1. Percent(mv) = IF mv <= CURVE[1][1] THEN CURVE[1][2]
                    ELSE IF mv >= CURVE[Len(CURVE)][1] THEN CURVE[Len(CURVE)][2] ELSE inside
    BY Zenon DEF Percent
  <2> QED BY <2>1, CurveIs, Zenon
<1> HIDE DEF inside
<1>1. CASE mv <= CURVE[1][1]
  <2>1. Percent(mv) = CURVE[1][2] /\ CURVE[1][1] \in Nat
    BY <1>0, <1>1, CurveIs
  <2>2. CURVE[1][2] = 0
    BY CurveIs
  <2> QED BY <1>1, <2>1, <2>2
<1>2. CASE mv > CURVE[1][1] /\ mv >= CURVE[21][1]
  <2>1. CURVE[1][1] \in Nat /\ CURVE[21][1] \in Nat /\ CURVE[21][2] = 100
    BY CurveIs
  <2> QED BY <1>0, <1>2, <2>1
<1>3. CASE mv > CURVE[1][1] /\ mv < CURVE[21][1]
  <2>1. /\ above \subseteq Nat /\ 21 \in above /\ 1 \notin above
        /\ \A i : i \in above <=> i \in 1..21 /\ mv <= CURVE[i][1]
    BY <1>3, CurveIs
  <2>2. hi \in above /\ \A j \in above : hi <= j
    <3> HIDE DEF above
    <3>1. \E x \in above : \A y \in above : x <= y
      BY <2>1, LeastNumber
    <3> QED BY <3>1 DEF Min
  <2>3. Percent(mv) = CURVE[hi - 1][2]
          + ((mv - CURVE[hi - 1][1]) * (CURVE[hi][2] - CURVE[hi - 1][2])
               + (CURVE[hi][1] - CURVE[hi - 1][1]) \div 2)
              \div (CURVE[hi][1] - CURVE[hi - 1][1])
    <3>1. Percent(mv) = inside
      BY <1>0, <1>3, CurveIs
    <3> QED BY <3>1, Zenon DEF inside
  <2> HIDE DEF above, hi
  <2>4. hi \in 2..21 /\ hi - 1 \in 1..20 /\ hi - 1 \notin above
    BY <2>1, <2>2
  <2>5. Between(hi, mv)
    BY <2>1, <2>2, <2>4, CurveIs DEF Between
  <2>6. CURVE[hi - 1][2] = 5 * (hi - 2) /\ CURVE[hi][2] - CURVE[hi - 1][2] = 5
    BY <2>4, CurveIs
  <2>7. Percent(mv) = Rounded(hi, mv)
    BY <2>3, <2>6 DEF Rounded
  <2> QED BY <1>3, <2>4, <2>5, <2>7, CurveIs
<1> QED BY <1>1, <1>2, <1>3, CurveIs

\* A quotient rounded down rises with what is divided.
LEMMA Divides ==
  ASSUME NEW s \in Nat \ {0}, NEW x \in Int, NEW y \in Int, x <= y
  PROVE  x \div s \in Int /\ x \div s <= y \div s
<1>1. PICK q \in Int, r \in 0..(s - 1) : q = x \div s /\ x = q * s + r
  OBVIOUS
<1>2. PICK p \in Int, t \in 0..(s - 1) : p = y \div s /\ y = p * s + t
  OBVIOUS
<1>3. q * s < (p + 1) * s
  BY <1>1, <1>2
<1>4. q < p + 1
  BY <1>3
<1> QED BY <1>1, <1>2, <1>4

\* Rounded, an interpolated percentage stays between its points and rises.
LEMMA RoundedIs ==
  ASSUME NEW i, NEW mv \in Int, Between(i, mv)
  PROVE  /\ Rounded(i, mv) \in (5 * (i - 2))..(5 * (i - 1))
         /\ \A mw \in Int : mv <= mw /\ Between(i, mw) => Rounded(i, mv) <= Rounded(i, mw)
<1>1. PICK low \in Nat, s \in Nat \ {0} :
        low = CURVE[i - 1][1] /\ s = CURVE[i][1] - CURVE[i - 1][1]
  <2>1. i - 1 \in 1..20 /\ i \in 1..21 /\ (i - 1) + 1 = i
    BY DEF Between
  <2> QED BY <2>1, CurveIs
<1> DEFINE Steps(v) == ((v - low) * 5 + s \div 2) \div s
<1>2. ASSUME NEW v \in Int, Between(i, v)
      PROVE  Rounded(i, v) = 5 * (i - 2) + Steps(v) /\ low < v /\ v <= low + s
  <2>1. i \in 2..21 /\ low < v /\ v <= low + s
    BY <1>1, <1>2, CurveIs DEF Between
  <2>2. Rounded(i, v) = 5 * (i - 2) + Steps(v)
    BY <1>1, Zenon DEF Rounded
  <2> QED BY <2>1, <2>2
<1>3. s \div 2 \in 0..(s - 1)
  BY <1>1
<1>4. 0 \div s = 0 /\ (s * 5 + s \div 2) \div s = 5
  BY <1>1, <1>3
<1>5. ASSUME NEW v \in Int, low < v, v <= low + s
      PROVE  Steps(v) \in 0..5
  <2>1. PICK x \in Int, y \in Int :
          x = (v - low) * 5 + s \div 2 /\ y = s * 5 + s \div 2 /\ 0 <= x /\ x <= y
    BY <1>1, <1>3, <1>5
  <2>2. x \div s \in Int /\ 0 \div s <= x \div s /\ x \div s <= y \div s
    BY <1>1, <2>1, Divides
  <2>3. 0 <= x \div s /\ x \div s <= 5
    BY <1>4, <2>1, <2>2
  <2> QED BY <2>1, <2>2, <2>3
<1>6. ASSUME NEW v \in Int, NEW w \in Int, v <= w
      PROVE  Steps(v) \in Int /\ Steps(v) <= Steps(w)
  <2>1. PICK x \in Int, y \in Int :
          x = (v - low) * 5 + s \div 2 /\ y = (w - low) * 5 + s \div 2 /\ x <= y
    BY <1>1, <1>3, <1>6
  <2>2. x \div s \in Int /\ x \div s <= y \div s
    BY <1>1, <2>1, Divides
  <2> QED BY <2>1, <2>2
<1> HIDE DEF Steps
<1>7. Rounded(i, mv) \in (5 * (i - 2))..(5 * (i - 1))
  BY <1>2, <1>5 DEF Between
<1>8. ASSUME NEW mw \in Int, mv <= mw, Between(i, mw)
      PROVE  Rounded(i, mv) <= Rounded(i, mw)
  BY <1>2, <1>6, <1>8 DEF Between
<1> QED BY <1>7, <1>8

\* The share of full brightness a cell allows is a share, and a cell with more left
\* in it is never allowed less (src/battery.rs percent, src/solar.rs), at any
\* voltage and across every point of the table.
THEOREM ChargeFollowsTheCell ==
  ASSUME NEW mv \in Int, NEW mw \in Int, mv <= mw
  PROVE  Charge(mv) \in 0..1000 /\ Charge(mv) <= Charge(mw)
<1>1. /\ CURVE[1][1] \in Nat /\ CURVE[21][1] \in Nat
  BY CurveIs
<1>2. ASSUME NEW v \in Int PROVE Percent(v) \in 0..100
  <2>1. ASSUME NEW i \in 2..21, Between(i, v), Percent(v) = Rounded(i, v)
        PROVE  Percent(v) \in 0..100
    BY <2>1, RoundedIs
  <2> QED BY <1>1, <2>1, PercentIs
<1>3. Percent(mv) <= Percent(mw)
  <2>1. CASE mv <= CURVE[1][1]
    BY <1>2, <2>1, PercentIs
  <2>2. CASE mw > CURVE[1][1] /\ mw >= CURVE[21][1]
    BY <1>2, <2>2, PercentIs
  <2>3. CASE mv > CURVE[1][1] /\ mw < CURVE[21][1]
    <3>1. PICK i \in 2..21 : Between(i, mv) /\ Percent(mv) = Rounded(i, mv)
      BY <1>1, <2>3, PercentIs
    <3>2. PICK j \in 2..21 : Between(j, mw) /\ Percent(mw) = Rounded(j, mw)
      BY <1>1, <2>3, PercentIs
    <3>3. i <= j
      <4> SUFFICES ASSUME j < i PROVE FALSE
        OBVIOUS
      <4>1. CURVE[j][1] <= CURVE[i - 1][1]
        BY CurveClimbs, CurveIs
      <4> QED BY <3>1, <3>2, <4>1, CurveIs DEF Between
    <3>4. CASE i = j
      BY <3>1, <3>2, <3>4, RoundedIs
    <3>5. CASE i < j
      BY <3>1, <3>2, <3>5, RoundedIs
    <3> QED BY <3>3, <3>4, <3>5
  <2> QED BY <1>1, <2>1, <2>2, <2>3
<1>4. PICK p \in 0..100, q \in 0..100 : p = Percent(mv) /\ q = Percent(mw) /\ p <= q
  BY <1>2, <1>3
<1> QED BY <1>4 DEF Charge, DARK_BELOW_PCT, FULL_FROM_PCT

-----------------------------------------------------------------------------
(* Waiting: the doubling is a function with one solution, this one. *)

Doubled(ms) ==
  [n \in 1..64 |->
     IF n = 1 THEN 500 ELSE IF ms[n - 1] * 2 >= 30000 THEN 30000 ELSE ms[n - 1] * 2]

Pauses == [n \in 1..64 |-> IF n <= 6 THEN <<500, 1000, 2000, 4000, 8000, 16000>>[n] ELSE 30000]

LEMMA WaitsDouble == Pauses = Doubled(Pauses)
<1> SUFFICES ASSUME NEW n \in 1..64 PROVE Pauses[n] = Doubled(Pauses)[n]
  BY DEF Pauses, Doubled
<1>1. CASE n \in 1..7
  BY <1>1 DEF Pauses, Doubled
<1>2. CASE n > 7
  <2>1. Pauses[n - 1] = 30000 /\ Pauses[n] = 30000
    BY <1>2 DEF Pauses
  <2> QED BY <2>1, <1>2 DEF Doubled
<1> QED BY <1>1, <1>2

LEMMA NoOtherDoubles ==
  ASSUME NEW ms, ms = Doubled(ms)
  PROVE  ms = Pauses
<1>1. \A n \in 1..64 : ms[n] = Pauses[n]
  <2> DEFINE wrong == {n \in 1..64 : ms[n] # Pauses[n]}
  <2>1. wrong \subseteq Nat /\ \A n : n \in wrong <=> n \in 1..64 /\ ms[n] # Pauses[n]
    OBVIOUS
  <2> HIDE DEF wrong
  <2> SUFFICES ASSUME wrong # {} PROVE FALSE
    BY <2>1
  <2>2. PICK n \in wrong : \A j \in wrong : n <= j
    BY <2>1, LeastNumber
  <2>3. n # 1
    BY <2>1, <2>2 DEF Doubled, Pauses
  <2>4. n - 1 \in 1..64 /\ n - 1 \notin wrong
    BY <2>1, <2>2, <2>3
  <2>5. ms[n - 1] = Pauses[n - 1]
    BY <2>1, <2>4
  <2>6. ms[n] = Doubled(Pauses)[n]
    BY <2>1, <2>2, <2>5 DEF Doubled
  <2> QED BY <2>1, <2>2, <2>6, WaitsDouble
<1>2. DOMAIN ms = 1..64 /\ ms = [n \in DOMAIN ms |-> ms[n]]
  BY DEF Doubled
<1> QED BY <1>1, <1>2 DEF Pauses

LEMMA BackoffIs ==
  ASSUME NEW failures \in Int
  PROVE  Wifi!Backoff(failures, 500, 30000)
           = Pauses[IF failures < 1 THEN 1 ELSE IF failures < 64 THEN failures ELSE 64]
<1> DEFINE ms == CHOOSE ms : ms = Doubled(ms)
<1>1. ms = Pauses
  <2>1. \E w : w = Doubled(w)
    BY WaitsDouble
  <2>2. ms = Doubled(ms)
    BY <2>1
  <2> HIDE DEF ms
  <2> QED BY <2>2, NoOtherDoubles
<1>2. Wifi!Backoff(failures, 500, 30000)
        = ms[IF failures < 1 THEN 1 ELSE IF failures < 64 THEN failures ELSE 64]
  BY DEF Wifi!Backoff, Doubled
<1> HIDE DEF ms
<1> QED BY <1>1, <1>2

\* backoff_ms (src/wifi.rs): after any number of failures, the 64 it is clamped to
\* and beyond included, the wait for the next try is half a second at least and half
\* a minute at most, and a further failure never shortens it.
THEOREM BackoffStaysInBounds ==
  ASSUME NEW failures \in Nat
  PROVE  /\ Wifi!JoinBackoff(failures) \in Nat
         /\ Wifi!RadioBackoff(failures) = Wifi!JoinBackoff(failures)
         /\ 500 <= Wifi!JoinBackoff(failures)
         /\ Wifi!JoinBackoff(failures) <= Wifi!BACKOFF_MAX_MS
         /\ Wifi!JoinBackoff(failures) <= Wifi!JoinBackoff(failures + 1)
<1>1. ASSUME NEW n \in Nat
      PROVE  /\ Wifi!JoinBackoff(n) = Pauses[IF n < 1 THEN 1 ELSE IF n < 64 THEN n ELSE 64]
             /\ Wifi!RadioBackoff(n) = Wifi!JoinBackoff(n)
  BY BackoffIs DEF Wifi!JoinBackoff, Wifi!RadioBackoff, Wifi!JOIN_BACKOFF_FIRST_MS,
                   Wifi!RADIO_BACKOFF_FIRST_MS, Wifi!BACKOFF_MAX_MS
<1>2. ASSUME NEW i \in 1..64
      PROVE  /\ Pauses[i] \in Nat /\ 500 <= Pauses[i] /\ Pauses[i] <= 30000
             /\ i < 64 => Pauses[i] <= Pauses[i + 1]
  <2>1. /\ Pauses[1] = 500 /\ Pauses[2] = 1000 /\ Pauses[3] = 2000 /\ Pauses[4] = 4000
        /\ Pauses[5] = 8000 /\ Pauses[6] = 16000
        /\ \A n \in 7..64 : Pauses[n] = 30000
    BY DEF Pauses
  <2> QED BY <2>1
<1>3. PICK i \in 1..64, j \in 1..64 :
        /\ Wifi!JoinBackoff(failures) = Pauses[i] /\ Wifi!JoinBackoff(failures + 1) = Pauses[j]
        /\ j = i \/ (i < 64 /\ j = i + 1)
  BY <1>1
<1> QED BY <1>1, <1>2, <1>3 DEF Wifi!BACKOFF_MAX_MS

-----------------------------------------------------------------------------
(* The types of the connection task. *)

LEMMA SsidsAre == NoSsid \in Wifi!Ssids /\ \A p \in Pairs : p.ssid \in Wifi!Ssids
  BY Zenon DEF Wifi!Ssids

LEMMA LongestPause == Wifi!BACKOFF_MAX_MS \in Nat /\ 5000 <= Wifi!BACKOFF_MAX_MS
  BY DEF Wifi!BACKOFF_MAX_MS

LEMMA PauseBounds ==
  /\ 0 \in Wifi!Waits
  /\ \A n \in Nat : /\ Wifi!JoinBackoff(n) \in Wifi!Waits
                    /\ Wifi!RadioBackoff(n) \in Wifi!Waits
  BY LongestPause, BackoffStaysInBounds DEF Wifi!Waits

LEMMA AfterADisconnect ==
  ASSUME Wifi!Disconnect
  PROVE  /\ wait' \in Wifi!Waits /\ taskPc' = "pause"
         /\ UNCHANGED <<Wifi!given, up, reason, rtcRefusals, Wifi!task, controller, rejected>>
<1>1. wait' \in Wifi!Waits
  BY LongestPause DEF Wifi!Disconnect, Wifi!Waits
<1>2. /\ taskPc' = "pause"
      /\ UNCHANGED <<Wifi!given, up, reason, rtcRefusals, Wifi!task, controller, rejected>>
  BY Zenon DEF Wifi!Disconnect
<1> QED BY <1>1, <1>2

LEMMA CounterIs ==
  ASSUME Wifi!Parameters
  PROVE  /\ 0 \in Wifi!Counter
         /\ \A n \in Wifi!Counter : n \in Nat /\ Wifi!Up1(n) \in Wifi!Counter
  BY DEF Wifi!Parameters, Wifi!Counter, Wifi!Up1

LEMMA JoinTypeStep ==
  ASSUME Wifi!Parameters, Wifi!TypeOK, [Wifi!Next]_(Wifi!vars)
  PROVE  Wifi!TypeOK'
<1> USE DEF Wifi!TypeOK, Wifi!given, Wifi!task
<1>1. 0 \in Wifi!Counter /\ \A n \in Wifi!Counter : n \in Nat /\ Wifi!Up1(n) \in Wifi!Counter
  BY CounterIs
<1>2. Wifi!Chosen \in Pairs /\ Wifi!Chosen.ssid \in Wifi!Ssids /\ NoSsid \in Wifi!Ssids
  BY SsidsAre DEF Wifi!Parameters, Wifi!Chosen, Wifi!Active
<1>3. ASSUME NEW n \in Wifi!Counter
      PROVE  /\ Wifi!JoinBackoff(n) \in Wifi!Waits
             /\ Wifi!RadioBackoff(n) \in Wifi!Waits
  BY <1>1, PauseBounds
<1>4. CASE UNCHANGED Wifi!vars
  BY <1>4 DEF Wifi!vars
<1>5. CASE Wifi!Wake
  BY <1>1, <1>2, <1>5, PauseBounds DEF Wifi!Wake
<1>6. CASE Wifi!Configure \/ Wifi!AlreadyConfigured
  BY <1>1, <1>2, <1>6 DEF Wifi!Configure, Wifi!AlreadyConfigured
<1>7. CASE Wifi!ConfigureRefused
  BY <1>1, <1>2, <1>3, <1>7 DEF Wifi!ConfigureRefused
<1>8. CASE Wifi!JoinOk
  BY <1>1, <1>8 DEF Wifi!JoinOk
<1>9. CASE Wifi!JoinRefused
  BY <1>1, <1>3, <1>9 DEF Wifi!JoinRefused
<1>10. CASE Wifi!PauseEnds \/ Wifi!AccessPoint
  BY <1>10 DEF Wifi!PauseEnds, Wifi!AccessPoint
<1>11. CASE Wifi!Disconnect
  BY <1>11, AfterADisconnect
<1>12. CASE Wifi!Sleep \/ Wifi!Reset
  BY <1>12 DEF Wifi!Sleep, Wifi!Reset
<1> QED
  BY <1>4, <1>5, <1>6, <1>7, <1>8, <1>9, <1>10, <1>11, <1>12
     DEF Wifi!Next, Wifi!Configuring, Wifi!Answer

\* The connection task's state is what the code's types allow, for any
\* credentials, those that share an SSID included; no pause it asks for is
\* longer than BACKOFF_MAX_MS (src/main.rs connection).
THEOREM JoinTypeCorrect ==
  ASSUME Wifi!Parameters
  PROVE  Wifi!Spec => []Wifi!TypeOK
<1>1. Wifi!Init => Wifi!TypeOK
  BY SsidsAre, CounterIs, PauseBounds DEF Wifi!Init, Wifi!TypeOK, Wifi!Parameters
<1>2. Wifi!TypeOK /\ [Wifi!Next]_(Wifi!vars) => Wifi!TypeOK'
  BY JoinTypeStep
<1> QED BY <1>1, <1>2, PTL DEF Wifi!Spec
=============================================================================
