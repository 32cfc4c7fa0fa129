--------------------------- MODULE BirdScaleProofs ---------------------------
(***************************************************************************)
(* For any loads, settings, batteries and contents of RTC RAM, and however *)
(* often the node restarts: the scale's use of the radio is limited, it is *)
(* never mute for long, and a landing is counted once.  Rounds that count  *)
(* for longer than they lasted are excused, as in BirdScale.               *)
(***************************************************************************)
EXTENDS BirdScale, TLAPS

\* A parked sleep is longer than the gap, and so is the stopwatch.
Scale == PARK_INTERVAL >= MIN_PUBLISH_GAP_SECS /\ MaxSince >= MIN_PUBLISH_GAP_SECS

\* The round counters, u32 in the code, hold as many rounds as there are seconds
\* in a heartbeat, which is a u32 too.
Counters == \A c \in Configs : c.heartbeat <= MaxRounds

Between(x) == x \in Int /\ (\E l \in Loads : l <= x) /\ (\E l \in Loads : x <= l)

-----------------------------------------------------------------------------
(* Numbers. *)

LEMMA Numbers ==
  /\ Loads \subseteq Int /\ NoWeight \notin Int
  /\ MIN_PUBLISH_GAP_SECS \in Nat /\ VISIT_MAX \in Nat /\ PARK_INTERVAL \in Nat
  /\ MaxRounds \in Nat /\ MaxSince \in Nat /\ MaxTurns \in Nat
  /\ Cells \subseteq {"good", "low", "flat", "odd", "unread"} /\ Nights \subseteq BOOLEAN
  BY BirdScaleAssumption

LEMMA ConfigNumbers ==
  ASSUME NEW c \in Configs
  PROVE  /\ c.idle \in Nat \ {0} /\ c.night \in Nat /\ c.active \in Nat \ {0}
         /\ c.heartbeat \in Nat /\ c.threshold \in Nat \ {0}
  BY BirdScaleAssumption

LEMMA IdleIsPositive ==
  ASSUME NEW c \in Configs, NEW dark \in BOOLEAN
  PROVE  IdleSecs(c, dark) \in Nat \ {0}
  BY ConfigNumbers DEF IdleSecs

LEMMA SleepIsNatural ==
  ASSUME NEW c \in Configs, NEW dark \in BOOLEAN,
         NEW kind \in {"idle", "day", "active", "park"}
  PROVE  SleepSecs(kind, c, dark) \in Nat
  BY ConfigNumbers, IdleIsPositive, Numbers DEF SleepSecs

LEMMA Up1Type ==
  ASSUME NEW n \in Rounds
  PROVE  Up1(n) \in Rounds /\ Up1(n) <= n + 1
  BY Numbers DEF Up1, Rounds

LEMMA UptoType ==
  ASSUME NEW n \in Nat, NEW max \in Nat
  PROVE  Upto(n, max) \in 0..max /\ (Upto(n, max) = n \/ Upto(n, max) = max)
  BY DEF Upto

LEMMA Product ==
  ASSUME NEW m \in Nat, NEW n \in Nat, NEW w \in Nat
  PROVE  m * w \in Nat /\ 0 * w = 0 /\ (m <= n + 1 => m * w <= n * w + w)
<1>1. m * w \in Nat /\ n * w \in Nat /\ 0 * w = 0
  OBVIOUS
<1>2. ASSUME m <= n + 1 PROVE m * w <= n * w + w
  <2>1. m * w <= (n + 1) * w
    BY <1>2
  <2>2. (n + 1) * w = n * w + w
    OBVIOUS
  <2> QED BY <2>1, <2>2
<1> QED BY <1>1, <1>2

\* One more round counted, and one round passed at least.
LEMMA OneRoundMore ==
  ASSUME NEW m \in Nat, NEW n \in Nat, NEW w \in Nat, NEW spent \in Nat, NEW s \in Nat,
         m <= n + 1, n * w <= s
  PROVE  m * w <= s + (spent + w)
<1>1. m * w <= n * w + w /\ m * w \in Nat /\ n * w \in Nat
  BY Product
<1> DEFINE p == m * w
           q == n * w
<1>2. p <= q + w /\ p \in Nat /\ q \in Nat /\ q <= s
  BY <1>1
<1> HIDE DEF p, q
<1>3. p <= s + (spent + w)
  BY <1>2
<1> QED BY <1>3 DEF p

LEMMA NoRounds ==
  ASSUME NEW w \in Nat, NEW s \in Nat, NEW n, n = 0
  PROVE  n * w <= s
<1>1. 0 * w = 0
  BY Product
<1>2. 0 <= s
  OBVIOUS
<1> QED BY <1>1, <1>2

\* As many rounds as rounds_for asks for last at least as long.
LEMMA RoundsLast ==
  ASSUME NEW secs \in Nat, NEW w \in Nat \ {0}, NEW n \in Nat, n >= RoundsFor(secs, w)
  PROVE  n * w >= secs
<1> DEFINE q == (secs + w - 1) \div w
<1>1. AtLeastOne(w) = w
  BY DEF AtLeastOne
<1>2. RoundsFor(secs, w) = AtLeastOne(q)
  BY <1>1 DEF RoundsFor
<1>3. q \in Int /\ q * w >= secs
  <2>1. \A a \in Nat : (a \div w) \in Int /\ (a \div w) * w + (a % w) = a /\ a % w < w
    OBVIOUS
  <2>2. secs + w - 1 \in Nat
    OBVIOUS
  <2>3. q \in Int /\ q * w + ((secs + w - 1) % w) = secs + w - 1 /\ (secs + w - 1) % w < w
    BY <2>1, <2>2
  <2> QED BY <2>3
<1>4. n >= q
  BY <1>2, <1>3 DEF AtLeastOne
<1>5. n * w >= q * w
  BY <1>3, <1>4
<1> QED BY <1>3, <1>5

LEMMA DriftStaysBetween ==
  ASSUME NEW base, NEW weight \in Loads, Between(base)
  PROVE  /\ Between(Drifted(base, weight - base))
         /\ \A t \in Nat \ {0} : weight - base < t => weight - Drifted(base, weight - base) < t
<1> DEFINE d == (weight - base) \div 16
<1>1. weight \in Int /\ base \in Int /\ d \in Int /\ Drifted(base, weight - base) = base + d
  BY Numbers DEF Drifted, Between
<1>2. PICK low \in Loads, high \in Loads : low <= base /\ base <= high
  BY DEF Between
<1>3. low \in Int /\ high \in Int
  BY Numbers
<1>4. CASE weight >= base
  <2>1. low <= base + d /\ base + d <= weight /\ 0 <= d
    BY <1>1, <1>2, <1>3, <1>4
  <2> QED BY <1>1, <2>1 DEF Between
<1>5. CASE weight < base
  <2>1. weight <= base + d /\ base + d <= high
    BY <1>1, <1>2, <1>3, <1>5
  <2> QED BY <1>1, <2>1 DEF Between
<1> QED BY <1>1, <1>4, <1>5

LEMMA LoadIsBetween == ASSUME NEW weight \in Loads PROVE Between(weight)
  BY Numbers DEF Between

-----------------------------------------------------------------------------
(* Types. *)

Kinds == {"idle", "day", "active", "park"}

\* What sleeping, or starting a session, assigns.
RoundTypes ==
  /\ pc \in {"asleep", "visit", "session"}
  /\ why \in {"none", "presence", "heartbeat", "park"}
  /\ measured \in Loads \cup {NoWeight}
  /\ next \in {"none", "idle", "day", "active", "park"}
  /\ night \in Nights /\ turns \in 0..MaxTurns
  /\ since \in 0..MaxSince /\ cut \in BOOLEAN
  /\ pc = "session" => next \in Kinds /\ why # "none"

\* What the rest of a round assigns.
MemoryTypes ==
  /\ load \in Loads /\ cell \in Cells /\ cfg \in Configs
  /\ initialised \in BOOLEAN /\ present \in BOOLEAN /\ Between(baseline)
  /\ presentRounds \in Rounds /\ unexplained \in Rounds
  /\ parked \in BOOLEAN
  /\ told \in Loads \cup {NoWeight}
  /\ fresh \in BOOLEAN /\ recount \in BOOLEAN

Typed == RoundTypes /\ MemoryTypes /\ idleWakes \in Rounds

LEMMA TypedIsTypeOK == Typed => TypeOK
  BY DEF Typed, TypeOK, RoundTypes, MemoryTypes, Between

LEMMA PassesType ==
  ASSUME since \in 0..MaxSince, NEW secs \in Nat, Passes(secs)
  PROVE  since' \in 0..MaxSince
<1>1. (IF pc = "session" THEN 0 ELSE since) + secs \in Nat
  OBVIOUS
<1> QED BY <1>1, UptoType, Numbers DEF Passes

LEMMA ClockType ==
  ASSUME night \in Nights, turns \in 0..MaxTurns, ClockMoves
  PROVE  /\ night' \in Nights /\ night' \in BOOLEAN /\ turns' \in 0..MaxTurns
         /\ turns' >= (IF pc = "session" THEN 0 ELSE turns)
         /\ turns' = 0 => night' = night
  BY Numbers DEF ClockMoves

LEMMA SleepType ==
  ASSUME RoundTypes, cfg' \in Configs, NEW kind \in Kinds, NEW spent \in Nat, Sleep(kind, spent)
  PROVE  RoundTypes' /\ pc' = "asleep"
<1>1. night' \in Nights /\ night' \in BOOLEAN /\ turns' \in 0..MaxTurns
  BY ClockType DEF RoundTypes, Sleep
<1>2. SleepSecs(kind, cfg', night') \in Nat
  BY <1>1, SleepIsNatural DEF Kinds
<1>3. spent + SleepSecs(kind, cfg', night') \in Nat
  BY <1>2
<1>4. since' \in 0..MaxSince
  BY <1>3, PassesType DEF RoundTypes, Sleep
<1> QED BY <1>1, <1>4 DEF RoundTypes, Sleep

LEMMA SessionType ==
  ASSUME RoundTypes, NEW purpose \in {"presence", "heartbeat", "park"},
         NEW weight \in Loads \cup {NoWeight}, NEW kind \in Kinds, NEW spent \in Nat,
         Session(purpose, weight, kind, spent)
  PROVE  RoundTypes' /\ pc' = "session"
<1>1. since' \in 0..MaxSince
  BY PassesType DEF RoundTypes, Session
<1> QED BY <1>1 DEF RoundTypes, Session, Kinds

LEMMA TailType ==
  ASSUME RoundTypes, idleWakes \in Rounds, cfg \in Configs, cfg' = cfg,
         NEW weight \in Loads \cup {NoWeight}, NEW spent \in Nat, Tail(weight, spent)
  PROVE  RoundTypes' /\ idleWakes' \in Rounds /\ pc' # "visit"
<1>1. CASE idleWakes' = 0 /\ Session("heartbeat", weight, "idle", spent)
  <2>1. 0 \in Rounds
    BY Numbers DEF Rounds
  <2> QED BY <1>1, <2>1, SessionType DEF Kinds
<1>2. CASE idleWakes' = Up1(idleWakes) /\ Sleep("idle", spent)
  BY <1>2, SleepType, Up1Type DEF Kinds
<1> QED BY <1>1, <1>2 DEF Tail

LEMMA PublishOrTailType ==
  ASSUME RoundTypes, idleWakes \in Rounds, cfg \in Configs, cfg' = cfg,
         NEW weight \in Loads \cup {NoWeight}, NEW kind \in Kinds, NEW spent \in Nat,
         PublishOrTail(weight, kind, spent)
  PROVE  RoundTypes' /\ idleWakes' \in Rounds /\ pc' # "visit"
<1>1. CASE Session("presence", weight, kind, spent) /\ idleWakes' = idleWakes
  BY <1>1, SessionType
<1>2. CASE Tail(weight, spent)
  BY <1>2, TailType
<1> QED BY <1>1, <1>2 DEF PublishOrTail


LEMMA TypeInit == ASSUME Scale PROVE Init => Typed
<1> SUFFICES ASSUME Init PROVE Typed
  OBVIOUS
<1>1. /\ 0 \in Rounds /\ MaxRounds \in Rounds /\ 0 \in 0..MaxTurns
      /\ 0 \in 0..MaxSince /\ MIN_PUBLISH_GAP_SECS \in 0..MaxSince
  BY Numbers DEF Rounds, Scale
<1>2. baseline \in Loads
  BY BirdScaleAssumption DEF Init
<1>3. Between(baseline)
  BY <1>2, LoadIsBetween
<1>4. RoundTypes
  BY <1>1, BirdScaleAssumption DEF Init, RoundTypes
<1>5. MemoryTypes /\ idleWakes \in Rounds
  BY <1>1, <1>3 DEF Init, MemoryTypes
<1> QED BY <1>4, <1>5 DEF Typed

LEMMA ParkedType ==
  ASSUME MemoryTypes, Wakes
  PROVE  parked' \in BOOLEAN
  BY DEF MemoryTypes, Wakes, ShouldPark

LEMMA TypeStep == ASSUME Typed, Next PROVE Typed'
<1>0. RoundTypes /\ MemoryTypes /\ idleWakes \in Rounds
  BY DEF Typed
<1> USE <1>0 DEF Kinds, Typed
<1>a. /\ load \in Loads /\ cfg \in Configs /\ 0 \in Rounds
      /\ load \in Loads \cup {NoWeight} /\ 0 \in Nat /\ VISIT_MAX \in Nat
  BY Numbers DEF MemoryTypes, Rounds
<1>1. CASE ParkRound
  <2>1. RoundTypes'
    BY <1>1, <1>a, SessionType DEF ParkRound
  <2>2. parked' \in BOOLEAN
    BY <1>1, ParkedType DEF ParkRound
  <2> QED BY <1>1, <2>1, <2>2 DEF ParkRound, MemoryTypes
<1>2. CASE SilentRound
  <2>1. RoundTypes' /\ idleWakes' \in Rounds
    BY <1>2, <1>a, TailType DEF SilentRound
  <2>2. parked' \in BOOLEAN
    BY <1>2, ParkedType DEF SilentRound, Polls
  <2> QED BY <1>2, <2>1, <2>2 DEF SilentRound, MemoryTypes
<1>3. CASE FirstTare
  <2>1. RoundTypes'
    BY <1>3, <1>a, SleepType DEF FirstTare
  <2>2. parked' \in BOOLEAN /\ Between(baseline')
    BY <1>3, <1>a, ParkedType, LoadIsBetween DEF FirstTare, Polls
  <2> QED BY <1>3, <2>1, <2>2 DEF FirstTare, MemoryTypes
<1>4. ASSUME NEW verdict, Judges(verdict)
      PROVE  /\ parked' \in BOOLEAN /\ unexplained' \in Rounds
             /\ UNCHANGED <<load, cell, cfg, initialised, told, fresh, recount>>
  BY <1>4, <1>a, ParkedType, Up1Type DEF Judges, Polls, MemoryTypes
<1>5. CASE Arrives
  <2>1. RoundTypes'
    BY <1>5, <1>a DEF Arrives, RoundTypes
  <2> QED BY <1>5, <1>4, <2>1 DEF Arrives, MemoryTypes
<1>6. CASE Stays
  <2>1. RoundTypes' /\ idleWakes' \in Rounds
    BY <1>6, <1>4, <1>a, TailType, PublishOrTailType DEF Stays
  <2>2. presentRounds' \in Rounds /\ present' \in BOOLEAN /\ Between(baseline')
    BY <1>6, <1>a, Up1Type, LoadIsBetween DEF Stays, MemoryTypes
  <2> QED BY <1>6, <1>4, <2>1, <2>2 DEF Stays, MemoryTypes
<1>7. CASE Departs
  <2>1. RoundTypes' /\ idleWakes' \in Rounds
    BY <1>7, <1>4, <1>a, PublishOrTailType DEF Departs
  <2> QED BY <1>7, <1>4, <1>a, <2>1 DEF Departs, MemoryTypes
<1>8. CASE RestsQuiet
  <2>1. RoundTypes' /\ idleWakes' \in Rounds
    BY <1>8, <1>4, <1>a, TailType DEF RestsQuiet
  <2>2. Between(baseline')
    BY <1>8, <1>a, DriftStaysBetween DEF RestsQuiet, MemoryTypes
  <2> QED BY <1>8, <1>4, <2>1, <2>2 DEF RestsQuiet, MemoryTypes
<1>9. CASE RestsUnexplained
  <2>1. RoundTypes' /\ idleWakes' \in Rounds
    BY <1>9, <1>a, TailType DEF RestsUnexplained
  <2>2. unexplained' \in Rounds /\ Between(baseline') /\ parked' \in BOOLEAN
    BY <1>9, <1>a, Up1Type, LoadIsBetween, ParkedType DEF RestsUnexplained, Polls, MemoryTypes
  <2> QED BY <1>9, <2>1, <2>2 DEF RestsUnexplained, MemoryTypes
<1>10. ASSUME NEW stillLoaded \in BOOLEAN, NEW spent \in Nat,
              NEW weight \in Loads \cup {NoWeight}, VisitEnds(stillLoaded, spent, weight),
              fresh' \in BOOLEAN, recount' \in BOOLEAN
       PROVE  Typed'
  <2>1. RoundTypes' /\ idleWakes' \in Rounds
    BY <1>10, <1>a, PublishOrTailType DEF VisitEnds
  <2> QED BY <1>10, <1>a, <2>1 DEF VisitEnds, MemoryTypes
<1>11. CASE VisitRunsOut \/ VisitorLeaves \/ VisitLost
  <2>1. measured \in Loads \cup {NoWeight}
    BY DEF RoundTypes
  <2>2. fresh' \in BOOLEAN /\ recount' \in BOOLEAN
    BY <1>11 DEF VisitRunsOut, VisitorLeaves, VisitLost, Counts, MemoryTypes
  <2> QED
    BY <1>11, <1>10, <1>a, <2>1, <2>2 DEF VisitRunsOut, VisitorLeaves, VisitLost
<1>12. ASSUME pc = "session", cfg' \in Configs, SessionOver
       PROVE  /\ RoundTypes' /\ idleWakes' \in Rounds /\ fresh' \in BOOLEAN
              /\ UNCHANGED <<load, cell, initialised, unexplained, parked, recount>>
  <2>1. next \in Kinds
    BY <1>12 DEF RoundTypes
  <2>2. (cfg'.threshold < cfg.threshold) \in BOOLEAN
    OBVIOUS
  <2> QED BY <1>12, <1>a, <2>1, <2>2, SleepType DEF SessionOver, MemoryTypes
<1>13. CASE PublishFails
  BY <1>13, <1>12, <1>a DEF PublishFails, MemoryTypes
<1>14. CASE PublishOk
  <2>1. told' \in Loads \cup {NoWeight}
    BY <1>14 DEF PublishOk, Tells, RoundTypes, MemoryTypes
  <2> QED BY <1>14, <1>12, <2>1 DEF PublishOk, MemoryTypes
<1>15. CASE PublishAndRetare
  <2>1. told' \in Loads \cup {NoWeight}
    BY <1>15 DEF PublishAndRetare, Tells, RoundTypes, MemoryTypes
  <2> QED BY <1>15, <1>12, <1>a, <2>1, LoadIsBetween DEF PublishAndRetare, MemoryTypes
<1>16. CASE Restart
  <2>1. since' \in 0..MaxSince
    BY <1>16, <1>a, PassesType DEF Restart, RoundTypes
  <2>2. told' \in Loads \cup {NoWeight}
    BY <1>16 DEF Restart, Tells, RoundTypes, MemoryTypes
  <2>3. turns' \in 0..MaxTurns
    BY <1>16, Numbers DEF Restart, RoundTypes
  <2> QED
    BY <1>16, <2>1, <2>2, <2>3 DEF Restart, RoundTypes, MemoryTypes, world, rtc
<1>17. CASE LoadChanges
  BY <1>17, Numbers DEF LoadChanges, RoundTypes, MemoryTypes, rtc, round
<1>18. CASE CellChanges
  BY <1>18 DEF CellChanges, RoundTypes, MemoryTypes, rtc, round, history
<1>19. CASE LightChanges
  BY <1>19, Numbers DEF LightChanges, RoundTypes, MemoryTypes, rtc, round
<1> QED
  BY <1>1, <1>2, <1>3, <1>5, <1>6, <1>7, <1>8, <1>9, <1>11, <1>13, <1>14, <1>15,
     <1>16, <1>17, <1>18, <1>19
  DEF Next, Program, Weighing

-----------------------------------------------------------------------------
(* The rate limit: rounds counted last at least as long as they count for. *)

Counted == since >= MIN_PUBLISH_GAP_SECS \/ idleWakes * WakeSecs <= since

Rated ==
  /\ ~Excused => Counted
  /\ pc = "session" => /\ why = "presence" => since >= MIN_PUBLISH_GAP_SECS \/ Excused
                       /\ why = "heartbeat" => idleWakes = 0
                       /\ why = "park" => next = "park"

LEMMA WakeSecsPositive == ASSUME Typed PROVE WakeSecs \in Nat \ {0}
  BY IdleIsPositive, Numbers DEF Typed, RoundTypes, MemoryTypes, WakeSecs

\* Time that passes keeps what was reached.
LEMMA PassesKeepsGap ==
  ASSUME Scale, since \in 0..MaxSince, pc # "session", NEW secs \in Nat, Passes(secs)
  PROVE  /\ since' >= since
         /\ since >= MIN_PUBLISH_GAP_SECS => since' >= MIN_PUBLISH_GAP_SECS
         /\ since' = since + secs \/ since' >= MIN_PUBLISH_GAP_SECS
  BY Numbers DEF Scale, Passes, Upto

LEMMA PassesRestarts ==
  ASSUME Scale, pc = "session", NEW secs \in Nat, Passes(secs)
  PROVE  /\ since' \in Nat
         /\ secs >= MIN_PUBLISH_GAP_SECS => since' >= MIN_PUBLISH_GAP_SECS
  BY Numbers DEF Scale, Passes, Upto

LEMMA AllowedIsLate ==
  ASSUME Typed, Rated, PublishAllowed, ~Excused
  PROVE  since >= MIN_PUBLISH_GAP_SECS
<1>1. idleWakes \in Nat /\ since \in Nat
  BY Numbers DEF Typed, RoundTypes, Rounds
<1>2. idleWakes * WakeSecs >= MIN_PUBLISH_GAP_SECS
  BY <1>1, RoundsLast, WakeSecsPositive, Numbers DEF PublishAllowed, MayPublish
<1>3. idleWakes * WakeSecs \in Nat
  BY <1>1, WakeSecsPositive
<1> QED BY <1>1, <1>2, <1>3, Numbers DEF Rated, Counted

\* A round that goes back to sleep: one more counted, one idle round passed.
LEMMA SleepRated ==
  ASSUME Scale, Typed, Rated, pc # "session", cfg' = cfg, NEW spent \in Nat,
         Sleep("idle", spent), idleWakes' \in Nat, idleWakes' <= idleWakes + 1
  PROVE  Rated'
<1>1. pc' = "asleep" /\ (~Excused' => ~Excused /\ night' = night)
  BY ClockType DEF Sleep, Excused, Typed, RoundTypes
<1>2. SUFFICES ASSUME ~Excused' PROVE Counted'
  BY <1>1 DEF Rated
<1>3. WakeSecs' = WakeSecs /\ SleepSecs("idle", cfg', night') = WakeSecs
  BY <1>1, <1>2 DEF WakeSecs, SleepSecs
<1>4. WakeSecs \in Nat \ {0} /\ idleWakes \in Nat /\ since \in 0..MaxSince
  BY WakeSecsPositive, Numbers DEF Typed, RoundTypes, Rounds
<1>5. Passes(spent + WakeSecs)
  BY <1>3 DEF Sleep
<1>6. /\ since >= MIN_PUBLISH_GAP_SECS => since' >= MIN_PUBLISH_GAP_SECS
      /\ since' = since + (spent + WakeSecs) \/ since' >= MIN_PUBLISH_GAP_SECS
  BY <1>4, <1>5, PassesKeepsGap
<1>7. CASE since >= MIN_PUBLISH_GAP_SECS \/ since' >= MIN_PUBLISH_GAP_SECS
  BY <1>6, <1>7 DEF Counted
<1>8. CASE since' = since + (spent + WakeSecs) /\ idleWakes * WakeSecs <= since
  <2>1. since \in Nat /\ WakeSecs \in Nat
    BY <1>4
  <2>2. idleWakes' * WakeSecs <= since + (spent + WakeSecs)
    BY <1>4, <1>8, <2>1, OneRoundMore
  <2> QED BY <1>3, <1>8, <2>2 DEF Counted
<1>9. Counted
  BY <1>1, <1>2 DEF Rated
<1> QED BY <1>6, <1>7, <1>8, <1>9 DEF Counted

LEMMA TailRated ==
  ASSUME Scale, Typed, Rated, pc # "session", cfg' = cfg,
         NEW weight \in Loads \cup {NoWeight}, NEW spent \in Nat, Tail(weight, spent)
  PROVE  Rated'
<1>1. CASE idleWakes' = 0 /\ Session("heartbeat", weight, "idle", spent)
  <2>1. RoundTypes'
    BY <1>1, SessionType DEF Typed, Kinds
  <2>2. WakeSecs' \in Nat /\ since' \in Nat
    BY <2>1, IdleIsPositive, Numbers DEF Typed, RoundTypes, MemoryTypes, WakeSecs
  <2>3. idleWakes' * WakeSecs' <= since'
    BY <1>1, <2>2, NoRounds
  <2>4. Counted'
    BY <2>3 DEF Counted
  <2>5. pc' = "session" /\ why' = "heartbeat"
    BY <1>1 DEF Session
  <2> QED BY <1>1, <2>4, <2>5 DEF Rated
<1>2. CASE idleWakes' = Up1(idleWakes) /\ Sleep("idle", spent)
  <2>1. idleWakes' \in Nat /\ idleWakes' <= idleWakes + 1
    BY <1>2, Up1Type, Numbers DEF Typed, Rounds
  <2> QED BY <1>2, <2>1, SleepRated
<1> QED BY <1>1, <1>2 DEF Tail

LEMMA PublishOrTailRated ==
  ASSUME Scale, Typed, Rated, pc # "session", cfg' = cfg,
         NEW weight \in Loads \cup {NoWeight}, NEW kind \in Kinds, NEW spent \in Nat,
         PublishOrTail(weight, kind, spent)
  PROVE  Rated'
<1>1. CASE PublishAllowed /\ Session("presence", weight, kind, spent) /\ idleWakes' = idleWakes
  <2>1. pc' = "session" /\ why' = "presence" /\ Excused' = Excused
    BY <1>1 DEF Session, Excused
  <2>2. ~Excused => since' >= MIN_PUBLISH_GAP_SECS
    BY <1>1, AllowedIsLate, PassesKeepsGap DEF Session, Typed, RoundTypes
  <2> QED BY <2>1, <2>2 DEF Rated, Counted
<1>2. CASE Tail(weight, spent)
  BY <1>2, TailRated
<1> QED BY <1>1, <1>2 DEF PublishOrTail

\* After a session the count starts anew, or hours go by.
LEMMA SessionOverRated ==
  ASSUME Scale, Typed, Rated, pc = "session", cfg' \in Configs, SessionOver
  PROVE  Rated'
<1>1. pc' = "asleep" /\ next \in Kinds /\ why \in {"presence", "heartbeat", "park"}
  BY DEF SessionOver, Sleep, Typed, RoundTypes
<1>2. night' \in BOOLEAN
  BY ClockType DEF SessionOver, Sleep, Typed, RoundTypes
<1>3. SleepSecs(next, cfg', night') \in Nat /\ WakeSecs' \in Nat
  BY <1>1, <1>2, SleepIsNatural, IdleIsPositive DEF Kinds, WakeSecs
<1>4. Passes(0 + SleepSecs(next, cfg', night'))
  BY DEF SessionOver, Sleep
<1>5. 0 + SleepSecs(next, cfg', night') \in Nat
  BY <1>3
<1>6. CASE why = "park"
  <2>1. 0 + SleepSecs(next, cfg', night') = PARK_INTERVAL
    BY <1>6, Numbers DEF Rated, SleepSecs
  <2>2. since' >= MIN_PUBLISH_GAP_SECS
    BY <1>4, <1>5, <2>1, PassesRestarts DEF Scale
  <2> QED BY <1>1, <2>2 DEF Rated, Counted
<1>7. CASE why # "park"
  <2>1. idleWakes' = 0
    BY <1>1, <1>7 DEF SessionOver, Rated
  <2>2. since' \in Nat
    BY <1>4, <1>5, PassesRestarts
  <2>3. idleWakes' * WakeSecs' <= since'
    BY <1>3, <2>1, <2>2, NoRounds
  <2>4. Counted'
    BY <2>3 DEF Counted
  <2> QED BY <1>1, <2>4 DEF Rated
<1> QED BY <1>6, <1>7

LEMMA InitRated == ASSUME Scale, Init PROVE Rated
  BY Numbers DEF Init, Rated, Counted, Excused

LEMMA StepRated == ASSUME Scale, Typed, Rated, Next PROVE Rated'
<1>1. /\ load \in Loads \cup {NoWeight} /\ measured \in Loads \cup {NoWeight}
      /\ NoWeight \in Loads \cup {NoWeight} /\ cfg \in Configs
      /\ 0 \in Nat /\ VISIT_MAX \in Nat /\ idleWakes \in Nat /\ since \in 0..MaxSince
      /\ "active" \in Kinds /\ "idle" \in Kinds /\ "day" \in Kinds
  BY Numbers DEF Typed, RoundTypes, MemoryTypes, Rounds, Kinds
<1>2. CASE ParkRound
  <2>1. /\ pc = "asleep" /\ pc' = "session" /\ why' = "park" /\ next' = "park"
        /\ UNCHANGED <<night, cfg, idleWakes, turns, cut>> /\ Passes(0)
    BY <1>2 DEF ParkRound, Wakes, Session
  <2>2. /\ since' >= since
        /\ since >= MIN_PUBLISH_GAP_SECS => since' >= MIN_PUBLISH_GAP_SECS
        /\ since' = since + 0 \/ since' >= MIN_PUBLISH_GAP_SECS
    BY <1>1, <2>1, PassesKeepsGap
  <2>3. WakeSecs' = WakeSecs
    BY <2>1 DEF WakeSecs
  <2>4. Counted => Counted'
    BY <1>1, <2>1, <2>2, <2>3 DEF Counted
  <2> QED BY <2>1, <2>4 DEF Rated, Excused
<1>3. CASE SilentRound
  BY <1>1, <1>3, TailRated DEF SilentRound, Polls, Wakes
<1>4. CASE FirstTare
  <2>1. idleWakes' = idleWakes /\ idleWakes' <= idleWakes + 1
    BY <1>1, <1>4 DEF FirstTare
  <2> QED BY <1>1, <1>4, <2>1, SleepRated DEF FirstTare, Polls, Wakes
<1>5. CASE Arrives
  <2>1. /\ pc' = "visit" /\ UNCHANGED <<night, cfg, idleWakes, since, turns, cut>>
    BY <1>5 DEF Arrives, Judges
  <2> QED BY <2>1 DEF Rated, Counted, WakeSecs, Excused
<1>6. CASE Stays \/ Departs \/ RestsQuiet
  <2>1. pc # "session" /\ cfg' = cfg
    BY <1>6 DEF Stays, Departs, RestsQuiet, Judges, Polls, Wakes
  <2>2. Tail(load, 0) \/ PublishOrTail(load, "active", 0) \/ PublishOrTail(load, "idle", 0)
    BY <1>6 DEF Stays, Departs, RestsQuiet
  <2> QED BY <1>1, <2>1, <2>2, TailRated, PublishOrTailRated
<1>7. CASE RestsUnexplained
  BY <1>1, <1>7, TailRated DEF RestsUnexplained, Polls, Wakes
<1>8. CASE VisitRunsOut \/ VisitorLeaves \/ VisitLost
  <2>1. pc # "session" /\ cfg' = cfg
    BY <1>8 DEF VisitRunsOut, VisitorLeaves, VisitLost, VisitEnds
  <2>2. \E kind \in {"active", "day"}, spent \in {0, VISIT_MAX}, weight \in {load, measured} :
          PublishOrTail(weight, kind, spent)
    BY <1>8 DEF VisitRunsOut, VisitorLeaves, VisitLost, VisitEnds
  <2> QED BY <1>1, <2>1, <2>2, PublishOrTailRated
<1>9. CASE PublishFails \/ PublishOk \/ PublishAndRetare
  <2>1. pc = "session" /\ cfg' \in Configs /\ SessionOver
    BY <1>1, <1>9 DEF PublishFails, PublishOk, PublishAndRetare
  <2> QED BY <2>1, SessionOverRated
<1>10. CASE Restart
  <2>1. /\ pc' = "asleep" /\ UNCHANGED <<night, cfg, idleWakes>>
        /\ ~Excused' => ~Excused /\ pc # "session"
    BY <1>10 DEF Restart, world, rtc, Excused
  <2>2. PICK spent \in Nat : Passes(spent)
    BY <1>1, <1>10 DEF Restart
  <2>3. pc # "session" =>
          since' >= since /\ (since >= MIN_PUBLISH_GAP_SECS => since' >= MIN_PUBLISH_GAP_SECS)
    BY <1>1, <2>2, PassesKeepsGap
  <2>4. WakeSecs' = WakeSecs /\ WakeSecs \in Nat
    BY <2>1, WakeSecsPositive DEF WakeSecs
  <2>5. since' \in Int
    BY <2>2, <1>1, PassesType, Numbers
  <2>6. idleWakes * WakeSecs \in Int
    BY <1>1, <2>4
  <2> QED BY <1>1, <2>1, <2>3, <2>4, <2>5, <2>6 DEF Rated, Counted
<1>11. CASE LoadChanges \/ CellChanges
  BY <1>11 DEF LoadChanges, CellChanges, rtc, round, history, Rated, Counted, WakeSecs, Excused
<1>12. CASE LightChanges
  <2>1. Excused' /\ UNCHANGED <<pc, why, next, idleWakes>> /\ pc = "asleep"
    BY <1>12, Numbers DEF LightChanges, round, rtc, Excused, Typed, RoundTypes
  <2> QED BY <2>1 DEF Rated
<1> QED
  BY <1>2, <1>3, <1>4, <1>5, <1>6, <1>7, <1>8, <1>9, <1>10, <1>11, <1>12
  DEF Next, Program, Weighing

-----------------------------------------------------------------------------
(* One landing, one visit: what would be judged an arrival is new. *)

Landing ==
  /\ ~recount
  /\ pc = "visit" => fresh
  /\ initialised /\ ~present /\ load - baseline >= cfg.threshold => fresh

LEMMA TailLeaves ==
  ASSUME NEW weight, NEW spent, Tail(weight, spent) PROVE pc' # "visit"
  BY DEF Tail, Sleep, Session

LEMMA PublishOrTailLeaves ==
  ASSUME NEW weight, NEW kind, NEW spent, PublishOrTail(weight, kind, spent)
  PROVE  pc' # "visit"
  BY TailLeaves DEF PublishOrTail, Session

LEMMA InitLanding == ASSUME Init PROVE Landing
  BY DEF Init, Landing

LEMMA StepLanding == ASSUME Typed, Landing, Next PROVE Landing'
<1>1. /\ load \in Loads /\ load \in Int /\ baseline \in Int /\ Between(baseline)
      /\ cfg.threshold \in Nat \ {0}
  BY Numbers, ConfigNumbers DEF Typed, MemoryTypes, Between
<1>2. CASE ParkRound \/ SilentRound
  BY <1>2, TailLeaves DEF ParkRound, SilentRound, Session, Landing
<1>3. CASE FirstTare
  BY <1>1, <1>3 DEF FirstTare, Sleep, Landing
<1>4. CASE Arrives
  <2>1. initialised /\ ~present /\ load - baseline >= cfg.threshold
    BY <1>4 DEF Arrives, Judges, Verdict, Decide
  <2> QED BY <1>4, <2>1 DEF Arrives, Judges, Landing
<1>5. CASE Stays
  <2>1. pc' # "visit"
    BY <1>5, TailLeaves, PublishOrTailLeaves DEF Stays
  <2>2. present' \/ baseline' = load'
    BY <1>5 DEF Stays, Judges, Verdict, Decide
  <2> QED BY <1>1, <1>5, <2>1, <2>2 DEF Stays, Judges, Landing
<1>6. CASE Departs
  <2>1. load - baseline < cfg.threshold
    BY <1>1, <1>6 DEF Departs, Judges, Verdict, Decide
  <2> QED BY <1>1, <1>6, <2>1, PublishOrTailLeaves DEF Departs, Judges, Landing
<1>7. CASE RestsQuiet
  <2>1. load - baseline < cfg.threshold
    BY <1>1, <1>7 DEF RestsQuiet, Judges, Verdict, Decide
  <2>2. load - baseline' < cfg.threshold /\ baseline' \in Int
    BY <1>1, <1>7, <2>1, DriftStaysBetween DEF RestsQuiet, Between
  <2> QED BY <1>1, <1>7, <2>2, TailLeaves DEF RestsQuiet, Judges, Landing
<1>8. CASE RestsUnexplained
  <2>1. load - baseline < cfg.threshold
    BY <1>1, <1>8 DEF RestsUnexplained, Verdict, Decide
  <2>2. load - baseline' < cfg.threshold
    BY <1>1, <1>8, <2>1 DEF RestsUnexplained
  <2> QED BY <1>1, <1>8, <2>1, <2>2, TailLeaves DEF RestsUnexplained, Landing
<1>9. CASE VisitRunsOut
  <2>1. pc' # "visit" /\ present'
    BY <1>9, PublishOrTailLeaves DEF VisitRunsOut, VisitEnds
  <2> QED BY <1>9, <2>1 DEF VisitRunsOut, VisitEnds, Counts, Landing
<1>10. CASE VisitorLeaves
  <2>1. pc' # "visit" /\ pc = "visit"
    BY <1>10, PublishOrTailLeaves DEF VisitorLeaves, VisitEnds
  <2> QED BY <1>1, <1>10, <2>1 DEF VisitorLeaves, VisitEnds, StillHeavy, Counts, Landing
<1>11. CASE VisitLost
  <2>1. pc' # "visit" /\ pc = "visit"
    BY <1>11, PublishOrTailLeaves DEF VisitLost, VisitEnds
  <2> QED BY <1>11, <2>1 DEF VisitLost, Landing
<1>12. ASSUME SessionOver, cfg' \in Configs, UNCHANGED <<baseline, present>>
       PROVE  Landing'
  <2>1. cfg'.threshold \in Nat
    BY <1>12, ConfigNumbers
  <2>2. /\ fresh' <=> fresh \/ cfg'.threshold < cfg.threshold
        /\ pc' = "asleep" /\ UNCHANGED <<load, initialised, baseline, present, recount>>
    BY <1>12 DEF SessionOver, Sleep
  <2>3. ASSUME load - baseline >= cfg'.threshold, ~(cfg'.threshold < cfg.threshold)
        PROVE  load - baseline >= cfg.threshold
    BY <1>1, <2>1, <2>3
  <2> QED BY <2>2, <2>3 DEF Landing
<1>13. CASE PublishFails \/ PublishOk
  BY <1>12, <1>13 DEF PublishFails, PublishOk, Typed, MemoryTypes
<1>14. CASE PublishAndRetare
  <2>1. cfg'.threshold \in Nat \ {0} /\ baseline' = load /\ load' = load
    BY <1>14, ConfigNumbers DEF PublishAndRetare, SessionOver
  <2> QED BY <1>1, <1>14, <2>1 DEF PublishAndRetare, SessionOver, Sleep, Landing
<1>15. CASE Restart
  BY <1>15 DEF Restart, world, rtc, Landing
<1>16. CASE LoadChanges
  <2>1. load' \in Int
    BY <1>16, Numbers DEF LoadChanges
  <2>2. /\ fresh' <=> fresh \/ load' > load
        /\ UNCHANGED <<pc, initialised, baseline, present, recount, cfg>>
    BY <1>16 DEF LoadChanges, rtc, round
  <2>3. ASSUME load' - baseline >= cfg.threshold, ~(load' > load)
        PROVE  load - baseline >= cfg.threshold
    BY <1>1, <2>1, <2>3
  <2> QED BY <2>2, <2>3 DEF Landing
<1>17. CASE CellChanges \/ LightChanges
  BY <1>17 DEF CellChanges, LightChanges, rtc, round, history, Landing
<1> QED
  BY <1>2, <1>3, <1>4, <1>5, <1>6, <1>7, <1>8, <1>9, <1>10, <1>11, <1>13, <1>14,
     <1>15, <1>16, <1>17
  DEF Next, Program, Weighing

-----------------------------------------------------------------------------
(* Never mute: what may lie between two sessions. *)

LEMMA LargerIs ==
  ASSUME NEW m \in Nat, NEW n \in Nat
  PROVE  Larger(m, n) \in Nat /\ Larger(m, n) >= m /\ Larger(m, n) >= n
  BY DEF Larger

\* No sleep is longer than the longest.
LEMMA SleepsAreShort ==
  ASSUME NEW c \in Configs
  PROVE  /\ LongestSleep(c) \in Nat /\ PARK_INTERVAL <= LongestSleep(c)
         /\ \A kind \in Kinds, dark \in BOOLEAN : SleepSecs(kind, c, dark) <= LongestSleep(c)
<1>1. PICK idle \in Nat, dim \in Nat, active \in Nat :
        idle = c.idle /\ dim = c.night /\ active = c.active
  BY ConfigNumbers
<1>2. PICK a \in Nat : a = Larger(idle, dim) /\ a >= idle /\ a >= dim
  BY LargerIs
<1>3. PICK b \in Nat : b = Larger(active, a) /\ b >= active /\ b >= a
  BY LargerIs
<1>4. PICK l \in Nat : l = Larger(PARK_INTERVAL, b) /\ l >= PARK_INTERVAL /\ l >= b
  BY LargerIs, Numbers
<1>5. LongestSleep(c) = l
  BY <1>1, <1>2, <1>3, <1>4 DEF LongestSleep
<1>6. ASSUME NEW kind \in Kinds, NEW dark \in BOOLEAN
      PROVE  SleepSecs(kind, c, dark) \in {idle, dim, active, PARK_INTERVAL}
  BY <1>1, ConfigNumbers DEF SleepSecs, IdleSecs, Kinds
<1>7. \A s \in {idle, dim, active, PARK_INTERVAL} : s <= l
  BY <1>2, <1>3, <1>4, Numbers
<1> QED BY <1>4, <1>5, <1>6, <1>7

LEMMA RoundCountsType ==
  ASSUME NEW secs \in Nat, NEW w \in Nat \ {0}
  PROVE  RoundsFor(secs, w) \in Nat /\ HeartbeatWakes(secs, w) \in Nat
<1>1. AtLeastOne(w) = w
  BY DEF AtLeastOne
<1>2. PICK q \in Nat : q = (secs + w - 1) \div w
  BY secs + w - 1 \in Nat
<1>3. PICK r \in Nat : r = secs \div w
  OBVIOUS
<1>4. RoundsFor(secs, w) = AtLeastOne(q) /\ HeartbeatWakes(secs, w) = AtLeastOne(r)
  BY <1>1, <1>2, <1>3 DEF RoundsFor, HeartbeatWakes
<1> QED BY <1>4 DEF AtLeastOne

\* One round is not enough for a stretch longer than it.
LEMMA TwoRoundsAtLeast ==
  ASSUME NEW secs \in Nat, NEW w \in Nat \ {0}, w < secs
  PROVE  RoundsFor(secs, w) >= 2
<1>1. AtLeastOne(w) = w
  BY DEF AtLeastOne
<1>2. PICK q \in Nat : q = (secs + w - 1) \div w /\ q * w + w > secs + w - 1
  <2>1. \A a \in Nat : (a \div w) \in Nat /\ (a \div w) * w + (a % w) = a /\ a % w < w
    OBVIOUS
  <2>2. secs + w - 1 \in Nat
    OBVIOUS
  <2> QED BY <2>1, <2>2
<1>3. q # 0 /\ q # 1
  <2>1. q = 0 => q * w = 0
    OBVIOUS
  <2>2. q = 1 => q * w = w
    OBVIOUS
  <2> QED BY <1>2, <2>1, <2>2
<1>4. RoundsFor(secs, w) = AtLeastOne(q)
  BY <1>1, <1>2 DEF RoundsFor
<1> QED BY <1>3, <1>4 DEF AtLeastOne

\* A heartbeat that is not due yet: the rounds so far, this one included, fit.
LEMMA NotDueYet ==
  ASSUME NEW secs \in Nat, NEW w \in Nat \ {0}, NEW k \in Nat,
         ~(k + 1 >= HeartbeatWakes(secs, w))
  PROVE  (k + 1) * w <= secs /\ k < secs
<1>1. AtLeastOne(w) = w
  BY DEF AtLeastOne
<1>2. PICK q \in Nat : q = secs \div w /\ q * w <= secs
  <2>1. \A a \in Nat : (a \div w) \in Nat /\ (a \div w) * w + (a % w) = a /\ a % w >= 0
    OBVIOUS
  <2> QED BY <2>1
<1>3. HeartbeatWakes(secs, w) = AtLeastOne(q)
  BY <1>1, <1>2 DEF HeartbeatWakes
<1>4. k + 1 < q
  BY <1>3 DEF AtLeastOne
<1>5. (k + 1) * w <= q * w
  BY <1>4
<1>6. q <= q * w
  OBVIOUS
<1> QED BY <1>2, <1>4, <1>5, <1>6

\* Each of the two rhythms is within HeldBack where it is the one that counts.
LEMMA HeldBackIs ==
  ASSUME NEW c \in Configs, NEW dark \in BOOLEAN
  PROVE  /\ HeldBack(c) \in Nat
         /\ c.active < STUCK_AFTER_SECS => RoundsToPublish(c, dark) <= HeldBack(c)
         /\ ~(c.active < STUCK_AFTER_SECS) => RoundsToHeartbeat(c, dark) <= HeldBack(c)
<1>1. /\ RoundsToPublish(c, FALSE) \in Nat /\ RoundsToPublish(c, TRUE) \in Nat
      /\ RoundsToHeartbeat(c, FALSE) \in Nat /\ RoundsToHeartbeat(c, TRUE) \in Nat
  BY IdleIsPositive, RoundCountsType, ConfigNumbers, Numbers
  DEF RoundsToPublish, RoundsToHeartbeat
<1>2. dark = TRUE \/ dark = FALSE
  OBVIOUS
<1> QED BY <1>1, <1>2, LargerIs DEF HeldBack

LEMMA Monotone ==
  ASSUME NEW m \in Nat, NEW n \in Nat, NEW w \in Nat, m <= n
  PROVE  m * w <= n * w /\ m * w \in Nat /\ n * w \in Nat
  OBVIOUS

\* What the stopwatch is made of, between two sessions: idle rounds by day and in
\* the dark, v visits, one long sleep to begin with, one for a first tare and one
\* for every change of the light.
Total(day, dim, v, tare) ==
  day + dim + v * VISIT_MAX + (1 + tare + turns) * LongestSleep(cfg)

\* Neither kind of round has made up a heartbeat; of the kind that is not this
\* hour's there were none unless the light changed.
Rhythm(day, dim) ==
  /\ day <= cfg.heartbeat /\ day <= idleWakes * IdleSecs(cfg, FALSE)
  /\ dim <= cfg.heartbeat /\ dim <= idleWakes * IdleSecs(cfg, TRUE)
  /\ turns = 0 => IF night THEN day = 0 ELSE dim = 0

Slept(day, dim, v, tare) ==
  /\ Rhythm(day, dim) /\ since <= Total(day, dim, v, tare)
  /\ tare = 1 => initialised

\* A visit is followed by a round that counts, up to HeldBack; then by a session,
\* except for one that a restart cut short and one whose load had been there too
\* long already.
Visited(v) ==
  v <= Upto(idleWakes, HeldBack(cfg))
         + (IF pc = "asleep" /\ present THEN 1 ELSE 0)
         + (IF idleWakes >= HeldBack(cfg) /\ presentRounds = 0 THEN 1 ELSE 0)

Heard ==
  /\ pc = "session" => NeverMute
  /\ pc = "visit" => present
  /\ pc # "session" =>
       \E day \in Nat, dim \in Nat, v \in Nat, tare \in {0, 1} :
         Slept(day, dim, v, tare) /\ Visited(v)

\* The numbers the arithmetic is about.
LEMMA Quantities ==
  ASSUME Typed
  PROVE  /\ cfg \in Configs /\ night \in BOOLEAN /\ idleWakes \in Nat /\ since \in Nat
         /\ turns \in Nat /\ presentRounds \in Nat
         /\ cfg.heartbeat \in Nat /\ LongestSleep(cfg) \in Nat /\ HeldBack(cfg) \in Nat
         /\ IdleSecs(cfg, FALSE) \in Nat \ {0} /\ IdleSecs(cfg, TRUE) \in Nat \ {0}
         /\ WakeSecs = IdleSecs(cfg, night)
         /\ VISIT_MAX \in Nat
<1>1. cfg \in Configs /\ night \in BOOLEAN
  BY Numbers DEF Typed, RoundTypes, MemoryTypes
<1>2. idleWakes \in Nat /\ since \in Nat /\ turns \in Nat /\ presentRounds \in Nat
  BY Numbers DEF Typed, RoundTypes, MemoryTypes, Rounds
<1> QED
  BY <1>1, <1>2, ConfigNumbers, SleepsAreShort, HeldBackIs, IdleIsPositive, Numbers DEF WakeSecs

LEMMA AtMostTwoMore ==
  ASSUME Typed, NEW v \in Nat, Visited(v)
  PROVE  /\ v <= HeldBack(cfg) + 2
         /\ pc # "asleep" => v <= HeldBack(cfg) + 1
<1>1. PICK k \in Nat, held \in Nat : k = idleWakes /\ held = HeldBack(cfg)
  BY Quantities
<1>2. Upto(k, held) \in Nat /\ Upto(k, held) <= held
  BY DEF Upto
<1> QED BY <1>1, <1>2 DEF Visited

\* A visit more, a visit longer.
LEMMA OneVisitMore ==
  ASSUME Typed, NEW day \in Nat, NEW dim \in Nat, NEW v \in Nat, NEW tare \in Nat,
         NEW e \in Nat, NEW u \in Nat, u = v + e
  PROVE  /\ Total(day, dim, v, tare) \in Nat /\ e * VISIT_MAX \in Nat
         /\ Total(day, dim, u, tare) = Total(day, dim, v, tare) + e * VISIT_MAX
<1>1. PICK a \in Nat, b \in Nat, c \in Nat :
        /\ a = v * VISIT_MAX /\ b = e * VISIT_MAX /\ a + b = u * VISIT_MAX
        /\ c = (1 + tare + turns) * LongestSleep(cfg)
  <2>1. (v + e) * VISIT_MAX = v * VISIT_MAX + e * VISIT_MAX
    BY Numbers
  <2>2. 1 + tare + turns \in Nat
    BY Quantities
  <2>3. (1 + tare + turns) * LongestSleep(cfg) \in Nat
    BY <2>2, Quantities, Monotone
  <2>4. v * VISIT_MAX \in Nat /\ e * VISIT_MAX \in Nat
    BY Numbers, Monotone
  <2> QED BY <2>1, <2>3, <2>4
<1> QED BY <1>1 DEF Total

LEMMA MuteBoundType == ASSUME Typed PROVE MuteBound \in Nat
<1>1. PICK beat \in Nat, held \in Nat, long \in Nat, n \in Nat :
        beat = cfg.heartbeat /\ held = HeldBack(cfg) /\ long = LongestSleep(cfg) /\ n = turns
  BY Quantities
<1>2. (held + 2) * VISIT_MAX \in Nat /\ (n + 2) * long \in Nat
  BY <1>1, Monotone, Numbers
<1> QED BY <1>1, <1>2 DEF MuteBound

\* Within the bound while v stays within its own.
LEMMA TotalIsShort ==
  ASSUME Typed, NEW day \in Nat, NEW dim \in Nat, NEW v \in Nat, NEW tare \in {0, 1},
         Rhythm(day, dim), v <= HeldBack(cfg) + 2
  PROVE  Total(day, dim, v, tare) <= MuteBound
<1>1. PICK beat \in Nat, held \in Nat, long \in Nat, n \in Nat :
        beat = cfg.heartbeat /\ held = HeldBack(cfg) /\ long = LongestSleep(cfg) /\ n = turns
  BY Quantities
<1>2. PICK a \in Nat, b \in Nat : a = v * VISIT_MAX /\ b = (held + 2) * VISIT_MAX /\ a <= b
  BY <1>1, Monotone, Numbers
<1>3. PICK c \in Nat, d \in Nat :
        c = (1 + tare + n) * long /\ d = (n + 2) * long /\ c <= d
  BY Monotone, 1 + tare + n \in Nat, 1 + tare + n <= n + 2
<1>4. Total(day, dim, v, tare) = day + dim + a + c /\ day <= beat /\ dim <= beat
  BY <1>1, <1>2, <1>3 DEF Total, Rhythm
<1>5. CASE n = 0
  <2>1. day = 0 \/ dim = 0
    BY <1>1, <1>5 DEF Rhythm
  <2>2. MuteBound = 1 * beat + b + d
    BY <1>1, <1>2, <1>3, <1>5 DEF MuteBound
  <2> QED BY <1>2, <1>3, <1>4, <2>1, <2>2
<1>6. CASE n # 0
  <2>1. MuteBound = 2 * beat + b + d
    BY <1>1, <1>2, <1>3, <1>6 DEF MuteBound
  <2> QED BY <1>2, <1>3, <1>4, <2>1
<1> QED BY <1>5, <1>6

\* The stopwatch, while it runs.
LEMMA Elapses ==
  ASSUME Typed, pc # "session", NEW secs \in Nat, Passes(secs)
  PROVE  since' \in Nat /\ since' <= since + secs
  BY Quantities, Numbers DEF Passes, Upto

\* A session that starts after a round of no more than a visit is in time.
LEMMA SessionInTime ==
  ASSUME Typed, pc # "session", cfg' = cfg,
         NEW day \in Nat, NEW dim \in Nat, NEW v \in Nat, NEW tare \in {0, 1},
         Slept(day, dim, v, tare), NEW e \in {0, 1}, v + e <= HeldBack(cfg) + 2,
         NEW purpose, NEW weight, NEW kind, Session(purpose, weight, kind, e * VISIT_MAX)
  PROVE  Heard'
<1>1. PICK total \in Nat, spent \in Nat, s \in Nat :
        /\ total = Total(day, dim, v, tare) /\ spent = e * VISIT_MAX /\ s = since
        /\ Total(day, dim, v + e, tare) = total + spent
  <2>1. /\ Total(day, dim, v, tare) \in Nat /\ e * VISIT_MAX \in Nat
        /\ Total(day, dim, v + e, tare) = Total(day, dim, v, tare) + e * VISIT_MAX
    BY OneVisitMore, v + e \in Nat, tare \in Nat, e \in Nat
  <2> QED BY <2>1, Quantities
<1>2. PICK later \in Nat : later = since' /\ later <= s + spent
  BY <1>1, Elapses DEF Session
<1>3. total + spent <= MuteBound
  BY <1>1, TotalIsShort, v + e \in Nat DEF Slept
<1>4. MuteBound \in Int /\ MuteBound' = MuteBound
  <2>1. MuteBound \in Int
    BY MuteBoundType
  <2>2. turns' = turns
    BY DEF Session
  <2> QED BY <2>1, <2>2 DEF MuteBound
<1>5. s <= total
  BY <1>1 DEF Slept
<1>6. later <= MuteBound
  BY <1>2, <1>3, <1>4, <1>5
<1>7. pc' = "session"
  BY DEF Session
<1> QED BY <1>2, <1>4, <1>6, <1>7 DEF Heard, NeverMute

\* Rounds slept add up; a turn of the light or a first tare adds a long sleep.
LEMMA TotalAdds ==
  ASSUME Typed, NEW day \in Nat, NEW dim \in Nat, NEW v \in Nat, NEW tare \in Nat,
         NEW x \in Nat, NEW y \in Nat
  PROVE  Total(x, y, v, tare) + day + dim = Total(day, dim, v, tare) + x + y
<1>1. (1 + tare + turns) * LongestSleep(cfg) \in Nat
  BY Quantities, Monotone, 1 + tare + turns \in Nat
<1>2. PICK w \in Nat, c \in Nat :
        w = v * VISIT_MAX /\ c = (1 + tare + turns) * LongestSleep(cfg)
  <2>1. v * VISIT_MAX \in Nat
    BY Monotone, Numbers
  <2> QED BY <1>1, <2>1
<1>3. Total(x, y, v, tare) = x + y + w + c /\ Total(day, dim, v, tare) = day + dim + w + c
  BY <1>2 DEF Total
<1> QED BY <1>3

LEMMA TotalTurns ==
  ASSUME Typed, NEW day \in Nat, NEW dim \in Nat, NEW v \in Nat, NEW tare \in Nat,
         cfg' = cfg, turns' = turns + 1
  PROVE  Total(day, dim, v, tare)' = Total(day, dim, v, tare) + LongestSleep(cfg)
<1>1. PICK long \in Nat, n \in Nat : long = LongestSleep(cfg) /\ n = turns
  BY Quantities
<1>2. (1 + tare + (n + 1)) * long = (1 + tare + n) * long + long
  OBVIOUS
<1>3. (1 + tare + n) * long \in Nat
  BY Monotone, 1 + tare + n \in Nat
<1>4. PICK w \in Nat, a \in Nat : w = v * VISIT_MAX /\ a = (1 + tare + n) * long
  BY <1>3, Monotone, Numbers
<1>5. Total(day, dim, v, tare)' = day + dim + w + (a + long)
  BY <1>1, <1>2, <1>4 DEF Total
<1>6. Total(day, dim, v, tare) = day + dim + w + a
  BY <1>1, <1>4 DEF Total
<1> QED BY <1>1, <1>4, <1>5, <1>6

LEMMA TotalTares ==
  ASSUME Typed, NEW day \in Nat, NEW dim \in Nat, NEW v \in Nat
  PROVE  Total(day, dim, v, 1) = Total(day, dim, v, 0) + LongestSleep(cfg)
<1>1. PICK long \in Nat, n \in Nat : long = LongestSleep(cfg) /\ n = turns
  BY Quantities
<1>2. (1 + 1 + n) * long = (1 + 0 + n) * long + long
  OBVIOUS
<1>3. (1 + 0 + n) * long \in Nat
  BY Monotone, 1 + 0 + n \in Nat
<1>4. PICK w \in Nat, a \in Nat : w = v * VISIT_MAX /\ a = (1 + 0 + n) * long
  BY <1>3, Monotone, Numbers
<1>5. Total(day, dim, v, 1) = day + dim + w + (a + long)
  BY <1>1, <1>2, <1>4 DEF Total
<1>6. Total(day, dim, v, 0) = day + dim + w + a
  BY <1>1, <1>4 DEF Total
<1> QED BY <1>1, <1>4, <1>5, <1>6

\* What an idle sleep adds.
LEMMA SleepAdds ==
  ASSUME Typed, pc # "session", cfg' = cfg, NEW e \in {0, 1}, Sleep("idle", e * VISIT_MAX)
  PROVE  /\ night' \in BOOLEAN /\ since' \in Nat
         /\ since' <= since + e * VISIT_MAX + IdleSecs(cfg, night')
         /\ IdleSecs(cfg, night') <= LongestSleep(cfg)
         /\ night' = night => turns' = turns + 0
         /\ night' # night => turns' = turns + 1
<1>1. night' \in BOOLEAN
  BY ClockType DEF Sleep, Typed, RoundTypes
<1>2. /\ night' = night => turns' = turns + 0
      /\ night' # night => turns' = turns + 1
  BY DEF Sleep, ClockMoves
<1>3. IdleSecs(cfg, night') \in Nat /\ SleepSecs("idle", cfg, night') = IdleSecs(cfg, night')
  BY <1>1, Quantities, IdleIsPositive DEF SleepSecs
<1>4. e * VISIT_MAX \in Nat
  BY Numbers, Monotone
<1>5. PICK w \in Nat, l \in Nat : w = e * VISIT_MAX /\ l = IdleSecs(cfg, night')
  BY <1>3, <1>4
<1>6. Passes(w + l)
  BY <1>3, <1>5 DEF Sleep
<1>7. since' \in Nat /\ since' <= since + (w + l)
  BY <1>6, Elapses, w + l \in Nat
<1>8. IdleSecs(cfg, night') <= LongestSleep(cfg)
  BY <1>1, <1>3, Quantities, SleepsAreShort DEF Kinds
<1>9. since \in Nat
  BY Quantities
<1> QED BY <1>1, <1>2, <1>5, <1>7, <1>8, <1>9

\* A round that was counted.
LEMMA CountedSleep ==
  ASSUME Typed, pc # "session", cfg' = cfg, initialised' = initialised,
         NEW day \in Nat, NEW dim \in Nat, NEW v \in Nat, NEW tare \in {0, 1},
         Slept(day, dim, v, tare), NEW e \in {0, 1}, Sleep("idle", e * VISIT_MAX),
         idleWakes' = idleWakes + 1, (idleWakes + 1) * WakeSecs <= cfg.heartbeat
  PROVE  \E later \in Nat, lower \in Nat : Slept(later, lower, v + e, tare)'
<1>1. PICK k \in Nat, light \in Nat, shade \in Nat, beat \in Nat, long \in Nat, s \in Nat :
        /\ k = idleWakes /\ light = IdleSecs(cfg, FALSE) /\ shade = IdleSecs(cfg, TRUE)
        /\ beat = cfg.heartbeat /\ long = LongestSleep(cfg) /\ s = since
  BY Quantities
<1>2. PICK a \in Nat, b \in Nat :
        /\ a = k * light /\ a + light = (k + 1) * light
        /\ b = k * shade /\ b + shade = (k + 1) * shade
  OBVIOUS
<1>0. PICK u \in Nat : u = v + e
  OBVIOUS
<1>3. day <= beat /\ day <= a /\ dim <= beat /\ dim <= b
  BY <1>1, <1>2 DEF Slept, Rhythm
<1>4. PICK total \in Nat, w \in Nat :
        /\ total = Total(day, dim, v, tare) /\ w = e * VISIT_MAX /\ s <= total
        /\ Total(day, dim, u, tare) = total + w
  <2>1. /\ Total(day, dim, v, tare) \in Nat /\ e * VISIT_MAX \in Nat
        /\ Total(day, dim, u, tare) = Total(day, dim, v, tare) + e * VISIT_MAX
    BY <1>0, OneVisitMore, tare \in Nat, e \in Nat
  <2> QED BY <1>1, <2>1 DEF Slept
<1>5. PICK s2 \in Nat, i \in Nat :
        /\ s2 = since' /\ i = IdleSecs(cfg, night') /\ s2 <= s + w + i /\ i <= long
        /\ night' \in BOOLEAN
        /\ night' = night => turns' = turns + 0
        /\ night' # night => turns' = turns + 1
  <2>1. IdleSecs(cfg, night') \in Nat
    BY SleepAdds, Quantities, IdleIsPositive
  <2> QED BY <1>1, <1>4, <2>1, SleepAdds
<1>6. ASSUME NEW x \in Nat, NEW y \in Nat, x <= beat, y <= beat, x <= a + light, y <= b + shade,
             turns' = 0 => IF night' THEN x = 0 ELSE y = 0
      PROVE  Rhythm(x, y)'
  BY <1>1, <1>2, <1>6 DEF Rhythm, IdleSecs
<1>7. ASSUME NEW x \in Nat, NEW y \in Nat, Rhythm(x, y)', s2 <= Total(x, y, u, tare)'
      PROVE  Slept(x, y, u, tare)'
  BY <1>5, <1>7 DEF Slept
<1>8. tare \in Nat
  OBVIOUS
<1>9. CASE night' # night
  <2>1. Rhythm(day, dim)'
    BY <1>3, <1>5, <1>6, <1>9, Quantities
  <2>3. Total(day, dim, u, tare)' = total + w + long
    BY <1>1, <1>4, <1>5, <1>8, <1>9, TotalTurns
  <2>4. s2 <= total + w + long
    BY <1>4, <1>5
  <2> QED BY <1>0, <1>7, <2>1, <2>3, <2>4
<1>10. CASE night' = night /\ ~night
  <2>1. i = light /\ turns = turns + 0
    BY <1>1, <1>5, <1>10, Quantities DEF IdleSecs
  <2>2. day + light <= beat
    <3>1. WakeSecs = light
      BY <1>1, <1>10 DEF WakeSecs, IdleSecs
    <3>2. (k + 1) * light <= beat
      BY <1>1, <3>1
    <3> QED BY <1>2, <1>3, <3>2
  <2>3. turns' = 0 => dim = 0
    BY <1>5, <1>10, Quantities DEF Slept, Rhythm
  <2>4. Rhythm(day + light, dim)'
    BY <1>3, <1>6, <1>10, <2>2, <2>3
  <2>5. Total(day + light, dim, u, tare) = total + w + light
    <3>1. PICK x \in Nat : x = day + light
      OBVIOUS
    <3>2. Total(x, dim, u, tare) + day + dim = Total(day, dim, u, tare) + x + dim
      BY <1>8, TotalAdds
    <3>3. Total(x, dim, u, tare) \in Nat
      BY <1>8, OneVisitMore, u + 0 = u, 0 \in Nat
    <3> QED BY <1>4, <3>1, <3>2, <3>3
  <2>6. Total(day + light, dim, u, tare)' = total + w + light
    BY <1>5, <1>10, <2>1, <2>5 DEF Total
  <2>7. s2 <= total + w + light
    BY <1>4, <1>5, <2>1
  <2>8. Slept(day + light, dim, u, tare)'
    BY <1>7, <2>4, <2>6, <2>7
  <2> QED BY <1>0, <2>8
<1>11. CASE night' = night /\ night
  <2>1. i = shade
    BY <1>1, <1>5, <1>11 DEF IdleSecs
  <2>2. dim + shade <= beat
    <3>1. WakeSecs = shade
      BY <1>1, <1>11 DEF WakeSecs, IdleSecs
    <3>2. (k + 1) * shade <= beat
      BY <1>1, <3>1
    <3> QED BY <1>2, <1>3, <3>2
  <2>3. turns' = 0 => day = 0
    BY <1>5, <1>11, Quantities DEF Slept, Rhythm
  <2>4. Rhythm(day, dim + shade)'
    BY <1>3, <1>6, <1>11, <2>2, <2>3
  <2>5. turns = turns + 0
    BY Quantities
  <2>6. Total(day, dim + shade, u, tare) = total + w + shade
    <3>1. PICK y \in Nat : y = dim + shade
      OBVIOUS
    <3>2. PICK z \in Nat : z = Total(day, y, u, tare)
      BY <1>8, OneVisitMore, u + 0 = u, 0 \in Nat
    <3>3. Total(day, y, u, tare) + day + dim = Total(day, dim, u, tare) + day + y
      BY <1>8, TotalAdds
    <3>4. z = total + w + shade
      <4>1. PICK q \in Nat : q = total + w
        OBVIOUS
      <4>2. z + day + dim = q + day + y
        BY <1>4, <3>2, <3>3, <4>1
      <4> QED BY <3>1, <4>1, <4>2
    <3> QED BY <3>1, <3>2, <3>4
  <2>7. Total(day, dim + shade, u, tare)' = total + w + shade
    BY <1>5, <1>11, <2>5, <2>6 DEF Total
  <2>8. s2 <= total + w + shade
    BY <1>4, <1>5, <2>1
  <2>9. Slept(day, dim + shade, u, tare)'
    BY <1>7, <2>4, <2>7, <2>8
  <2> QED BY <1>0, <2>9
<1> QED BY <1>0, <1>5, <1>9, <1>10, <1>11, Quantities

\* The sleep after a first tare, which was not counted.
LEMMA TareSleep ==
  ASSUME Typed, pc # "session", cfg' = cfg, initialised',
         NEW day \in Nat, NEW dim \in Nat, NEW v \in Nat, Slept(day, dim, v, 0),
         Sleep("idle", 0), idleWakes' = idleWakes
  PROVE  Slept(day, dim, v, 1)'
<1>1. /\ night' \in BOOLEAN /\ since' \in Nat
      /\ since' <= since + 0 * VISIT_MAX + IdleSecs(cfg, night')
      /\ IdleSecs(cfg, night') <= LongestSleep(cfg)
      /\ night' = night => turns' = turns + 0
      /\ night' # night => turns' = turns + 1
  <2>1. 0 * VISIT_MAX = 0
    BY Numbers
  <2>2. Sleep("idle", 0 * VISIT_MAX)
    BY <2>1
  <2> QED BY <2>2, SleepAdds, 0 \in {0, 1}
<1>2. PICK s \in Nat, s2 \in Nat, i \in Nat, long \in Nat, total \in Nat, z \in Nat :
        /\ s = since /\ s2 = since' /\ i = IdleSecs(cfg, night') /\ long = LongestSleep(cfg)
        /\ total = Total(day, dim, v, 0) /\ z = Total(day, dim, v, 1) /\ z = total + long
        /\ s <= total
  <2>1. Total(day, dim, v, 0) \in Nat /\ Total(day, dim, v, 1) \in Nat
    BY OneVisitMore, v + 0 = v, 0 \in Nat, 1 \in Nat
  <2>2. IdleSecs(cfg, night') \in Nat
    BY <1>1, Quantities, IdleIsPositive
  <2>3. Total(day, dim, v, 1) = Total(day, dim, v, 0) + LongestSleep(cfg)
    BY TotalTares
  <2> QED BY <1>1, <2>1, <2>2, <2>3, Quantities DEF Slept
<1>3. s2 <= s + i /\ i <= long
  <2>1. 0 * VISIT_MAX = 0
    BY Numbers
  <2> QED BY <1>1, <1>2, <2>1
<1>4. s2 <= z
  BY <1>2, <1>3
<1>5. Rhythm(day, dim)'
  <2>1. turns' = 0 => turns = 0 /\ night' = night
    BY <1>1, Quantities
  <2> QED BY <2>1 DEF Slept, Rhythm, IdleSecs
<1>6. CASE night' = night
  <2>1. Total(day, dim, v, 1)' = z
    BY <1>1, <1>2, <1>6, Quantities DEF Total
  <2> QED BY <1>2, <1>4, <1>5, <2>1 DEF Slept
<1>7. CASE night' # night
  <2>1. Total(day, dim, v, 1)' = z + long
    BY <1>1, <1>2, <1>7, TotalTurns, 1 \in Nat
  <2>2. s2 <= z + long
    BY <1>2, <1>4
  <2> QED BY <1>2, <1>5, <2>1, <2>2 DEF Slept
<1> QED BY <1>6, <1>7

\* While the heartbeat is not due, the next sleep is a round that counts.
LEMMA TailHeard ==
  ASSUME Typed, Counters, pc # "session", cfg' = cfg, initialised' = initialised,
         NEW day \in Nat, NEW dim \in Nat, NEW v \in Nat, NEW tare \in {0, 1},
         Slept(day, dim, v, tare), NEW e \in {0, 1}, v + e <= HeldBack(cfg) + 2,
         NEW weight, Tail(weight, e * VISIT_MAX),
         pc' = "asleep" /\ idleWakes' = idleWakes + 1 => Visited(v + e)'
  PROVE  Heard'
<1>1. CASE Session("heartbeat", weight, "idle", e * VISIT_MAX)
  BY <1>1, SessionInTime
<1>2. CASE /\ ~(idleWakes + 1 >= HeartbeatWakes(cfg.heartbeat, WakeSecs))
           /\ idleWakes' = Up1(idleWakes) /\ Sleep("idle", e * VISIT_MAX)
  <2>1. (idleWakes + 1) * WakeSecs <= cfg.heartbeat /\ idleWakes < cfg.heartbeat
    BY <1>2, Quantities, NotDueYet
  <2>2. cfg.heartbeat <= MaxRounds
    BY Quantities DEF Counters
  <2>3. idleWakes' = idleWakes + 1
    BY <1>2, <2>1, <2>2, Quantities, Numbers DEF Up1
  <2>4. PICK later \in Nat, lower \in Nat : Slept(later, lower, v + e, tare)'
    BY <1>2, <2>1, <2>3, CountedSleep, SMTT(60)
  <2>5. pc' = "asleep"
    BY <1>2 DEF Sleep
  <2>6. v + e \in Nat
    OBVIOUS
  <2> QED BY <2>3, <2>4, <2>5, <2>6 DEF Heard
<1> QED BY <1>1, <1>2 DEF Tail

\* A round that went back to sleep with the tail came before its heartbeat.
LEMMA TailSleeps ==
  ASSUME NEW weight, NEW spent, Tail(weight, spent), pc' = "asleep"
  PROVE  ~(idleWakes + 1 >= HeartbeatWakes(cfg.heartbeat, WakeSecs))
  BY DEF Tail, Session

\* An edge is held back for HeldBack rounds and no more.
LEMMA EdgeIsHeard ==
  ASSUME Typed, ~PublishAllowed, ~(idleWakes + 1 >= HeartbeatWakes(cfg.heartbeat, WakeSecs))
  PROVE  idleWakes < HeldBack(cfg)
<1>1. PICK k \in Nat, held \in Nat : k = idleWakes /\ held = HeldBack(cfg)
  BY Quantities
<1>2. PICK p \in Nat, h \in Nat :
        p = RoundsToPublish(cfg, night) /\ h = RoundsToHeartbeat(cfg, night)
  BY Quantities, IdleIsPositive, RoundCountsType, Numbers
  DEF RoundsToPublish, RoundsToHeartbeat
<1>3. k < p /\ k + 1 < h
  BY <1>1, <1>2, Quantities
  DEF PublishAllowed, MayPublish, RoundsToPublish, RoundsToHeartbeat
<1>4. CASE cfg.active < STUCK_AFTER_SECS
  <2>1. p <= held
    BY <1>1, <1>2, <1>4, HeldBackIs, Quantities
  <2> QED BY <1>1, <1>3, <2>1
<1>5. CASE ~(cfg.active < STUCK_AFTER_SECS)
  <2>1. h <= held
    BY <1>1, <1>2, <1>5, HeldBackIs, Quantities
  <2> QED BY <1>1, <1>3, <2>1
<1> QED BY <1>4, <1>5

LEMMA PublishOrTailHeard ==
  ASSUME Typed, Counters, pc # "session", cfg' = cfg, initialised' = initialised,
         NEW day \in Nat, NEW dim \in Nat, NEW v \in Nat, NEW tare \in {0, 1},
         Slept(day, dim, v, tare), NEW e \in {0, 1}, v + e <= HeldBack(cfg) + 2,
         idleWakes < HeldBack(cfg) => v + e <= idleWakes + 1,
         NEW weight, NEW kind, PublishOrTail(weight, kind, e * VISIT_MAX)
  PROVE  Heard'
<1>1. CASE Session("presence", weight, kind, e * VISIT_MAX)
  BY <1>1, SessionInTime
<1>2. CASE ~PublishAllowed /\ Tail(weight, e * VISIT_MAX)
  <2>1. ASSUME pc' = "asleep", idleWakes' = idleWakes + 1
        PROVE  Visited(v + e)'
    <3>1. ~(idleWakes + 1 >= HeartbeatWakes(cfg.heartbeat, WakeSecs))
      BY <1>2, <2>1, TailSleeps
    <3>2. idleWakes < HeldBack(cfg)
      BY <1>2, <3>1, EdgeIsHeard
    <3>3. PICK k \in Nat, held \in Nat, u \in Nat :
            k = idleWakes /\ held = HeldBack(cfg) /\ u = v + e
      BY Quantities
    <3>4. k < held /\ u <= k + 1
      BY <3>2, <3>3
    <3>5. idleWakes' = k + 1 /\ HeldBack(cfg)' = held
      BY <2>1, <3>3
    <3>6. Upto(k + 1, held) = k + 1
      BY <3>4 DEF Upto
    <3> QED BY <3>3, <3>4, <3>5, <3>6 DEF Visited
  <2> QED BY <1>2, <2>1, TailHeard
<1> QED BY <1>1, <1>2 DEF PublishOrTail

\* Visits, counted up to the next round.
LEMMA TailKeepsVisits ==
  ASSUME Typed, NEW v \in Nat, Visited(v), cfg' = cfg, pc = "asleep", pc' = "asleep",
         idleWakes' \in {idleWakes, idleWakes + 1}, UNCHANGED <<present, presentRounds>>
  PROVE  Visited(v)'
<1>1. PICK k \in Nat, held \in Nat : k = idleWakes /\ held = HeldBack(cfg)
  BY Quantities
<1>2. idleWakes' \in {k, k + 1} /\ HeldBack(cfg)' = held
  BY <1>1
<1>3. Upto(k, held) \in Nat /\ Upto(k + 1, held) \in Nat /\ Upto(k, held) <= Upto(k + 1, held)
  BY DEF Upto
<1> QED BY <1>1, <1>2, <1>3 DEF Visited

\* A load that became the empty state: the next one is new.
LEMMA StuckKeepsVisits ==
  ASSUME Typed, NEW v \in Nat, Visited(v), cfg' = cfg, pc' = "asleep",
         idleWakes' = idleWakes + 1, presentRounds' = 0,
         ~(idleWakes + 1 >= HeartbeatWakes(cfg.heartbeat, WakeSecs)),
         Up1(presentRounds) >= RoundsFor(STUCK_AFTER_SECS, cfg.active)
  PROVE  Visited(v)'
<1>1. PICK k \in Nat, held \in Nat, p \in Nat :
        k = idleWakes /\ held = HeldBack(cfg) /\ p = presentRounds
  BY Quantities
<1>2. idleWakes' = k + 1 /\ HeldBack(cfg)' = held
  BY <1>1
<1>3. v <= Upto(k, held) + 2 /\ (p # 0 \/ k < held => v <= Upto(k, held) + 1)
  <2>1. Upto(k, held) \in Nat
    BY DEF Upto
  <2> QED BY <1>1, <2>1 DEF Visited
<1>4. CASE k < held
  <2>1. Upto(k, held) = k /\ Upto(k + 1, held) = k + 1
    BY <1>4 DEF Upto
  <2>2. v <= k + 1
    BY <1>3, <1>4, <2>1
  <2> QED BY <1>2, <2>1, <2>2 DEF Visited
<1>5. CASE ~(k < held)
  <2>1. cfg.active < STUCK_AFTER_SECS
    <3>1. SUFFICES ASSUME ~(cfg.active < STUCK_AFTER_SECS) PROVE FALSE
      OBVIOUS
    <3>2. PICK h \in Nat : h = RoundsToHeartbeat(cfg, night)
      BY Quantities, IdleIsPositive, RoundCountsType DEF RoundsToHeartbeat
    <3>3. h <= held
      BY <1>1, <3>1, <3>2, HeldBackIs, Quantities
    <3>4. k + 1 < h
      BY <1>1, <3>2, Quantities DEF RoundsToHeartbeat
    <3> QED BY <1>5, <3>3, <3>4
  <2>2. PICK r \in Nat : r = RoundsFor(STUCK_AFTER_SECS, cfg.active) /\ r >= 2
    BY <2>1, Quantities, ConfigNumbers, TwoRoundsAtLeast, RoundCountsType, BirdScaleAssumption
  <2>3. p # 0
    <3>1. Up1(p) <= p + 1
      BY Numbers DEF Up1
    <3>2. Up1(p) >= r /\ Up1(p) \in Nat
      BY <1>1, <2>2, Numbers DEF Up1
    <3> QED BY <2>2, <3>1, <3>2
  <2>4. Upto(k, held) = held /\ Upto(k + 1, held) = held
    BY <1>5 DEF Upto
  <2>5. v <= held + 1
    BY <1>3, <2>3, <2>4
  <2>6. k + 1 >= held
    BY <1>5
  <2> QED BY <1>2, <2>4, <2>5, <2>6 DEF Visited
<1> QED BY <1>4, <1>5

\* Nothing slept, nobody seen.
LEMMA NothingYet ==
  ASSUME NEW c \in Configs, NEW k \in Nat, NEW dark \in BOOLEAN
  PROVE  /\ 0 <= c.heartbeat /\ 0 <= k * IdleSecs(c, dark)
         /\ 0 * VISIT_MAX = 0 /\ 0 <= Upto(k, HeldBack(c))
         /\ \A n \in Nat : LongestSleep(c) <= 0 + 0 + 0 + (1 + 0 + n) * LongestSleep(c)
<1>1. IdleSecs(c, dark) \in Nat /\ c.heartbeat \in Nat /\ HeldBack(c) \in Nat
  BY IdleIsPositive, ConfigNumbers, HeldBackIs
<1>2. k * IdleSecs(c, dark) \in Nat
  BY <1>1, Monotone
<1>3. PICK long \in Nat : long = LongestSleep(c)
  BY SleepsAreShort
<1>4. ASSUME NEW n \in Nat PROVE long <= 0 + 0 + 0 + (1 + 0 + n) * long
  <2>1. 1 * long <= (1 + 0 + n) * long /\ (1 + 0 + n) * long \in Nat
    BY Monotone, 1 + 0 + n \in Nat, 1 <= 1 + 0 + n
  <2> QED BY <2>1
<1> QED BY <1>1, <1>2, <1>3, <1>4, Numbers DEF Upto

\* Before the first session: RTC RAM with any content, or the gap on the clock.
LEMMA HeardInit == ASSUME Scale, Init, Typed PROVE Heard
<1>1. since <= PARK_INTERVAL
  BY Numbers DEF Init, Scale
<1>2. since <= LongestSleep(cfg)
  BY <1>1, SleepsAreShort, Quantities, Numbers
<1>3. turns = 0 /\ pc = "asleep"
  BY DEF Init
<1>4. Rhythm(0, 0)
  BY Quantities, NothingYet DEF Rhythm
<1>5. since <= Total(0, 0, 0, 0)
  <2>1. PICK long \in Nat, s \in Nat, n \in Nat :
          long = LongestSleep(cfg) /\ s = since /\ s <= long /\ n = turns
    BY <1>2, Quantities
  <2>2. PICK t \in Nat : t = (1 + 0 + n) * long /\ long <= t
    BY Monotone, 1 + 0 + n \in Nat, 1 <= 1 + 0 + n, 1 * long = long
  <2>3. Total(0, 0, 0, 0) = 0 + 0 + 0 + t
    BY <2>1, <2>2, Numbers DEF Total
  <2> QED BY <2>1, <2>2, <2>3
<1>6. Slept(0, 0, 0, 0)
  BY <1>4, <1>5 DEF Slept
<1>7. Visited(0)
  BY Quantities, NothingYet DEF Visited, Upto
<1> QED BY <1>3, <1>6, <1>7 DEF Heard

\* After a session everything starts anew.
LEMMA Anew ==
  ASSUME Typed', pc' = "asleep", since' <= LongestSleep(cfg')
  PROVE  Heard'
<1>1. PICK c \in Configs, k \in Nat, n \in Nat, s \in Nat, dark \in BOOLEAN :
        c = cfg' /\ k = idleWakes' /\ n = turns' /\ s = since' /\ dark = night'
  BY Numbers DEF Typed, RoundTypes, MemoryTypes, Rounds
<1>2. Rhythm(0, 0)'
  <2>1. /\ 0 <= c.heartbeat
        /\ 0 <= k * IdleSecs(c, FALSE) /\ 0 <= k * IdleSecs(c, TRUE)
    BY NothingYet
  <2> QED BY <1>1, <2>1 DEF Rhythm, IdleSecs
<1>3. (since <= Total(0, 0, 0, 0))'
  <2>1. PICK long \in Nat : long = LongestSleep(c) /\ s <= long
    BY <1>1, SleepsAreShort
  <2>2. PICK t \in Nat : t = (1 + 0 + n) * long /\ long <= t
    BY Monotone, 1 + 0 + n \in Nat, 1 <= 1 + 0 + n, 1 * long = long
  <2>3. Total(0, 0, 0, 0)' = 0 + 0 + 0 + t
    BY <1>1, <2>1, <2>2, Numbers DEF Total, LongestSleep
  <2> QED BY <1>1, <2>1, <2>2, <2>3
<1>4. Slept(0, 0, 0, 0)'
  BY <1>2, <1>3 DEF Slept
<1>5. Visited(0)'
  <2>1. 0 <= Upto(k, HeldBack(c)) /\ Upto(k, HeldBack(c)) \in Nat
    BY NothingYet, HeldBackIs DEF Upto
  <2>2. Upto(idleWakes, HeldBack(cfg))' = Upto(k, HeldBack(c))
    BY <1>1
  <2> QED BY <2>1, <2>2 DEF Visited
<1> QED BY <1>4, <1>5 DEF Heard

\* A visit that a restart cut short.
LEMMA CutShort ==
  ASSUME Typed, pc = "visit", pc' = "asleep", present',
         UNCHANGED <<cfg, initialised, presentRounds, idleWakes, night, turns>>,
         NEW day \in Nat, NEW dim \in Nat, NEW v \in Nat, NEW tare \in {0, 1},
         Slept(day, dim, v, tare), Visited(v),
         NEW e \in {0, 1}, Passes(e * VISIT_MAX)
  PROVE  Heard'
<1>1. PICK u \in Nat : u = v + e
  OBVIOUS
<1>2. /\ Total(day, dim, v, tare) \in Nat /\ e * VISIT_MAX \in Nat
      /\ Total(day, dim, u, tare) = Total(day, dim, v, tare) + e * VISIT_MAX
  BY <1>1, OneVisitMore, tare \in Nat, e \in Nat
<1>3. since' \in Nat /\ since' <= since + e * VISIT_MAX
  BY <1>2, Elapses
<1>4. since' <= Total(day, dim, u, tare)
  BY <1>2, <1>3, Quantities DEF Slept
<1>5. Total(day, dim, u, tare)' = Total(day, dim, u, tare)
  BY DEF Total
<1>6. Slept(day, dim, u, tare)'
  BY <1>4, <1>5 DEF Slept, Rhythm
<1>7. Visited(u)'
  <2>1. PICK k \in Nat, held \in Nat, p \in Nat :
          k = idleWakes /\ held = HeldBack(cfg) /\ p = presentRounds
    BY Quantities
  <2>2. PICK c \in Nat : c = Upto(k, held)
    BY DEF Upto
  <2>3. v <= c + (IF k >= held /\ p = 0 THEN 1 ELSE 0)
    BY <2>1, <2>2 DEF Visited
  <2>4. u <= c + 1 + (IF k >= held /\ p = 0 THEN 1 ELSE 0)
    BY <1>1, <2>3
  <2> QED BY <2>1, <2>2, <2>4 DEF Visited
<1> QED BY <1>6, <1>7 DEF Heard

\* What it is about has not moved.
LEMMA SameHeard ==
  ASSUME Heard,
         UNCHANGED <<pc, cfg, initialised, present, presentRounds, idleWakes, night, since, turns>>
  PROVE  Heard'
<1>1. pc = "session" => Heard'
  BY DEF Heard, NeverMute, MuteBound
<1>2. ASSUME NEW day \in Nat, NEW dim \in Nat, NEW v \in Nat, NEW tare \in {0, 1},
             Slept(day, dim, v, tare) /\ Visited(v)
      PROVE  Slept(day, dim, v, tare)' /\ Visited(v)'
  BY <1>2 DEF Slept, Rhythm, Total, Visited, IdleSecs
<1>3. pc # "session" => Heard'
  <2>1. SUFFICES ASSUME pc # "session" PROVE Heard'
    OBVIOUS
  <2>2. PICK day \in Nat, dim \in Nat, v \in Nat, tare \in {0, 1} :
          Slept(day, dim, v, tare) /\ Visited(v)
    BY <2>1 DEF Heard
  <2>3. Slept(day, dim, v, tare)' /\ Visited(v)'
    BY <1>2, <2>2
  <2>4. pc' # "session" /\ (pc' = "visit" => present')
    BY <2>1 DEF Heard
  <2> QED BY <2>3, <2>4 DEF Heard
<1> QED BY <1>1, <1>3

\* One step more of it.
LEMMA HeardSteps ==
  ASSUME Scale, Counters, Typed, Typed', Heard, Next
  PROVE  Heard'
<1>1. ASSUME pc # "session"
      PROVE  \E day \in Nat, dim \in Nat, v \in Nat, tare \in {0, 1} :
               Slept(day, dim, v, tare) /\ Visited(v)
  BY <1>1 DEF Heard
<1>2. \A n \in Nat : n + 0 = n /\ 0 \in {0, 1} /\ 1 \in {0, 1}
  OBVIOUS
<1>3. 0 * VISIT_MAX = 0 /\ 1 * VISIT_MAX = VISIT_MAX
  BY Numbers
\* A round of a node that was asleep: what a tail, or an edge, makes of it.
<1>4. ASSUME pc = "asleep", cfg' = cfg, initialised' = initialised,
             UNCHANGED <<present, presentRounds>>, NEW weight, Tail(weight, 0)
      PROVE  Heard'
  <2>1. PICK day \in Nat, dim \in Nat, v \in Nat, tare \in {0, 1} :
          Slept(day, dim, v, tare) /\ Visited(v)
    BY <1>1, <1>4
  <2>2. v + 0 <= HeldBack(cfg) + 2
    BY <2>1, AtMostTwoMore
  <2>3. pc' = "asleep" /\ idleWakes' = idleWakes + 1 => Visited(v + 0)'
    BY <1>2, <1>4, <2>1, TailKeepsVisits
  <2>4. Tail(weight, 0 * VISIT_MAX)
    BY <1>3, <1>4
  <2> QED BY <1>2, <1>4, <2>1, <2>2, <2>3, <2>4, TailHeard
<1>5. ASSUME pc = "asleep", cfg' = cfg, initialised' = initialised, present,
             NEW weight, NEW kind, PublishOrTail(weight, kind, 0)
      PROVE  Heard'
  <2>1. PICK day \in Nat, dim \in Nat, v \in Nat, tare \in {0, 1} :
          Slept(day, dim, v, tare) /\ Visited(v)
    BY <1>1, <1>5
  <2>2. v + 0 <= HeldBack(cfg) + 2
    BY <2>1, AtMostTwoMore
  <2>3. idleWakes < HeldBack(cfg) => v + 0 <= idleWakes + 1
    BY <2>1, Quantities DEF Visited, Upto
  <2>4. PublishOrTail(weight, kind, 0 * VISIT_MAX)
    BY <1>3, <1>5
  <2> QED BY <1>2, <1>5, <2>1, <2>2, <2>3, <2>4, PublishOrTailHeard
<1>6. CASE ParkRound
  <2>1. pc = "asleep" /\ cfg' = cfg /\ Session("park", NoWeight, "park", 0 * VISIT_MAX)
    BY <1>3, <1>6 DEF ParkRound, Wakes
  <2>2. PICK day \in Nat, dim \in Nat, v \in Nat, tare \in {0, 1} :
          Slept(day, dim, v, tare) /\ Visited(v)
    BY <1>1, <2>1
  <2>3. v + 0 <= HeldBack(cfg) + 2
    BY <2>2, AtMostTwoMore
  <2> QED BY <1>2, <2>1, <2>2, <2>3, SessionInTime
<1>7. CASE SilentRound
  BY <1>4, <1>7 DEF SilentRound, Polls, Wakes
<1>8. CASE FirstTare
  <2>1. /\ pc = "asleep" /\ pc' = "asleep" /\ cfg' = cfg /\ ~initialised /\ initialised'
        /\ idleWakes' = idleWakes /\ UNCHANGED <<present, presentRounds>> /\ Sleep("idle", 0)
    BY <1>8 DEF FirstTare, Polls, Wakes, Sleep
  <2>2. PICK day \in Nat, dim \in Nat, v \in Nat, tare \in {0, 1} :
          Slept(day, dim, v, tare) /\ Visited(v)
    BY <1>1, <2>1
  <2>3. tare = 0
    BY <2>1, <2>2 DEF Slept
  <2>4. Slept(day, dim, v, 1)'
    BY <2>1, <2>2, <2>3, TareSleep
  <2>5. Visited(v)'
    BY <2>1, <2>2, TailKeepsVisits
  <2> QED BY <1>2, <2>1, <2>4, <2>5 DEF Heard
<1>9. CASE Arrives
  <2>1. /\ pc = "asleep" /\ pc' = "visit" /\ ~present /\ present'
        /\ UNCHANGED <<cfg, initialised, presentRounds, idleWakes, night, since, turns>>
    BY <1>9 DEF Arrives, Judges, Polls, Wakes, Verdict, Decide
  <2>2. PICK day \in Nat, dim \in Nat, v \in Nat, tare \in {0, 1} :
          Slept(day, dim, v, tare) /\ Visited(v)
    BY <1>1, <2>1
  <2>3. Slept(day, dim, v, tare)'
    BY <2>1, <2>2 DEF Slept, Rhythm, Total
  <2>4. Visited(v)'
    BY <2>1, <2>2 DEF Visited
  <2> QED BY <2>1, <2>3, <2>4 DEF Heard
<1>10. CASE Stays
  <2>1. pc = "asleep" /\ cfg' = cfg /\ initialised' = initialised /\ present
    BY <1>10 DEF Stays, Judges, Polls, Wakes, Verdict, Decide
  <2>2. CASE /\ Up1(presentRounds) >= RoundsFor(STUCK_AFTER_SECS, cfg.active)
             /\ presentRounds' = 0 /\ Tail(load, 0)
    <3>1. PICK day \in Nat, dim \in Nat, v \in Nat, tare \in {0, 1} :
            Slept(day, dim, v, tare) /\ Visited(v)
      BY <1>1, <2>1
    <3>2. v + 0 <= HeldBack(cfg) + 2
      BY <3>1, AtMostTwoMore
    <3>3. pc' = "asleep" /\ idleWakes' = idleWakes + 1 => Visited(v + 0)'
      BY <1>2, <2>1, <2>2, <3>1, TailSleeps, StuckKeepsVisits
    <3>4. Tail(load, 0 * VISIT_MAX)
      BY <1>3, <2>2
    <3> QED BY <1>2, <2>1, <3>1, <3>2, <3>3, <3>4, TailHeard
  <2>3. CASE PublishOrTail(load, "active", 0)
    BY <1>5, <2>1, <2>3
  <2> QED BY <1>10, <2>2, <2>3 DEF Stays
<1>11. CASE Departs
  <2>1. pc = "asleep" /\ cfg' = cfg /\ initialised' = initialised /\ present
    BY <1>11 DEF Departs, Judges, Polls, Wakes, Verdict, Decide
  <2> QED BY <1>5, <1>11, <2>1 DEF Departs
<1>12. CASE RestsQuiet \/ RestsUnexplained
  BY <1>4, <1>12 DEF RestsQuiet, RestsUnexplained, Judges, Polls, Wakes
<1>13. CASE VisitRunsOut \/ VisitorLeaves \/ VisitLost
  <2>1. /\ pc = "visit" /\ cfg' = cfg /\ initialised' = initialised
        /\ \E kind \in {"active", "day"}, spent \in {0, VISIT_MAX}, weight \in {load, measured} :
             PublishOrTail(weight, kind, spent)
    BY <1>13 DEF VisitRunsOut, VisitorLeaves, VisitLost, VisitEnds
  <2>2. PICK day \in Nat, dim \in Nat, v \in Nat, tare \in {0, 1} :
          Slept(day, dim, v, tare) /\ Visited(v)
    BY <1>1, <2>1
  <2>3. PICK e \in {0, 1}, kind \in {"active", "day"}, weight \in {load, measured} :
          PublishOrTail(weight, kind, e * VISIT_MAX)
    <3>1. PICK kind \in {"active", "day"}, spent \in {0, VISIT_MAX}, weight \in {load, measured} :
            PublishOrTail(weight, kind, spent)
      BY <2>1
    <3>2. PICK e \in {0, 1} : spent = e * VISIT_MAX
      BY <1>3, <1>2
    <3> QED BY <3>1, <3>2
  <2>4. v + e <= HeldBack(cfg) + 2
    BY <2>1, <2>2, AtMostTwoMore, Quantities
  <2>5. idleWakes < HeldBack(cfg) => v + e <= idleWakes + 1
    BY <2>1, <2>2, Quantities DEF Visited, Upto
  <2> QED BY <2>1, <2>2, <2>3, <2>4, <2>5, PublishOrTailHeard
<1>14. CASE PublishFails \/ PublishOk \/ PublishAndRetare
  <2>1. pc = "session" /\ SessionOver
    BY <1>14 DEF PublishFails, PublishOk, PublishAndRetare
  <2>2. next \in Kinds /\ pc' = "asleep" /\ cfg' \in Configs /\ night' \in BOOLEAN
    BY <2>1, Numbers DEF SessionOver, Sleep, Typed, RoundTypes, MemoryTypes
  <2>3. PICK secs \in Nat : secs = SleepSecs(next, cfg', night') /\ secs <= LongestSleep(cfg')
    BY <2>2, SleepsAreShort, SleepIsNatural DEF Kinds
  <2>4. Passes(0 + secs)
    BY <2>1, <2>3 DEF SessionOver, Sleep
  <2>5. since' <= secs /\ since' \in Nat
    BY <2>1, <2>4, Numbers DEF Passes, Upto
  <2>6. since' <= LongestSleep(cfg')
    BY <2>2, <2>3, <2>5, SleepsAreShort
  <2> QED BY <2>2, <2>6, Anew
<1>15. CASE Restart
  <2>1. CASE pc = "session"
    <3>1. pc' = "asleep" /\ cfg' \in Configs /\ Passes(0)
      BY <1>15, <2>1 DEF Restart, Typed, MemoryTypes
    <3>2. since' <= 0 /\ since' \in Nat
      BY <2>1, <3>1, Numbers DEF Passes, Upto
    <3>3. since' <= LongestSleep(cfg')
      BY <3>1, <3>2, SleepsAreShort
    <3> QED BY <3>1, <3>3, Anew
  <2>2. CASE pc = "visit"
    <3>1. /\ pc' = "asleep" /\ present /\ present'
          /\ UNCHANGED <<cfg, initialised, presentRounds, idleWakes, night, turns>>
      BY <1>15, <2>2 DEF Restart, Heard, world, rtc
    <3>2. PICK e \in {0, 1} : Passes(e * VISIT_MAX)
      BY <1>3, <1>15, <2>2 DEF Restart
    <3>3. PICK day \in Nat, dim \in Nat, v \in Nat, tare \in {0, 1} :
            Slept(day, dim, v, tare) /\ Visited(v)
      BY <1>1, <2>2
    <3> QED BY <2>2, <3>1, <3>2, <3>3, CutShort
  <2> QED BY <1>15, <2>1, <2>2 DEF Restart
<1>16. CASE LoadChanges \/ CellChanges
  <2>1. UNCHANGED <<pc, cfg, initialised, present, presentRounds, idleWakes, night, since, turns>>
    BY <1>16 DEF LoadChanges, CellChanges, rtc, round, history
  <2> QED BY <2>1, SameHeard
<1>17. CASE LightChanges
  <2>1. /\ pc = "asleep" /\ turns' = turns + 1
        /\ UNCHANGED <<pc, cfg, initialised, present, presentRounds, idleWakes, since>>
    BY <1>17 DEF LightChanges, rtc, round
  <2>2. PICK day \in Nat, dim \in Nat, v \in Nat, tare \in {0, 1} :
          Slept(day, dim, v, tare) /\ Visited(v)
    BY <1>1, <2>1
  <2>3. Total(day, dim, v, tare)' = Total(day, dim, v, tare) + LongestSleep(cfg)
    BY <2>1, TotalTurns, tare \in Nat
  <2>4. Total(day, dim, v, tare) \in Nat
    BY OneVisitMore, v + 0 = v, 0 \in Nat, tare \in Nat
  <2>5. turns' # 0
    BY <2>1, Quantities
  <2>6. Slept(day, dim, v, tare)'
    BY <2>1, <2>2, <2>3, <2>4, <2>5, Quantities DEF Slept, Rhythm, IdleSecs
  <2>7. Visited(v)'
    BY <2>1, <2>2 DEF Visited
  <2> QED BY <2>1, <2>6, <2>7 DEF Heard
<1> QED
  BY <1>6, <1>7, <1>8, <1>9, <1>10, <1>11, <1>12, <1>13, <1>14, <1>15, <1>16, <1>17
  DEF Next, Program, Weighing

-----------------------------------------------------------------------------
IInv == Typed /\ Rated /\ Landing

LEMMA Invariant == ASSUME Scale PROVE Spec => []IInv
<1>1. Init => IInv
  BY TypeInit, InitRated, InitLanding DEF IInv
<1>2. IInv /\ [Next]_vars => IInv'
  <2>1. IInv /\ UNCHANGED vars => IInv'
    BY DEF IInv, Typed, RoundTypes, MemoryTypes, Rated, Counted, WakeSecs, Excused, Landing,
           vars, world, rtc, round, history
  <2> QED BY <2>1, TypeStep, StepRated, StepLanding DEF IInv
<1> QED BY <1>1, <1>2, PTL DEF Spec

\* Every variable keeps its type; the baseline stays between the lightest and
\* the heaviest load there was, drift and all (src/presence.rs decide).
THEOREM TypeCorrect == ASSUME Scale PROVE Spec => []TypeOK
<1>1. IInv => TypeOK
  BY TypedIsTypeOK DEF IInv
<1> QED BY Invariant, <1>1, PTL

\* Presence publishes keep MIN_PUBLISH_GAP_SECS between them and any session
\* before, for every setting and from every content of RTC RAM
\* (src/main.rs presence_publish_allowed).
THEOREM RateLimitHolds == ASSUME Scale PROVE Spec => []RateLimited
<1>1. IInv => RateLimited
  BY DEF IInv, Rated, RateLimited
<1> QED BY Invariant, <1>1, PTL

\* No landing is counted twice (src/main.rs run_battery, state::count_visit).
THEOREM LandingCountsOnce == ASSUME Scale PROVE Spec => []CountsOnce
<1>1. IInv => CountsOnce
  BY DEF IInv, Landing, CountsOnce
<1> QED BY Invariant, <1>1, PTL

LEMMA HeardInvariant == ASSUME Scale, Counters PROVE Spec => [](IInv /\ Heard)
<1>1. Init /\ IInv => Heard
  BY HeardInit DEF IInv
<1>2. IInv /\ IInv' /\ Heard /\ [Next]_vars => Heard'
  <2>1. ASSUME Heard, UNCHANGED vars PROVE Heard'
    <3>1. UNCHANGED <<pc, cfg, initialised, present, presentRounds, idleWakes, night, since, turns>>
      BY <2>1 DEF vars, world, rtc, round, history
    <3> QED BY <2>1, <3>1, SameHeard
  <2> QED BY <2>1, HeardSteps DEF IInv
<1> QED BY Invariant, <1>1, <1>2, PTL DEF Spec

\* Whatever the verdicts are, whatever RTC RAM held and however often a visit is
\* cut short, sessions follow each other within a heartbeat of the settings in
\* force, or two if the light changed, the visits the radio is held back for and
\* a few longest sleeps (src/main.rs run_battery: "Every round that did not
\* publish arrives here").
THEOREM NeverMuteHolds == ASSUME Scale, Counters PROVE Spec => []NeverMute
<1>1. IInv /\ Heard => NeverMute
  <2> SUFFICES ASSUME Typed, Heard, pc # "session" PROVE NeverMute
    BY DEF IInv, Heard
  <2>1. PICK day \in Nat, dim \in Nat, v \in Nat, tare \in {0, 1} :
          Slept(day, dim, v, tare) /\ Visited(v)
    BY DEF Heard
  <2>2. Total(day, dim, v, tare) <= MuteBound
    BY <2>1, AtMostTwoMore, TotalIsShort DEF Slept
  <2>3. Total(day, dim, v, tare) \in Nat
    BY OneVisitMore, v + 0 = v, 0 \in Nat, tare \in Nat
  <2> QED BY <2>1, <2>2, <2>3, MuteBoundType, Quantities DEF Slept, NeverMute
<1> QED BY HeardInvariant, <1>1, PTL
=============================================================================
