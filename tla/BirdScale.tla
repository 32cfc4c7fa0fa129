----------------------------- MODULE BirdScale ------------------------------
(***************************************************************************)
(* The sleeping node with a load cell: src/main.rs run_battery, which      *)
(* boots every few seconds, weighs, and decides whether this round may use *)
(* the radio.  What it knows of earlier rounds is in RTC RAM, which        *)
(* survives deep sleep and restarts and which nothing clears when power is *)
(* applied.                                                                *)
(*                                                                         *)
(* A round that weighs and goes back to sleep is one action.  A visit and  *)
(* a session with the broker are steps of their own, because the load can  *)
(* change and the node can restart while they last.  Seconds are counted   *)
(* in units of the MC module; a session takes none.                        *)
(*                                                                         *)
(* A definition marked "slip" is a wrong version of the one below it, kept to *)
(* show that the properties notice it; Next never uses it.                 *)
(***************************************************************************)
EXTENDS Presence

CONSTANTS
  Loads,           \* the weights on the cell, in ticks
  Configs,         \* what Home Assistant may have set
  Cells,           \* what the battery may read
  Nights,          \* {FALSE}, or BOOLEAN where there is a dusk
  NoWeight,        \* a round that could not weigh
  MIN_PUBLISH_GAP_SECS, STUCK_AFTER_SECS, UNEXPLAINED_ADOPT_AFTER_SECS,
  VISIT_MAX, PARK_INTERVAL,
  AnyRtc,          \* may RTC RAM start with anything, or only with zeros
  Crashes,         \* may a visit or a session be cut short
  MaxRounds,       \* bound: where the round counters (u32 in the code) stop
  MaxSince,        \* bound: where the stopwatch below stops
  MaxTurns         \* bound: how often the light changes between two sessions

ASSUME BirdScaleAssumption ==
  /\ Loads \subseteq Int /\ 0 \in Loads /\ NoWeight \notin Int
  /\ \A c \in Configs :
       /\ DOMAIN c = {"idle", "night", "active", "heartbeat", "threshold"}
       /\ c.idle \in Nat \ {0} /\ c.night \in Nat /\ c.active \in Nat \ {0}
       /\ c.heartbeat \in Nat /\ c.threshold \in Nat \ {0}
  /\ Cells \subseteq {"good", "low", "flat", "odd", "unread"}
  /\ Nights \subseteq BOOLEAN /\ FALSE \in Nights
  /\ MIN_PUBLISH_GAP_SECS \in Nat /\ STUCK_AFTER_SECS \in Nat
  /\ UNEXPLAINED_ADOPT_AFTER_SECS \in Nat
  /\ VISIT_MAX \in Nat /\ PARK_INTERVAL \in Nat
  /\ AnyRtc \in BOOLEAN /\ Crashes \in BOOLEAN
  /\ MaxRounds \in Nat /\ MaxSince \in Nat /\ MaxTurns \in Nat

VARIABLES
  load, cell, night, \* the world: weight, battery, and what the clock says
  cfg,               \* the configuration in flash
  initialised, baseline, present,          \* RTC RAM
  presentRounds, unexplained, idleWakes, parked,
  pc,                \* asleep, visit, session
  why,               \* what the session is for: presence, heartbeat, park
  measured,          \* the weight this round will publish
  next,              \* the sleep that follows: idle, day, active, park
  told,              \* the broker: the retained weight
  since,             \* history: seconds since the last session
  turns,             \* history: how often the light changed since then
  cut,               \* history: that session was cut short, or there was none
  fresh,             \* history: a load landed that has not been counted, or the threshold fell
  recount            \* history: a landing was counted twice

world == <<load, cell, night>>
rtc == <<initialised, baseline, present, presentRounds, unexplained, idleWakes, parked>>
round == <<pc, why, measured, next>>
history == <<since, turns, cut, fresh, recount>>
vars == <<world, cfg, rtc, round, told, history>>

Rounds == 0..MaxRounds
Up1(n) == IF n < MaxRounds THEN n + 1 ELSE n
Upto(n, max) == IF n < max THEN n ELSE max

TypeOK ==
  /\ load \in Loads /\ cell \in Cells /\ night \in Nights
  /\ cfg \in Configs
  /\ initialised \in BOOLEAN /\ present \in BOOLEAN
  /\ baseline \in Int
  /\ (\E l \in Loads : l <= baseline) /\ (\E l \in Loads : baseline <= l)
  /\ presentRounds \in Rounds /\ unexplained \in Rounds /\ idleWakes \in Rounds
  /\ parked \in BOOLEAN
  /\ pc \in {"asleep", "visit", "session"}
  /\ why \in {"none", "presence", "heartbeat", "park"}
  /\ measured \in Loads \cup {NoWeight}
  /\ next \in {"none", "idle", "day", "active", "park"}
  /\ told \in Loads \cup {NoWeight}
  /\ since \in 0..MaxSince /\ turns \in 0..MaxTurns /\ cut \in BOOLEAN
  /\ fresh \in BOOLEAN /\ recount \in BOOLEAN

\* RTC RAM may hold an earlier run of this program, or nothing that means
\* anything.  A power cycle is a behaviour that starts here again.
Init ==
  /\ load \in Loads /\ cell \in Cells /\ night = FALSE
  /\ cfg \in Configs
  /\ \/ /\ AnyRtc
        /\ initialised \in BOOLEAN /\ baseline \in Loads /\ present \in BOOLEAN
        /\ presentRounds \in {0, MaxRounds} /\ unexplained \in {0, MaxRounds}
        /\ idleWakes \in {0, MaxRounds} /\ parked \in BOOLEAN
        /\ since = 0 /\ cut = TRUE
     \/ /\ ~AnyRtc
        /\ initialised = FALSE /\ baseline = 0 /\ present = FALSE
        /\ presentRounds = 0 /\ unexplained = 0 /\ idleWakes = 0 /\ parked = FALSE
        /\ since = MIN_PUBLISH_GAP_SECS /\ cut = FALSE
  /\ pc = "asleep" /\ why = "none" /\ measured = NoWeight /\ next = "none"
  /\ told = NoWeight
  /\ turns = 0 /\ fresh = TRUE /\ recount = FALSE

-----------------------------------------------------------------------------
(* Cadence. *)

IdleSecs(c, dark) == IF dark /\ c.night > 0 THEN c.night ELSE c.idle
WakeSecs == IdleSecs(cfg, night)

SleepSecs(kind, c, dark) ==
  CASE kind = "idle"   -> IdleSecs(c, dark)
    [] kind = "day"    -> c.idle
    [] kind = "active" -> c.active
    [] kind = "park"   -> PARK_INTERVAL

\* The stopwatch of the last session starts when that session ends.
Passes(secs) ==
  since' = Upto((IF pc = "session" THEN 0 ELSE since) + secs, MaxSince)

\* sleep_idle reads the clock again, which may have passed dusk meanwhile.
ClockMoves ==
  /\ night' \in Nights
  /\ turns' = (IF pc = "session" THEN 0 ELSE turns) + (IF night' = night THEN 0 ELSE 1)
  /\ turns' <= MaxTurns

\* Deep sleep: `spent` is what the round itself took.
Sleep(kind, spent) ==
  /\ pc' = "asleep" /\ why' = "none" /\ measured' = NoWeight /\ next' = "none"
  /\ ClockMoves
  /\ Passes(spent + SleepSecs(kind, cfg', night'))
  /\ cut' = (cut /\ pc # "session")

\* The radio comes up, `spent` into the round.
Session(purpose, weight, kind, spent) ==
  /\ pc' = "session" /\ why' = purpose /\ measured' = weight /\ next' = kind
  /\ Passes(spent)
  /\ UNCHANGED <<night, turns, cut>>

\* slip: the limit is counted in rounds of the night length at any hour
PublishAllowedNight ==
  MayPublish(idleWakes, RoundsFor(MIN_PUBLISH_GAP_SECS, IdleSecs(cfg, TRUE)))
PublishAllowed == MayPublish(idleWakes, RoundsFor(MIN_PUBLISH_GAP_SECS, WakeSecs))

\* slip: a round that did not publish is not counted
TailUncounted(weight, spent) ==
  IF idleWakes + 1 >= HeartbeatWakes(cfg.heartbeat, WakeSecs)
  THEN /\ idleWakes' = 0
       /\ Session("heartbeat", weight, "idle", spent)
  ELSE /\ UNCHANGED idleWakes
       /\ Sleep("idle", spent)

\* Every round that did not publish ends here: a heartbeat when it is due.
Tail(weight, spent) ==
  IF idleWakes + 1 >= HeartbeatWakes(cfg.heartbeat, WakeSecs)
  THEN /\ idleWakes' = 0
       /\ Session("heartbeat", weight, "idle", spent)
  ELSE /\ idleWakes' = Up1(idleWakes)
       /\ Sleep("idle", spent)

\* A presence edge that may use the radio, or else the tail.
PublishOrTail(weight, kind, spent) ==
  IF PublishAllowed
  THEN /\ Session("presence", weight, kind, spent)
       /\ UNCHANGED idleWakes
  ELSE Tail(weight, spent)

-----------------------------------------------------------------------------
(* A wake-up, from the undervoltage check to the verdict on the load. *)

Wakes ==
  /\ pc = "asleep"
  /\ parked' = IF cell = "unread" THEN parked ELSE ShouldPark(cell, parked)

\* slip: a flat cell sleeps for hours without a word
ParkRoundSilent ==
  /\ Wakes /\ cell # "unread" /\ parked'
  /\ UNCHANGED <<load, cell, cfg, initialised, baseline, present, presentRounds,
                 unexplained, idleWakes, told, fresh, recount>>
  /\ Sleep("park", 0)

\* The cell is flat: report, and sleep for hours.
ParkRound ==
  /\ Wakes /\ cell # "unread" /\ parked'
  /\ Session("park", NoWeight, "park", 0)
  /\ UNCHANGED <<load, cell, cfg, initialised, baseline, present, presentRounds,
                 unexplained, idleWakes, told, fresh, recount>>

Polls == Wakes /\ (cell = "unread" \/ ~parked')

\* The amplifier says nothing: counted towards the heartbeat all the same.
SilentRound ==
  /\ Polls
  /\ UNCHANGED <<load, cell, cfg, initialised, baseline, present, presentRounds,
                 unexplained, told, fresh, recount>>
  /\ Tail(NoWeight, 0)

FirstTare ==
  /\ Polls /\ ~initialised
  /\ baseline' = load /\ initialised' = TRUE
  /\ UNCHANGED <<load, cell, cfg, present, presentRounds, unexplained, idleWakes,
                 told, fresh, recount>>
  /\ Sleep("idle", 0)

Verdict == Decide(load - baseline, present, cfg.threshold)

Judges(verdict) ==
  /\ Polls /\ initialised /\ Verdict = verdict
  /\ unexplained' = IF verdict = "Unexplained" THEN Up1(unexplained) ELSE 0
  /\ UNCHANGED <<load, cell, cfg, initialised, told, fresh, recount>>

\* The rising edge: watch it, with the processor awake and the radio off.
Arrives ==
  /\ Judges("Arrived")
  /\ present' = TRUE
  /\ pc' = "visit" /\ measured' = load
  /\ UNCHANGED <<baseline, presentRounds, idleWakes, night, why, next,
                 since, turns, cut>>

\* slip: a stuck load is disbelieved and not absorbed
StaysUnabsorbed ==
  /\ Judges("Staying")
  /\ IF Up1(presentRounds) >= RoundsFor(STUCK_AFTER_SECS, cfg.active)
     THEN /\ present' = FALSE /\ presentRounds' = 0
          /\ UNCHANGED baseline
          /\ Tail(load, 0)
     ELSE /\ presentRounds' = Up1(presentRounds)
          /\ UNCHANGED <<present, baseline>>
          /\ PublishOrTail(load, "active", 0)

\* Still there: a load tracked cheaply, until it has been there too long to be
\* a visitor and becomes the new empty state.
Stays ==
  /\ Judges("Staying")
  /\ IF Up1(presentRounds) >= RoundsFor(STUCK_AFTER_SECS, cfg.active)
     THEN /\ baseline' = load /\ present' = FALSE /\ presentRounds' = 0
          /\ Tail(load, 0)
     ELSE /\ presentRounds' = Up1(presentRounds)
          /\ UNCHANGED <<present, baseline>>
          /\ PublishOrTail(load, "active", 0)

Departs ==
  /\ Judges("Departed")
  /\ present' = FALSE /\ presentRounds' = 0
  /\ UNCHANGED baseline
  /\ PublishOrTail(load, "idle", 0)

RestsQuiet ==
  /\ Judges("Quiet")
  /\ baseline' = Drifted(baseline, load - baseline)
  /\ UNCHANGED <<present, presentRounds>>
  /\ Tail(load, 0)

\* slip: a baseline once frozen stays frozen, as on 2026-09-24
RestsFrozen ==
  /\ Judges("Unexplained")
  /\ UNCHANGED <<baseline, present, presentRounds>>
  /\ Tail(load, 0)

\* Too much for creep and too little for a visit: left alone for a while.
RestsUnexplained ==
  /\ Polls /\ initialised /\ Verdict = "Unexplained"
  /\ LET stranded == Up1(unexplained) >= RoundsFor(UNEXPLAINED_ADOPT_AFTER_SECS, WakeSecs)
     IN  /\ unexplained' = IF stranded THEN 0 ELSE Up1(unexplained)
         /\ baseline' = IF stranded THEN load ELSE baseline
  /\ UNCHANGED <<load, cell, cfg, initialised, present, presentRounds, told, fresh, recount>>
  /\ Tail(load, 0)

-----------------------------------------------------------------------------
(* Watching a visit, and a session with the broker. *)

\* presence::counts_as_visit, and whether the landing had been counted before.
Counts(counted) ==
  /\ fresh' = (fresh /\ ~counted)
  /\ recount' = (recount \/ (counted /\ ~fresh))

VisitEnds(stillLoaded, spent, weight) ==
  /\ pc = "visit"
  /\ present' = stillLoaded /\ presentRounds' = 0
  /\ UNCHANGED <<load, cell, cfg, initialised, baseline, unexplained, parked, told>>
  /\ PublishOrTail(weight, IF stillLoaded THEN "active" ELSE "day", spent)

StillHeavy == load - baseline >= cfg.threshold

\* VISIT_MAX is over and the load is not gone.
VisitRunsOut ==
  /\ StillHeavy
  /\ Counts(TRUE)
  /\ VisitEnds(TRUE, VISIT_MAX, load)

\* Enough readings in a row below the threshold.  A touch of less than
\* MIN_COUNTED_VISIT_MILLIS is not counted.
VisitorLeaves ==
  /\ ~StillHeavy
  /\ \E counted \in BOOLEAN : Counts(counted)
  /\ \E spent \in {0, VISIT_MAX} : VisitEnds(FALSE, spent, measured)

\* The amplifier falls silent: the visit ends here, whatever is on the cell,
\* and what is still there will land again.
VisitLost ==
  /\ fresh' = TRUE
  /\ \E counted \in BOOLEAN : recount' = (recount \/ (counted /\ ~fresh))
  /\ \E spent \in {0, VISIT_MAX} : VisitEnds(FALSE, spent, measured)

\* What follows publish() in every arm.
SessionOver ==
  /\ idleWakes' = IF why = "presence" THEN 0 ELSE idleWakes
  /\ Sleep(next, 0)
  /\ fresh' = (fresh \/ cfg'.threshold < cfg.threshold)
  /\ UNCHANGED <<load, cell, initialised, unexplained, parked, recount>>

PublishFails ==
  /\ pc = "session"
  /\ UNCHANGED <<cfg, told, baseline, present, presentRounds>>
  /\ SessionOver

Tells == told' = IF measured = NoWeight THEN told ELSE measured

\* The readings are out and the retained settings are in.
PublishOk ==
  /\ pc = "session"
  /\ Tells /\ cfg' \in Configs
  /\ SessionOver
  /\ UNCHANGED <<baseline, present, presentRounds>>

\* The tare button was pressed: sixteen readings that agree are the new zero.
\* A parked round has not powered the amplifier up and never gets that far.
PublishAndRetare ==
  /\ pc = "session" /\ why # "park"
  /\ Tells /\ cfg' \in Configs
  /\ baseline' = load /\ present' = FALSE /\ presentRounds' = 0
  /\ SessionOver

-----------------------------------------------------------------------------
(* The world. *)

\* A panic, a watchdog, or new provisioning stored at the end of a session:
\* RTC RAM is as the round left it.
Restart ==
  /\ Crashes /\ pc \in {"visit", "session"}
  /\ pc' = "asleep" /\ why' = "none" /\ measured' = NoWeight /\ next' = "none"
  /\ \/ UNCHANGED told
     \/ pc = "session" /\ Tells
  /\ \E spent \in {0, IF pc = "visit" THEN VISIT_MAX ELSE 0} : Passes(spent)
  /\ cut' = (cut \/ pc = "session")
  /\ turns' = IF pc = "session" THEN 0 ELSE turns
  /\ UNCHANGED <<world, cfg, rtc, fresh, recount>>

LoadChanges ==
  /\ load' \in Loads \ {load}
  /\ fresh' = (fresh \/ load' > load)
  /\ UNCHANGED <<cell, night, cfg, rtc, round, told, since, turns, cut, recount>>

CellChanges ==
  /\ cell' \in Cells \ {cell}
  /\ UNCHANGED <<load, night, cfg, rtc, round, told, history>>

LightChanges ==
  /\ pc = "asleep" /\ turns < MaxTurns
  /\ night' \in Nights \ {night} /\ turns' = turns + 1
  /\ UNCHANGED <<load, cell, cfg, rtc, round, told, since, cut, fresh, recount>>

Weighing == FirstTare \/ Arrives \/ Stays \/ Departs \/ RestsQuiet \/ RestsUnexplained

Program ==
  \/ ParkRound \/ SilentRound \/ Weighing
  \/ VisitRunsOut \/ VisitorLeaves \/ VisitLost
  \/ PublishFails \/ PublishOk \/ PublishAndRetare

Next ==
  \/ Program \/ Restart
  \/ LoadChanges \/ CellChanges \/ LightChanges

Spec == Init /\ [][Next]_vars

(***************************************************************************)
(* The timer wakes the node and the executor runs it; an amplifier that is *)
(* asked for ever answers for ever; a visit is watched to its end often    *)
(* enough.                                                                 *)
(***************************************************************************)
Fairness == WF_vars(Program) /\ SF_vars(Weighing) /\ SF_vars(VisitRunsOut)

FairSpec == Spec /\ Fairness

-----------------------------------------------------------------------------
(* Properties. *)

\* The scale may ask for the radio once in MIN_PUBLISH_GAP_SECS and no more
\* (src/presence.rs MIN_PUBLISH_GAP_SECS), whatever lands, flaps or sticks,
\* and whatever settings arrive.  Counted in rounds; the two things that make
\* a round count for more than it lasted are excused here and shown by runs
\* of their own.
Excused == turns > 0 \/ cut
RateLimited ==
  pc = "session" /\ why = "presence" => since >= MIN_PUBLISH_GAP_SECS \/ Excused

\* The rule as src/presence.rs states it.
RateLimitedAlways ==
  pc = "session" /\ why = "presence" => since >= MIN_PUBLISH_GAP_SECS

\* The node is never mute: sessions follow each other within one heartbeat of
\* the settings in force (two, if the light changed meanwhile), the visits during
\* which the radio is held back or the node restarts, and a few longest sleeps,
\* whatever the verdicts were and whatever RTC RAM held
\* (src/main.rs run_battery: "Every round that did not publish arrives here").
Larger(m, n) == IF m < n THEN n ELSE m
LongestSleep(c) == Larger(PARK_INTERVAL, Larger(c.active, Larger(c.idle, c.night)))
RoundsToPublish(c, dark) == RoundsFor(MIN_PUBLISH_GAP_SECS, IdleSecs(c, dark))
RoundsToHeartbeat(c, dark) == HeartbeatWakes(c.heartbeat, IdleSecs(c, dark))
\* Rounds after which an edge may publish, or where one round makes a load
\* stuck, after which the heartbeat is due.
HeldBack(c) ==
  IF c.active < STUCK_AFTER_SECS
  THEN Larger(RoundsToPublish(c, FALSE), RoundsToPublish(c, TRUE))
  ELSE Larger(RoundsToHeartbeat(c, FALSE), RoundsToHeartbeat(c, TRUE))
MuteBound ==
  (IF turns = 0 THEN 1 ELSE 2) * cfg.heartbeat
    + (HeldBack(cfg) + 2) * VISIT_MAX + (turns + 2) * LongestSleep(cfg)
NeverMute == since <= MuteBound

\* A landing is counted as one visit, however long it stays and whatever the
\* baseline does meanwhile, unless the amplifier loses it on the way or a lower
\* threshold makes a visitor of what was too light
\* (src/main.rs run_battery, state::count_visit).
CountsOnce == ~recount

Settled ==
  /\ ~present
  /\ -Band(cfg.threshold) <= load - baseline /\ load - baseline <= Band(cfg.threshold)

\* Whatever RTC RAM held at power-on, and whatever was remounted, dropped or
\* left on the cell: if it stays, it becomes the empty state, and the next
\* visitor is seen (src/main.rs run_battery, "stranded this node for
\* thirty-two hours").
Relearns ==
  \A l \in Loads : <>[](load = l /\ cell = "good") => <>[]Settled

\* Home Assistant catches up with what is on the cell, a departure inside the
\* rate limit included, once the rounds that report can weigh and their sessions
\* deliver (src/main.rs run_battery: "the heartbeat will carry it").
Delivers == pc = "session" /\ pc' = "asleep" => measured # NoWeight /\ told' = measured
CatchesUp ==
  \A l \in Loads :
    <>[](load = l /\ cell = "good") /\ <>[][Delivers]_vars => <>[](told = l)
=============================================================================
