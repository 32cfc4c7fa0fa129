-------------------------------- MODULE Lamp --------------------------------
(***************************************************************************)
(* The solarleuchte: run_lamp of src/main.rs, which wakes for one evening, *)
(* holds the string lit through it and sleeps until the next.  Two tasks   *)
(* share the work: the loop decides and talks, lamp_task breathes whatever *)
(* gate the loop signalled last, however long the loop is busy elsewhere.  *)
(*                                                                         *)
(* `now` is the true minute of the day; the board only has its clock,      *)
(* which is `now` plus an error: it runs ahead while it is carried through *)
(* an evening, stands still while the radio waits for a network, falls     *)
(* behind by every round that was not followed by a sync, and drifts in a  *)
(* long sleep.  Update trials are Ota's, the broker session Session's: a   *)
(* round here takes time and brings back the light's settings, or fails.   *)
(*                                                                         *)
(* The season is one day of the year: sunset moves about a minute a day,   *)
(* which src/main.rs lamp_sleep_secs gives away as well.                   *)
(***************************************************************************)
EXTENDS Evening

CONSTANTS
  Doys,               \* the days of the year a behaviour may be about
  Schedules,          \* the evenings Home Assistant may ask for
  Cells,              \* what read_millivolts may say of the cell
  NoReading,          \* or that it says nothing
  RoundTakes,         \* minutes a publish round may last, a failed install included
  PUBLISH_EVERY,      \* LAMP_PUBLISH_EVERY
  RETRY_MIN,          \* minutes a lamp that does not know the time sleeps
  WAIT,               \* minutes one step of waiting for a network stands for
  LONG, DRIFT,        \* a sleep of LONG minutes may end DRIFT early or late
  MaxAhead, MaxBehind,\* bounds: the error of the clock
  MaxActs, MaxFaults  \* bounds: deeds of people, faults

FALLBACK_MV == 3700   \* LAMP_CELL_FALLBACK_MV

ASSUME LampAssumption ==
  /\ Doys \subseteq 0..365 /\ Schedules \subseteq Schedule /\ DEFAULT \in Schedules
  /\ Cells \subseteq Nat /\ NoReading \notin Nat
  /\ RoundTakes \subseteq Nat /\ 0 \in RoundTakes
  /\ \E longest \in RoundTakes : \A d \in RoundTakes : d <= longest
  /\ PUBLISH_EVERY \in 1..DAY_MIN /\ RETRY_MIN \in 1..DAY_MIN /\ WAIT \in 1..DAY_MIN
  /\ LONG \in Nat /\ DRIFT \in Nat /\ DRIFT < LONG
  /\ MaxAhead \in Nat /\ MaxBehind \in Nat
  /\ MaxActs \in Nat /\ MaxFaults \in Nat

VARIABLES
  doy, now,      \* the world: day of the year, true minute of the day
  router,        \* the world: the network can be joined
  cell,          \* the world: what the divider would say
  wish,          \* the broker: on, and the schedule
  pc,            \* asleep, boot, join, first, loop, bye, round
  stack,         \* this boot has a network
  known,         \* the clock is plausible
  err,           \* the board's clock minus now
  saved,         \* minutes the clock has been carried since it was last written
  since,         \* minutes since last_publish
  cfg,           \* the settings in force: on, and the schedule
  lit,           \* the gate last signalled is not zero
  alarm,         \* asleep: minutes to the wake-up
  idle,          \* history: minutes this boot was busy outside its evening
  acts, faults

world == <<doy, router, cell, wish>>
clock == <<known, err, saved>>
bounds == <<acts, faults>>
vars == <<now, world, pc, stack, clock, since, cfg, lit, alarm, idle, bounds>>

Settings == [on : BOOLEAN, sched : Schedules]

TypeOK ==
  /\ doy \in Doys /\ now \in 0..(DAY_MIN - 1) /\ router \in BOOLEAN
  /\ cell \in Cells \cup {NoReading} /\ wish \in Settings
  /\ pc \in {"asleep", "boot", "join", "first", "loop", "bye", "round"}
  /\ stack \in BOOLEAN /\ known \in BOOLEAN
  /\ err \in -MaxBehind..MaxAhead /\ saved \in Nat /\ since \in Nat
  /\ cfg \in Settings /\ lit \in BOOLEAN /\ alarm \in 0..(2 * DAY_MIN)
  /\ idle \in Nat
  /\ acts \in 0..MaxActs /\ faults \in 0..MaxFaults

\* Config::DEFAULT: neither the switch nor the schedule is persisted.
Defaults == [on |-> TRUE, sched |-> DEFAULT]

Init ==
  /\ doy \in Doys /\ now = 720 /\ router = TRUE /\ cell \in Cells
  /\ wish = Defaults
  /\ pc = "boot" /\ stack = FALSE /\ known = FALSE /\ err = 0 /\ saved = 0
  /\ since = 0 /\ cfg = Defaults /\ lit = FALSE /\ alarm = 0 /\ idle = 0
  /\ acts = 0 /\ faults = 0

Clock == (now + err) % DAY_MIN
Millivolts == IF cell = NoReading THEN FALLBACK_MV ELSE cell

\* True time moves on by d minutes.
Passes(d) == now' = (now + d) % DAY_MIN

\* The error of the clock, within its bounds.  That of an unknown clock means
\* nothing and is kept to bound how long the board goes without.
ErrBecomes(e) == err' = e /\ e \in -MaxBehind..MaxAhead

\* sync_time: the clock is written with the truth, or goes on unanswered with
\* what it says.  If what was written is taken up again only d minutes later,
\* it is behind by them.
Syncs(answered, d) ==
  /\ known' = (known \/ answered)
  /\ ErrBecomes((IF answered THEN 0 ELSE err) - d)

Evening == IsEvening(Clock, doy, cfg.sched)

\* Busy for d minutes that end outside the evening, or in it.
Busy(d) ==
  /\ Passes(d)
  /\ idle' = IF IsEvening(Clock', doy, cfg.sched') THEN idle ELSE idle + d

-----------------------------------------------------------------------------
(* Waking up, up to the first round. *)

\* RAM is gone, with the settings Home Assistant sent.
Forgets(step) ==
  /\ pc' = step /\ stack' = FALSE /\ cfg' = Defaults /\ lit' = FALSE
  /\ saved' = 0 /\ since' = 0

\* A new boot, the clock in RTC RAM behind by lag.
Boots(lag) ==
  /\ Forgets("boot") /\ alarm' = 0 /\ idle' = 0
  /\ UNCHANGED known /\ ErrBecomes(err - lag)

Wake ==
  /\ pc = "asleep"
  /\ \E d \in (IF alarm >= LONG THEN -DRIFT..DRIFT ELSE {0}) :
       /\ Passes(alarm + d)
       /\ Boots(d)
  /\ UNCHANGED <<world, bounds>>

\* bring_up_wifi: the radio starts, or this evening is unattended.
RadioStarts ==
  /\ pc = "boot"
  /\ pc' = "join"
  /\ UNCHANGED <<now, world, stack, clock, since, cfg, lit, alarm, idle, bounds>>

RadioFails ==
  /\ pc = "boot" /\ faults < MaxFaults
  /\ faults' = faults + 1 /\ pc' = "first"
  /\ UNCHANGED <<now, world, stack, clock, since, cfg, lit, alarm, idle, acts>>

\* wait_for_network has no budget, and the stored clock stands still.
Waits ==
  /\ pc = "join" /\ ~router
  /\ Passes(WAIT)
  /\ UNCHANGED known /\ ErrBecomes(err - WAIT)
  /\ UNCHANGED <<world, pc, stack, saved, since, cfg, lit, alarm, idle, bounds>>

Joins ==
  /\ pc = "join" /\ router
  /\ pc' = "first" /\ stack' = TRUE
  /\ UNCHANGED <<now, world, clock, since, cfg, lit, alarm, idle, bounds>>

\* What lamp_publish brings back: what is retained, or what was in force.
Brings == IF stack /\ router THEN {wish, cfg} ELSE {cfg}
Lasts == IF stack THEN RoundTakes ELSE {0}
Answers == {stack /\ router, FALSE}

\* The first sync and the first round, and then the question whether the clock
\* means anything: without one, an hour's sleep.
FirstRound ==
  /\ pc = "first"
  /\ cfg' \in Brings
  /\ \E d \in Lasts, answered \in Answers : Syncs(answered, d) /\ Busy(d)
  /\ saved' = 0 /\ since' = 0
  /\ IF known' THEN pc' = "loop" /\ UNCHANGED <<stack, alarm>>
               ELSE pc' = "asleep" /\ stack' = FALSE /\ alarm' = RETRY_MIN
  /\ UNCHANGED <<world, lit, bounds>>

-----------------------------------------------------------------------------
(* The loop of an evening. *)

Gated == Gate(Clock, doy, Millivolts, cfg.on, cfg.sched)

\* The carried clock may gain on the true one.
Ticks ==
  /\ UNCHANGED known /\ \E gain \in {0, 1} : ErrBecomes(err + gain)
  /\ Busy(1) /\ since' = since + 1 /\ saved' = saved + 1

\* slip: before its window the lamp stays awake for it
DecideIdles ==
  /\ pc = "loop"
  /\ lit' = (Gated > 0)
  /\ UNCHANGED <<world, stack, cfg, alarm, bounds>>
  /\ \/ /\ Charge(Millivolts) = 0 \/ Clock >= cfg.sched.off
        /\ pc' = "bye"
        /\ UNCHANGED <<now, clock, since, idle>>
     \/ /\ Charge(Millivolts) # 0 /\ Clock < cfg.sched.off
        /\ UNCHANGED pc /\ Ticks

\* One pass: signal the gate, then leave for the night, talk, or wait for the
\* next.
Decide ==
  /\ pc = "loop"
  /\ lit' = (Gated > 0)
  /\ UNCHANGED <<world, stack, cfg, alarm, bounds>>
  /\ IF Charge(Millivolts) = 0 \/ ~Evening
       THEN pc' = "bye" /\ UNCHANGED <<now, clock, since, idle>>
     ELSE IF since >= PUBLISH_EVERY
       THEN pc' = "round" /\ UNCHANGED <<now, clock, since, idle>>
       ELSE UNCHANGED pc /\ Ticks

\* slip: the clock is only written down when there is somebody to talk to
RoundTalks ==
  /\ pc = "round" /\ pc' = "loop"
  /\ cfg' \in Brings
  /\ \E d \in Lasts, answered \in Answers :
       /\ Syncs(answered, 0)
       /\ Busy(d) /\ saved' = (IF stack THEN d ELSE saved) /\ since' = d
  /\ UNCHANGED <<world, stack, lit, alarm, bounds>>

\* lamp_resync and lamp_publish every five minutes: the loop is busy for d
\* minutes, the string goes on breathing.
Round ==
  /\ pc = "round" /\ pc' = "loop"
  /\ cfg' \in Brings
  /\ \E d \in Lasts, answered \in Answers :
       /\ Syncs(answered, 0)
       /\ Busy(d) /\ saved' = d /\ since' = d
  /\ UNCHANGED <<world, stack, lit, alarm, bounds>>

\* lamp_sleep_secs, in minutes.
SleepMinutesSkips(at) ==                    \* slip: one direction only
  DAY_MIN - at + StartOf((doy % 365) + 1, cfg.sched)
SleepMinutes(at) ==
  LET today == StartOf(doy, cfg.sched)
      tomorrow == StartOf((doy % 365) + 1, cfg.sched)
  IN  Max({1, IF at < today THEN today - at ELSE DAY_MIN - at + tomorrow})

\* The last words of an evening: dark, then a resync, which a minute may pass
\* during, the sleep its clock asks for, and a round whose settings are lost.
Bye ==
  /\ pc = "bye"
  /\ Forgets("asleep")
  /\ \E s \in {0, 1}, d \in Lasts, answered \in Answers :
       /\ Syncs(answered, d)
       /\ alarm' = SleepMinutes(((now + s) + (IF answered THEN 0 ELSE err)) % DAY_MIN)
       /\ Passes(s + d) /\ idle' = idle + s + d
  /\ UNCHANGED <<world, bounds>>

-----------------------------------------------------------------------------
(* The world. *)

\* A software reset (an install, an expired trial, a panic) or the watchdog:
\* RTC RAM stays, with the clock as it was last written.
Restart ==
  /\ pc \notin {"asleep", "boot"} /\ faults < MaxFaults
  /\ faults' = faults + 1
  /\ Boots(saved)
  /\ UNCHANGED <<now, world, acts>>

PowerLoss ==
  /\ known /\ faults < MaxFaults /\ faults' = faults + 1
  /\ Forgets("boot") /\ alarm' = 0 /\ idle' = 0
  /\ known' = FALSE /\ err' = 0
  /\ UNCHANGED <<now, world, acts>>

RouterGoes ==
  /\ router /\ faults < MaxFaults
  /\ router' = FALSE /\ faults' = faults + 1
  /\ UNCHANGED <<now, doy, cell, wish, pc, stack, clock, since, cfg, lit, alarm, idle, acts>>

RouterReturns ==
  /\ ~router /\ router' = TRUE
  /\ UNCHANGED <<now, doy, cell, wish, pc, stack, clock, since, cfg, lit, alarm, idle, bounds>>

\* Someone moves the switch or the schedule in Home Assistant.
Wishes ==
  /\ acts < MaxActs /\ acts' = acts + 1
  /\ wish' \in Settings \ {wish}
  /\ UNCHANGED <<now, doy, router, cell, pc, stack, clock, since, cfg, lit, alarm, idle, faults>>

\* A cloudy week, a sunny one, a divider that says nothing.
CellChanges ==
  /\ acts < MaxActs /\ acts' = acts + 1
  /\ cell' \in (Cells \cup {NoReading}) \ {cell}
  /\ UNCHANGED <<now, doy, router, wish, pc, stack, clock, since, cfg, lit, alarm, idle, faults>>

Program ==
  \/ Wake \/ RadioStarts \/ Waits \/ Joins \/ FirstRound
  \/ Decide \/ Round \/ Bye

Next ==
  \/ Program \/ RadioFails \/ Restart \/ PowerLoss
  \/ RouterGoes \/ RouterReturns \/ Wishes \/ CellChanges

Spec == Init /\ [][Next]_vars

BeforeDusk == Clock < StartOf(doy, cfg.sched)

(***************************************************************************)
(* The executor runs; a router comes back; a time server is reached in the *)
(* end by a board that keeps asking; and not every goodbye before dusk is  *)
(* overtaken by it.                                                        *)
(***************************************************************************)
Fairness ==
  /\ WF_vars(Program) /\ WF_vars(RouterReturns)
  /\ SF_vars(FirstRound /\ known')
  /\ SF_vars(BeforeDusk /\ Bye /\ alarm' <= StartOf(doy, cfg.sched) - Clock)

FairSpec == Spec /\ Fairness

-----------------------------------------------------------------------------
(* Properties. *)

\* A charged lamp left at its defaults lights again and again, whatever resets,
\* dark routers and unanswered time servers lie between: it needs no
\* network to light, only a clock (src/main.rs run_lamp, "A dark router must
\* not mean a dark garden"), as long as a router that is dark comes back.
LightsAgain ==
  <>[](wish = Defaults /\ Charge(Millivolts) > 0) => []<>lit

\* Outside its evening a lamp is awake for little more than two rounds, wherever
\* it woke, whatever the schedule was changed to and however the broker hangs
\* (src/lamp.rs window: "a lamp awake outside its own window is a node burning
\* a fifth of its cell for nothing"); waiting for a network is not counted.
IdleBounded == idle <= 2 * Max(RoundTakes) + 2

\* A reset in the middle of an evening costs the clock no more than the time
\* from one round to the end of the next, with a network or without
\* (src/main.rs run_lamp writes the clock in every round).
ResetCostsOneRound == saved <= PUBLISH_EVERY + Max(RoundTakes)

\* A lamp that goes to sleep before dusk wakes for tonight (src/main.rs
\* lamp_sleep_secs: "before dusk it waits for tonight, after the cutoff for
\* tomorrow").
WaitsForTonight ==
  [][pc = "bye" /\ pc' = "asleep" /\ BeforeDusk => alarm' < DAY_MIN \div 2]_vars
=============================================================================
