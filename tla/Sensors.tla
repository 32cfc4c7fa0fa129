------------------------------ MODULE Sensors -------------------------------
(***************************************************************************)
(* A board on mains in its stay-awake loop: run_awake of src/main.rs with  *)
(* Sensors::measure_all of src/platform.rs, the drivers it calls in turn,  *)
(* the one-second ticks of the gas sensor between two rounds, and the      *)
(* message that makes the board another flavor.  Sensors keep their power  *)
(* when the board restarts, so a driver starts with a sensor that may be   *)
(* in the middle of anything.                                              *)
(*                                                                         *)
(* The broker is reduced to two things it retains, the flavor the board is *)
(* told and the temperature offset, and to publishes that may fail; its    *)
(* session is Session.  A reading is its topic; what is measured is left   *)
(* out, except whether there was a humidity to correct dust with.          *)
(***************************************************************************)
EXTENDS Fleet, Scd41, Sgp41

CONSTANTS
  BuiltAs,                      \* the flavor of the image
  Told,                         \* what the provisioning topic may be set to
  FittedGas,                    \* the gas sensor in the socket
  MAX_SAMPLES,                  \* platform::MAX_SAMPLES
  STABLE_FRAMES,
  MaxFrames,                    \* frames that fit into a warm-up: a bound
  GasSteps,                     \* ticks between two rounds: a bound for sample_secs
  MaxActs, MaxFaults            \* bounds: deeds of people, faults

ASSUME SensorsAssumption ==
  /\ \E n \in FLAVORS : n.flavor = BuiltAs
  /\ \A n \in FLAVORS : n.flavor \in Told \cup {BuiltAs} => n.power = "Mains"
  /\ FittedGas \in {"Sgp40", "Sgp41"} /\ MAX_SAMPLES \in Nat /\ MAX_SAMPLES >= 3
  /\ STABLE_FRAMES \in Nat \ {0} /\ MaxFrames \in Nat \ {0} /\ GasSteps \in Nat
  /\ MaxActs \in Nat /\ MaxFaults \in Nat

VARIABLES
  told,            \* broker: the retained provisioning message
  override,        \* flash: the provisioned flavor
  node,            \* node::ACTIVE
  tuned,           \* flash: Config.scd41_offset_centi
  pc,              \* begin, probe, sht31, scd41, gas, fan, warm, park, link, send, rest
  ticks,           \* gas steps taken since the last round
  round,           \* Sensors.round, up to the slowest slot's period
  probed,          \* Sensors.probed
  out,             \* Samples: the topics of this round's readings
  dropped,         \* history: a reading found no room in this round
  air,             \* Sht31.last_rh_tenths holds a humidity
  scd,             \* the Scd41 driver d and the chip c
  said,            \* Scd41.fault, or that there were readings
  streak, tested,  \* Sensors.scd41_empty_rounds, scd41_self_tested
  gas,             \* the Sgp41 driver and Sensors.gas_cadence
  fan,             \* the fan of the SDS011 is on
  frames, agreeing,\* warm_up: frames heard, and how many in a row agree
  deaf,            \* history: in this boot a stop was lost, a start unheard, or the
                   \* power cut after the self test of a streak
  cut,             \* history: the SCD41 alone lost power in this boot
  tries, unseen,   \* history: fan rounds begun, and rounds ended, since Home
                   \* Assistant last heard of dust
  stray,           \* history: why the fan is on though no driver means it to be: no,
                   \* power (up, or the board restarted), start or stop (that failed)
  acts, faults

sht == <<air>>
co2 == <<scd, said, streak, tested, deaf, cut>>
dust == <<fan, frames, agreeing, stray>>
seen == <<tries, unseen>>
samples == <<out, dropped>>
identity == <<told, override, node, tuned>>
schedule == <<ticks, round, probed>>
vars == <<identity, pc, schedule, samples, sht, co2, gas, dust, seen, acts, faults>>

\* The base rounds after which every slot has had its turn.
Period == RoundsBetween(node.sds011, node.sample_secs)
Topics == {"", "scd41_", "battery_"} \X
  {"temperature", "humidity", "co2", "pm25", "pm10", "pm25_raw", "pm10_raw", "voc_index",
   "nox_index", "rssi", "reset_reason", "reset_count", "boot_count"}

TypeOK ==
  /\ told \in Told \cup {""} /\ node \in FLAVORS /\ tuned \in Offsets
  /\ override \in {n.flavor : n \in FLAVORS} \cup {NoOverride}
  /\ pc \in {"begin", "probe", "sht31", "scd41", "gas", "fan", "warm", "park",
             "link", "send", "rest"}
  /\ ticks \in 0..GasSteps /\ round \in Nat /\ probed \in BOOLEAN
  /\ out \in Seq(Topics) /\ Len(out) <= MAX_SAMPLES /\ dropped \in BOOLEAN
  /\ air \in BOOLEAN
  /\ scd \in [d : Driver, c : Chip] /\ said \in Said
  /\ streak \in 0..SELF_TEST_AFTER /\ tested \in BOOLEAN
  /\ gas \in Gas /\ fan \in BOOLEAN
  /\ frames \in 0..MaxFrames /\ agreeing \in 0..STABLE_FRAMES
  /\ tries \in 0..2 /\ unseen \in Nat
  /\ deaf \in BOOLEAN /\ cut \in BOOLEAN /\ stray \in {"no", "power", "start", "stop"}
  /\ acts \in 0..MaxActs /\ faults \in 0..MaxFaults

\* An SDS011 spins its fan from power-up until it is told to stop.
Init ==
  /\ told = "" /\ override = NoOverride /\ tuned = DEFAULT_OFFSET
  /\ node = Identity(override, BuiltAs)
  /\ pc = "begin" /\ ticks = 0 /\ round = 0 /\ probed = FALSE
  /\ out = <<>> /\ dropped = FALSE /\ air = FALSE
  /\ scd = [d |-> New, c |-> PoweredUp] /\ said = "nothing"
  /\ streak = 0 /\ tested = FALSE /\ deaf = FALSE /\ cut = FALSE
  /\ gas = NewGas /\ fan = TRUE /\ frames = 0 /\ agreeing = 0 /\ stray = "power"
  /\ tries = 0 /\ unseen = 0
  /\ acts = 0 /\ faults = 0

Costs(n) == faults + n <= MaxFaults /\ faults' = faults + n
BusCosts(bus) == Costs(IF bus = AllDone THEN 0 ELSE 1)
Healthy(answer) == answer = IF FittedGas = "Sgp41" THEN "both" ELSE "first"
AnswerCosts(answer) == Costs(IF Healthy(answer) THEN 0 ELSE 1)

\* push_sample, and the pushing in collect: what does not fit is dropped.
PushesAll(topics) ==
  /\ out' = Cut(out \o topics, MAX_SAMPLES)
  /\ dropped' = (dropped \/ Len(out) + Len(topics) > MAX_SAMPLES)

TopicsOf(slot, keys) == [i \in 1..Len(keys) |-> StateTopic(PrefixFor(slot, keys[i]), keys[i])]

\* due: whether a slot measures on this base round.
SlotDue(slot) == round % RoundsBetween(slot, node.sample_secs) = 0

-----------------------------------------------------------------------------
(* One round, sensor after sensor. *)

\* collect_samples up to measure_all: diagnostics, and the offset handed down.
Begin ==
  /\ \/ pc = "begin"
     \/ pc = "rest" /\ (node.sgp41.enabled => ticks = GasSteps)
  /\ pc' = "probe" /\ ticks' = 0
  /\ out' = TopicsOf(On, RESET_KEYS) /\ dropped' = FALSE
  /\ scd' = [scd EXCEPT !.d = SetTemperatureOffset(@, tuned)]
  /\ UNCHANGED <<identity, round, probed, sht, said, streak, tested, deaf, cut, gas,
                 dust, seen, acts, faults>>

\* probe_i2c, once a boot: ask the SCD41 for its number, find out the gas sensor.
Probe(bus, answer) ==
  /\ pc = "probe" /\ ~probed
  /\ \/ BusCosts(bus) /\ Healthy(answer)
     \/ AnswerCosts(answer) /\ bus = AllDone
  /\ probed' = TRUE /\ pc' = "sht31"
  /\ scd' = IF node.scd41.enabled /\ bus["poll"] = "done" THEN SerialNumber(scd, bus) ELSE scd
  /\ deaf' = (deaf \/ bus["stop"] = "lost")
  /\ gas' = IF node.sgp41.enabled THEN Detect(gas, answer) ELSE gas
  /\ UNCHANGED <<identity, ticks, round, samples, sht, said, streak, tested, cut, dust, seen, acts>>

ProbedAlready ==
  /\ pc = "probe" /\ probed
  /\ pc' = "sht31"
  /\ UNCHANGED <<identity, schedule, samples, sht, co2, gas, dust, seen, acts, faults>>

\* Two attempts with a reset between them; the last humidity is forgotten first.
MeasureSht31(answers) ==
  /\ pc = "sht31" /\ pc' = "scd41"
  /\ Costs(IF answers THEN 0 ELSE 1)
  /\ air' = answers
  /\ PushesAll(IF answers THEN TopicsOf(node.sht31, SHT31_KEYS) ELSE <<>>)
  /\ UNCHANGED <<identity, schedule, co2, gas, dust, seen, acts>>

\* A streak of empty rounds ends in one self test, which stops the sensor.
MeasureScd41(bus) ==
  LET sampled == Sample(scd, bus)
      heard == sampled.said = "readings"
      empty == IF streak < SELF_TEST_AFTER THEN streak + 1 ELSE streak
      selfTests == ~heard /\ empty >= SELF_TEST_AFTER /\ ~tested
  IN /\ pc = "scd41" /\ node.scd41.enabled /\ pc' = "gas"
     /\ BusCosts(bus)
     /\ scd' = IF selfTests THEN SelfTest(sampled.s, bus) ELSE sampled.s
     /\ said' = sampled.said
     /\ streak' = IF heard THEN 0 ELSE empty
     /\ tested' = (~heard /\ (tested \/ selfTests))
     /\ deaf' = (deaf \/ bus["stop"] = "lost" \/ bus["start"] = "unheard")
     /\ PushesAll(IF heard THEN TopicsOf(node.scd41, SCD41_KEYS) ELSE <<>>)
     /\ UNCHANGED <<identity, schedule, sht, cut, gas, dust, seen, acts>>

\* What the ticks have computed; nothing is asked of the sensor here.
CollectGas ==
  /\ pc = "gas"
  /\ PushesAll(IF node.sgp41.enabled THEN TopicsOf(node.sgp41, GasReadings(gas)) ELSE <<>>)
  /\ pc' = IF node.sds011.enabled /\ SlotDue(node.sds011) THEN "fan" ELSE "link"
  /\ round' = (round + 1) % Period
  /\ UNCHANGED <<identity, ticks, probed, sht, co2, gas, dust, seen, acts, faults>>

-----------------------------------------------------------------------------
(* The dust sensor: fan on, frames until they agree, fan off. *)

\* set_work(true).  One whose flush failed has started the fan, and one that was
\* not written leaves it as it was; measure() returns from both without a stop.
FanOn(outcome) ==
  /\ pc = "fan"
  /\ Costs(IF outcome = "done" THEN 0 ELSE 1)
  /\ fan' = (fan \/ outcome # "lost")
  /\ stray' = IF fan' /\ outcome # "done" THEN "start" ELSE "no"
  /\ pc' = IF outcome = "done" THEN "warm" ELSE "link"
  /\ frames' = 0 /\ agreeing' = 0
  /\ tries' = IF tries < 2 THEN tries + 1 ELSE tries
  /\ UNCHANGED <<identity, schedule, samples, sht, co2, gas, unseen, acts>>

\* One frame of warm_up: like the one before it, or the first of a new run.
Frame(agrees) ==
  /\ pc = "warm" /\ frames < MaxFrames
  /\ frames' = frames + 1
  /\ agreeing' = IF agrees /\ frames > 0 THEN agreeing + 1 ELSE 1
  /\ pc' = IF agreeing' >= STABLE_FRAMES \/ frames' = MaxFrames THEN "park" ELSE "warm"
  /\ UNCHANGED <<identity, schedule, samples, sht, co2, gas, fan, stray, seen, acts,
                 faults>>

\* slip: a sensor that says nothing is given up at once
SilenceReturns ==
  /\ pc = "warm" /\ Costs(1)
  /\ pc' = IF frames = 0 THEN "link" ELSE "park"
  /\ UNCHANGED <<identity, schedule, samples, sht, co2, gas, dust, seen, acts>>

\* No frame in frame_timeout: what was heard so far is what there is.
Silence ==
  /\ pc = "warm" /\ Costs(1)
  /\ pc' = "park"
  /\ UNCHANGED <<identity, schedule, samples, sht, co2, gas, dust, seen, acts>>

\* set_work(false) on every path out of the warm-up, then the readings: raw
\* always, corrected when this round has a humidity.
Park(outcome) ==
  LET keys == CASE frames = 0 -> <<>>
                [] frames > 0 /\ ~node.sds011.compensated -> <<"pm25", "pm10">>
                [] frames > 0 /\ node.sds011.compensated /\ ~air ->
                     <<"pm25_raw", "pm10_raw">>
                [] OTHER -> <<"pm25_raw", "pm10_raw", "pm25", "pm10">>
  IN /\ pc = "park" /\ pc' = "link"
     /\ Costs(IF outcome = "done" THEN 0 ELSE 1)
     /\ fan' = (outcome = "lost") /\ stray' = IF fan' THEN "stop" ELSE "no"
     /\ PushesAll(TopicsOf(node.sds011, keys))
     /\ frames' = 0 /\ agreeing' = 0
     /\ UNCHANGED <<identity, schedule, sht, co2, gas, seen, acts>>

-----------------------------------------------------------------------------
(* The publish, the wait for the next round, and restarts. *)

\* A round is over, and what it had to say of dust has arrived or not.
RoundEnds(arrives) ==
  LET dustArrives == arrives /\ \E i \in 1..Len(out) : out[i][2] = "pm25_raw"
      expired == unseen * node.sample_secs >= ExpireFor(node.sds011, node.sample_secs)
  IN /\ tries' = IF dustArrives THEN 0 ELSE tries
     /\ unseen' = CASE dustArrives \/ ~node.sds011.enabled -> 0
                    [] ~dustArrives /\ node.sds011.enabled /\ expired -> unseen
                    [] OTHER -> unseen + 1

\* publish_samples: the radio's own reading, taken last, when there is a link.
Link(up) ==
  /\ pc = "link" /\ Costs(IF up THEN 0 ELSE 1)
  /\ PushesAll(IF up THEN TopicsOf(On, <<"rssi">>) ELSE <<>>)
  /\ IF up THEN pc' = "send" /\ UNCHANGED seen ELSE pc' = "rest" /\ RoundEnds(FALSE)
  /\ UNCHANGED <<identity, schedule, sht, co2, gas, dust, acts>>

\* Every driver starts anew; sensors, flash and the broker stay as they are.
Restarts ==
  /\ node' = Identity(override', BuiltAs)
  /\ pc' = "begin" /\ ticks' = 0 /\ round' = 0 /\ probed' = FALSE
  /\ out' = <<>> /\ dropped' = FALSE /\ air' = FALSE
  /\ said' = "nothing" /\ streak' = 0 /\ tested' = FALSE
  /\ scd' = [scd EXCEPT !.d = New] /\ gas' = NewGas /\ frames' = 0 /\ agreeing' = 0
  /\ deaf' = FALSE /\ cut' = FALSE /\ UNCHANGED fan
  /\ stray' = IF fan THEN "power" ELSE "no"

\* The samples go out and the retained messages are read: a new offset, and a
\* flavor.  apply_provisioning restarts the board once the flavor is written, and
\* the offset waits at the broker; a refused write leaves the board as it is, with
\* the offset it was given.
Send(arrives, offset, written) ==
  LET request == ProvisionRequest(told, node.flavor, override)
      reprovisions == arrives /\ request # {}
  IN /\ pc = "send"
     /\ Costs((IF arrives THEN 0 ELSE 1) + (IF written THEN 0 ELSE 1))
     /\ offset # tuned => /\ arrives
                          /\ \E c \in 1..Len(Controls(node)) :
                               Controls(node)[c] = "scd41_temp_offset"
     /\ ~written => reprovisions
     /\ tuned' = IF reprovisions /\ written THEN tuned ELSE offset
     /\ acts' = IF offset = tuned THEN acts ELSE acts + 1
     /\ acts' <= MaxActs
     /\ IF reprovisions /\ written
        THEN /\ override' \in request
             /\ Restarts
             /\ tries' = 0 /\ unseen' = 0
             /\ UNCHANGED told
        ELSE /\ pc' = "rest" /\ RoundEnds(arrives)
             /\ UNCHANGED <<told, override, node, schedule, samples, sht, co2, gas, dust>>

\* wait_for_next_round: one tick of the gas sensor.
Tick(answer) ==
  /\ pc = "rest" /\ node.sgp41.enabled /\ ticks < GasSteps
  /\ AnswerCosts(answer) /\ (Due(gas) \/ Healthy(answer))
  /\ ticks' = ticks + 1
  /\ gas' = StepGas(gas, answer)
  /\ UNCHANGED <<identity, pc, round, probed, samples, sht, co2, dust, seen, acts>>

\* The watchdog, a panic or an update.
Reset ==
  /\ UNCHANGED override /\ Restarts /\ Costs(1)
  /\ UNCHANGED <<told, tuned, seen, acts>>

\* The SCD41 alone loses its power and comes back.
ScdPowerCut ==
  /\ Costs(1) /\ ~cut
  /\ scd' = [scd EXCEPT !.c = PoweredUp] /\ cut' = TRUE
  /\ deaf' = (deaf \/ tested)
  /\ UNCHANGED <<identity, pc, schedule, samples, sht, said, streak, tested, gas, dust,
                 seen, acts>>

\* A person sets the provisioning topic, or clears it.
Tell(flavor) ==
  /\ acts < MaxActs /\ acts' = acts + 1 /\ told # flavor
  /\ told' = flavor
  /\ UNCHANGED <<override, node, tuned, pc, schedule, samples, sht, co2, gas, dust, seen, faults>>

Step ==
  \/ Begin
  \/ \E bus \in Buses, answer \in Answers : Probe(bus, answer)
  \/ ProbedAlready
  \/ \E answers \in BOOLEAN : MeasureSht31(answers)
  \/ \E bus \in Buses : MeasureScd41(bus)
  \/ CollectGas
  \/ \E outcome \in Outcomes : FanOn(outcome)
  \/ \E agrees \in BOOLEAN : Frame(agrees)
  \/ Silence
  \/ \E outcome \in Outcomes : Park(outcome)
  \/ \E up \in BOOLEAN : Link(up)
  \/ \E arrives, written \in BOOLEAN, offset \in Offsets : Send(arrives, offset, written)
  \/ \E answer \in Answers : Tick(answer)

Next ==
  \/ Step
  \/ Reset
  \/ ScdPowerCut
  \/ \E flavor \in Told \cup {""} : Tell(flavor)

Spec == Init /\ [][Next]_vars

\* The loop of a board that is awake goes on; the executor has nothing else.
FairSpec == Spec /\ WF_vars(Step)

-----------------------------------------------------------------------------
(* What the sensors promise. *)

\* A board announces what it then has room to publish: no reading is dropped for
\* want of room (MAX_SAMPLES, "kept in step with MAX_ENTITIES").
RoomForAll == ~dropped

\* The driver thinks the SCD41 idle while it measures only after a bus fault of
\* this boot: one left running by an earlier boot is always stopped first.
KnowsTheSensor == Wedged(scd) => deaf

\* Whatever happens on the bus, CO2 readings come back, by a new start or by the
\* self test; only a lost stop, an unheard start, or a second loss of the sensor in
\* one streak needs a restart of the board.
Recovers == []<>(said = "readings" \/ deaf)

\* A CO2 reading that is published was measured with the offset the owner has set,
\* through restarts of the board and failed writes; unless the sensor alone was
\* without power.
OffsetInForce ==
  pc = "gas" /\ said = "readings" => scd.c.register = tuned \/ cut

\* Between two rounds the fan stands still, whichever way the measurement ended.
\* Three things are excused: the board came up or restarted with the fan running,
\* the command that stops it was lost, and a command that starts it failed, after
\* which src/sensors/sds011.rs measure (432-434) returns without stopping it.
FanParked == pc \in {"link", "send", "rest"} /\ fan => stray # "no"

\* The same without the last excuse: the fan "must never be left running by an
\* error path" (src/sensors/sds011.rs:438-439).  It does not hold: SensorsFan.cfg.
NoErrorPathLeavesFan == pc \in {"link", "send", "rest"} /\ fan => stray \in {"power", "stop"}

\* Dust that is measured every few rounds only does not vanish from Home Assistant
\* between two measurements, nor when one of them fails.
DustStays ==
  pc = "rest" /\ node.sds011.enabled /\ tries <= 1 =>
    unseen * node.sample_secs < ExpireFor(node.sds011, node.sample_secs)

\* A gas sensor that answers again is sampled again, however long it was silent.
GasReturns == []<>(node.sgp41.enabled => ~gas.fault)

\* A board that is told a flavor becomes it and stays it: the message stays
\* retained, and the board does not restart for it again.
ProvisionSettles ==
  \A flavor \in Told :
    <>[](told = flavor) =>
      <>[](/\ Named(flavor) # {} => node.flavor = flavor
           /\ ProvisionRequest(told, node.flavor, override) = {})
=============================================================================
