---------------------------- MODULE SensorsProofs ----------------------------
(***************************************************************************)
(* For any number of faults and of deeds of people, any times and any      *)
(* flavors: the driver of the SCD41 takes it for idle while it measures    *)
(* only after a bus fault of this boot; a CO2 reading was measured with    *)
(* the offset the owner has set; and the fan of the dust sensor stands     *)
(* still between two rounds.                                               *)
(***************************************************************************)
EXTENDS Sensors, TLAPS

-----------------------------------------------------------------------------
(* The driver and the chip. *)

Pair == [d : Driver, c : Chip]

\* What the driver believes goes together; and is true, unless a fault has come
\* between: a sensor it takes for idle is, an offset it has written is in force.
Believes(s) == s.d.started => ~s.d.known_idle
Idles(s) == s.d.known_idle => s.c.mode = "idle"
Holds(s) == s.d.written = s.d.asked => s.c.register = s.d.asked

Bus == [Transactions -> Outcomes]

LEMMA BusesAre == Buses \subseteq Bus
  BY DEF Buses, AllDone, Bus, Transactions, Outcomes

LEMMA NewIs ==
  /\ New \in Driver /\ PoweredUp \in Chip
  /\ ~New.started /\ ~New.known_idle /\ New.written # New.asked
  /\ PoweredUp.mode = "idle"
  BY Scd41Assumption DEF New, Driver, PoweredUp, Chip, Unwritten

LEMMA EnsureIdleDoes ==
  ASSUME NEW s \in Pair, NEW bus \in Bus, Believes(s)
  PROVE  LET i == EnsureIdle(s, bus)
         IN  /\ i \in Pair /\ Believes(i) /\ i.d.known_idle /\ ~i.d.started
             /\ i.d.asked = s.d.asked /\ i.d.written = s.d.written
             /\ i.c.register = s.c.register
             /\ Idles(s) /\ bus["stop"] # "lost" => Idles(i)
  BY DEF Pair, Driver, Chip, EnsureIdle, StopPeriodic, Believes, Idles

LEMMA SyncOffsetDoes ==
  ASSUME NEW s \in Pair, NEW bus \in Bus, Believes(s)
  PROVE  LET o == SyncOffset(s, bus)
         IN  /\ o \in Pair /\ Believes(o) /\ o.d.asked = s.d.asked
             /\ Holds(s) => Holds(o)
             /\ Idles(s) /\ bus["stop"] # "lost" => Idles(o)
<1> DEFINE i == EnsureIdle(s, bus)
<1>1. /\ i \in Pair /\ Believes(i) /\ i.d.known_idle /\ ~i.d.started
      /\ i.d.asked = s.d.asked /\ i.d.written = s.d.written
      /\ i.c.register = s.c.register
      /\ Idles(s) /\ bus["stop"] # "lost" => Idles(i)
  BY EnsureIdleDoes
<1> HIDE DEF i
<1>2. CASE s.d.written = s.d.asked  BY <1>2 DEF SyncOffset
<1>3. CASE s.d.written # s.d.asked
  <2> DEFINE d2 == IF Acknowledged(i, bus, "offset")
                   THEN [i.d EXCEPT !.written = i.d.asked] ELSE i.d
             c2 == IF Obeyed(i, bus, "offset")
                   THEN [i.c EXCEPT !.register = i.d.asked] ELSE i.c
  <2>1. SyncOffset(s, bus) = [d |-> d2, c |-> c2]  BY <1>3 DEF SyncOffset, i
  <2>2. /\ d2 \in Driver /\ d2.asked = s.d.asked /\ ~d2.started
        /\ d2.known_idle
        /\ d2.written = d2.asked => Acknowledged(i, bus, "offset")
    BY <1>1, <1>3 DEF Pair, Driver
  <2>3. /\ c2 \in Chip /\ c2.mode = i.c.mode
        /\ Obeyed(i, bus, "offset") => c2.register = s.d.asked
    BY <1>1 DEF Pair, Driver, Chip
  <2>4. Acknowledged(i, bus, "offset") => Obeyed(i, bus, "offset")
    BY DEF Acknowledged, Obeyed
  <2> HIDE DEF d2, c2
  <2> QED  BY <1>1, <2>1, <2>2, <2>3, <2>4 DEF Pair, Believes, Holds, Idles
<1> QED  BY <1>2, <1>3

LEMMA StartPeriodicDoes ==
  ASSUME NEW s \in Pair, NEW bus \in Bus, Believes(s)
  PROVE  LET p == StartPeriodic(s, bus)
         IN  /\ p \in Pair /\ Believes(p) /\ p.d.asked = s.d.asked
             /\ Holds(s) => Holds(p)
             /\ (Idles(s) /\ bus["stop"] # "lost" /\ bus["start"] # "unheard") => Idles(p)
<1> DEFINE i == EnsureIdle(s, bus)
<1>1. /\ i \in Pair /\ Believes(i) /\ i.d.known_idle /\ ~i.d.started
      /\ i.d.asked = s.d.asked /\ i.d.written = s.d.written
      /\ i.c.register = s.c.register
      /\ Idles(s) /\ bus["stop"] # "lost" => Idles(i)
  BY EnsureIdleDoes
<1> HIDE DEF i
<1> DEFINE d2 == IF Acknowledged(i, bus, "start")
                 THEN [i.d EXCEPT !.started = TRUE, !.known_idle = FALSE] ELSE i.d
           c2 == IF Obeyed(i, bus, "start") THEN [i.c EXCEPT !.mode = "measuring"] ELSE i.c
<1>2. StartPeriodic(s, bus) = [d |-> d2, c |-> c2]  BY DEF StartPeriodic, i
<1>3. /\ d2 \in Driver /\ d2.asked = s.d.asked /\ d2.written = s.d.written
      /\ d2.started => ~d2.known_idle
      /\ Acknowledged(i, bus, "start") => ~d2.known_idle
  BY <1>1 DEF Pair, Driver
<1>4. /\ c2 \in Chip /\ c2.register = s.c.register
      /\ ~Obeyed(i, bus, "start") => c2.mode = i.c.mode
  BY <1>1 DEF Pair, Chip
<1>5. bus["start"] # "unheard" /\ Obeyed(i, bus, "start") => Acknowledged(i, bus, "start")
  BY DEF Bus, Transactions, Outcomes, Obeyed, Acknowledged
<1> HIDE DEF d2, c2
<1> QED  BY <1>1, <1>2, <1>3, <1>4, <1>5 DEF Pair, Believes, Holds, Idles

\* A round with the sensor keeps all of it, and a reading is of the offset asked for.
LEMMA SampleDoes ==
  ASSUME NEW s \in Pair, NEW bus \in Bus, Believes(s)
  PROVE  LET r == Sample(s, bus)
         IN  /\ r.s \in Pair /\ Believes(r.s) /\ r.s.d.asked = s.d.asked
             /\ Holds(s) => Holds(r.s)
             /\ (Idles(s) /\ bus["stop"] # "lost" /\ bus["start"] # "unheard") => Idles(r.s)
             /\ r.said = "readings" => r.s.d.written = r.s.d.asked
             /\ r.said \in Said
<1> DEFINE o == SyncOffset(s, bus)
           p == StartPeriodic(o, bus)
<1>1. /\ o \in Pair /\ Believes(o) /\ o.d.asked = s.d.asked
      /\ Holds(s) => Holds(o)
      /\ Idles(s) /\ bus["stop"] # "lost" => Idles(o)
  BY SyncOffsetDoes
<1> HIDE DEF o
<1>2. /\ p \in Pair /\ Believes(p) /\ p.d.asked = o.d.asked
      /\ Holds(o) => Holds(p)
      /\ (Idles(o) /\ bus["stop"] # "lost" /\ bus["start"] # "unheard") => Idles(p)
  BY <1>1, StartPeriodicDoes
<1> HIDE DEF p
<1>3. CASE o.d.written # o.d.asked
  <2>1. Sample(s, bus) = [s |-> o, said |-> "OffsetRejected"]
    BY <1>3 DEF Sample, o
  <2> QED  BY <1>1, <2>1 DEF Said
<1>4. CASE o.d.written = o.d.asked /\ ~o.d.started
  <2>1. Sample(s, bus) =
          [s |-> p, said |-> IF p.d.started THEN "Warming" ELSE "StartRejected"]
    BY <1>4 DEF Sample, o, p
  <2> QED  BY <1>1, <1>2, <2>1 DEF Said
<1>5. CASE o.d.written = o.d.asked /\ o.d.started
  <2>1. PICK what \in Said : Sample(s, bus) = [s |-> o, said |-> what]
    BY <1>5 DEF Sample, Said, o
  <2> QED  BY <1>1, <1>5, <2>1
<1> QED  BY <1>3, <1>4, <1>5

-----------------------------------------------------------------------------
(* The board. *)

Measures == {"probe", "sht31", "scd41", "gas"}

Co2Inv ==
  /\ scd \in Pair /\ tuned \in Offsets /\ Believes(scd)
  /\ Idles(scd) \/ deaf
  /\ Holds(scd) \/ cut
  /\ pc \in Measures => scd.d.asked = tuned
  /\ pc = "gas" /\ said = "readings" => scd.d.written = scd.d.asked

LEMMA Co2Means == Co2Inv => KnowsTheSensor /\ OffsetInForce
  BY DEF Co2Inv, KnowsTheSensor, OffsetInForce, Wedged, Believes, Idles, Holds, Measures

Probes == \E bus \in Buses, answer \in Answers : Probe(bus, answer)
Senses == \E bus \in Buses : MeasureScd41(bus)
Sends == \E arrives, written \in BOOLEAN, offset \in Offsets : Send(arrives, offset, written)
Warms ==
  \/ \E outcome \in Outcomes : FanOn(outcome) \/ Park(outcome)
  \/ \E agrees \in BOOLEAN : Frame(agrees)
  \/ Silence
Else ==
  \/ \E answers \in BOOLEAN : MeasureSht31(answers)
  \/ \E up \in BOOLEAN : Link(up)
  \/ \E answer \in Answers : Tick(answer)
  \/ \E flavor \in Told \cup {""} : Tell(flavor)
  \/ ProbedAlready \/ CollectGas

LEMMA Steps ==
  ASSUME Next
  PROVE  Begin \/ Probes \/ Senses \/ Warms \/ Sends \/ Else \/ Reset \/ ScdPowerCut
  BY DEF Next, Step, Probes, Senses, Warms, Sends, Else

LEMMA RestartsKeep ==
  ASSUME Co2Inv, Restarts, tuned' \in Offsets
  PROVE  Co2Inv'
<1>1. scd' = [scd EXCEPT !.d = New] /\ pc' = "begin"  BY DEF Restarts
<1>2. scd' \in Pair /\ scd'.d = New  BY <1>1, NewIs DEF Co2Inv, Pair
<1> QED  BY <1>1, <1>2, NewIs DEF Co2Inv, Believes, Idles, Holds, Measures

LEMMA BeginKeeps ==
  ASSUME Co2Inv, Begin
  PROVE  Co2Inv'
<1> DEFINE d2 == SetTemperatureOffset(scd.d, tuned)
<1>1. /\ scd' = [scd EXCEPT !.d = d2] /\ pc' = "probe"
      /\ tuned' = tuned /\ deaf' = deaf /\ cut' = cut
  BY DEF Begin, identity
<1>2. /\ d2 \in Driver /\ d2.asked = tuned
      /\ d2.started = scd.d.started /\ d2.known_idle = scd.d.known_idle
      /\ d2.written = d2.asked => d2 = scd.d
  <2>1. scd.d \in Driver /\ tuned \in Offsets  BY DEF Co2Inv, Pair
  <2>2. CASE tuned = scd.d.asked  BY <2>1, <2>2 DEF SetTemperatureOffset
  <2>3. CASE tuned # scd.d.asked
    <3>1. d2 = [scd.d EXCEPT !.asked = tuned, !.written = Unwritten]
      BY <2>3 DEF SetTemperatureOffset
    <3>2. Unwritten # tuned  BY <2>1, Scd41Assumption DEF Unwritten
    <3> QED  BY <2>1, <3>1, <3>2 DEF Driver
  <2> QED  BY <2>2, <2>3
<1> HIDE DEF d2
<1>3. scd' \in Pair /\ scd'.d = d2 /\ scd'.c = scd.c  BY <1>1, <1>2 DEF Co2Inv, Pair
<1> QED  BY <1>1, <1>2, <1>3 DEF Co2Inv, Believes, Idles, Holds

LEMMA ProbesKeep ==
  ASSUME Co2Inv, Probes
  PROVE  Co2Inv'
<1>1. PICK bus \in Buses, answer \in Answers : Probe(bus, answer)  BY DEF Probes
<1>2. bus \in Bus  BY BusesAre
<1> DEFINE i == EnsureIdle(scd, bus)
<1>3. /\ i \in Pair /\ Believes(i) /\ i.d.asked = scd.d.asked
      /\ Holds(scd) => Holds(i)
      /\ Idles(scd) /\ bus["stop"] # "lost" => Idles(i)
  BY <1>2, EnsureIdleDoes DEF Co2Inv, Holds
<1>4. /\ scd' = i \/ scd' = scd
      /\ deaf' = (deaf \/ bus["stop"] = "lost") /\ cut' = cut
      /\ tuned' = tuned /\ pc = "probe" /\ pc' = "sht31"
  BY <1>1 DEF Probe, SerialNumber, identity
<1> HIDE DEF i
<1> QED  BY <1>3, <1>4 DEF Co2Inv, Measures

LEMMA SensesKeep ==
  ASSUME Co2Inv, Senses
  PROVE  Co2Inv'
<1>1. PICK bus \in Buses : MeasureScd41(bus)  BY DEF Senses
<1>2. bus \in Bus  BY BusesAre
<1> DEFINE r == Sample(scd, bus)
           i == EnsureIdle(r.s, bus)
<1>3. /\ r.s \in Pair /\ Believes(r.s) /\ r.s.d.asked = scd.d.asked
      /\ Holds(scd) => Holds(r.s)
      /\ (Idles(scd) /\ bus["stop"] # "lost" /\ bus["start"] # "unheard") => Idles(r.s)
      /\ r.said = "readings" => r.s.d.written = r.s.d.asked
  BY <1>2, SampleDoes DEF Co2Inv
<1>4. /\ scd' = r.s \/ (scd' = i /\ r.said # "readings")
      /\ said' = r.said
      /\ deaf' = (deaf \/ bus["stop"] = "lost" \/ bus["start"] = "unheard") /\ cut' = cut
      /\ tuned' = tuned /\ pc = "scd41" /\ pc' = "gas"
  BY <1>1 DEF MeasureScd41, SelfTest, identity
<1> HIDE DEF r
<1>5. /\ i \in Pair /\ Believes(i) /\ i.d.asked = r.s.d.asked
      /\ Holds(r.s) => Holds(i)
      /\ Idles(r.s) /\ bus["stop"] # "lost" => Idles(i)
  BY <1>2, <1>3, EnsureIdleDoes DEF Holds
<1> HIDE DEF i
<1> QED  BY <1>3, <1>4, <1>5 DEF Co2Inv, Measures

LEMMA OthersKeep ==
  ASSUME Co2Inv, Warms \/ Else
  PROVE  Co2Inv'
<1>1. /\ UNCHANGED <<scd, tuned, deaf, cut, said>>
      /\ pc' \in Measures => pc \in Measures
      /\ pc' = "gas" => pc = "gas"
  BY DEF Warms, Else, FanOn, Park, Frame, Silence, MeasureSht31, Link, Tick, Tell,
    ProbedAlready, CollectGas, co2, identity, Measures
<1> QED  BY <1>1 DEF Co2Inv, Believes, Idles, Holds

LEMMA PowerCutKeeps ==
  ASSUME Co2Inv, ScdPowerCut
  PROVE  Co2Inv'
<1>1. /\ scd' = [scd EXCEPT !.c = PoweredUp] /\ cut' = TRUE
      /\ UNCHANGED <<tuned, pc, said>>
  BY DEF ScdPowerCut, identity
<1>2. scd' \in Pair /\ scd'.d = scd.d /\ scd'.c = PoweredUp
  BY <1>1, NewIs DEF Co2Inv, Pair
<1> QED  BY <1>1, <1>2, NewIs DEF Co2Inv, Believes, Idles

LEMMA SendsKeep ==
  ASSUME Co2Inv, Sends
  PROVE  Co2Inv'
<1>1. PICK arrives \in BOOLEAN, written \in BOOLEAN, offset \in Offsets :
        Send(arrives, offset, written)
  BY DEF Sends
<1>2. tuned' \in Offsets  BY <1>1 DEF Send, Co2Inv
<1>3. \/ Restarts
      \/ pc' = "rest" /\ UNCHANGED <<scd, deaf, cut, said>>
  BY <1>1 DEF Send, co2
<1>4. CASE Restarts  BY <1>2, <1>4, RestartsKeep
<1>5. CASE pc' = "rest" /\ UNCHANGED <<scd, deaf, cut, said>>
  BY <1>2, <1>5 DEF Co2Inv, Believes, Idles, Holds, Measures
<1> QED  BY <1>3, <1>4, <1>5

LEMMA Co2Holds == Spec => []Co2Inv
<1>1. Init => Co2Inv
  <2> SUFFICES ASSUME Init PROVE Co2Inv  OBVIOUS
  <2>1. scd = [d |-> New, c |-> PoweredUp] /\ pc = "begin" /\ tuned \in Offsets
    BY Scd41Assumption DEF Init
  <2>2. scd \in Pair /\ scd.d = New /\ scd.c = PoweredUp  BY <2>1, NewIs DEF Pair
  <2> QED  BY <2>1, <2>2, NewIs DEF Co2Inv, Believes, Idles, Holds, Measures
<1>2. Co2Inv /\ [Next]_vars => Co2Inv'
  <2> SUFFICES ASSUME Co2Inv, [Next]_vars PROVE Co2Inv'  OBVIOUS
  <2>1. CASE UNCHANGED vars
    BY <2>1 DEF vars, co2, identity, Co2Inv, Believes, Idles, Holds
  <2>2. CASE Reset  BY <2>2, RestartsKeep DEF Reset, Co2Inv
  <2>3. CASE Next
    BY <2>2, <2>3, Steps, BeginKeeps, ProbesKeep, SensesKeep, OthersKeep, PowerCutKeeps,
       SendsKeep
  <2> QED  BY <2>1, <2>3
<1> QED  BY <1>1, <1>2, PTL DEF Spec

\* The driver takes the SCD41 for idle while it measures only after a bus fault
\* of this boot (src/sensors/scd41.rs ensure_idle, stop_periodic).
THEOREM SensorIsKnown == Spec => []KnowsTheSensor
  BY Co2Holds, Co2Means, PTL

\* A CO2 reading was measured with the offset the owner has set, unless the
\* sensor alone was without power (src/sensors/scd41.rs sync_offset).
THEOREM OffsetIsInForce == Spec => []OffsetInForce
  BY Co2Holds, Co2Means, PTL

-----------------------------------------------------------------------------
(* The fan. *)

\* Outside the warm-up and the stop that ends it, a fan that runs was not meant to.
FanInv == pc \notin {"warm", "park"} /\ fan => stray # "no"

\* Between two rounds the fan stands still, unless the board came up or restarted
\* with it running, the command that stops it was lost, or one that starts it
\* failed: of these the last is an error path of src/sensors/sds011.rs measure
\* that leaves it running (432-434).
THEOREM FanIsParked == Spec => []FanParked
<1>1. Init => FanInv  BY DEF Init, FanInv
<1>2. FanInv /\ [Next]_vars => FanInv'
  <2> SUFFICES ASSUME FanInv, [Next]_vars PROVE FanInv'  OBVIOUS
  <2>1. CASE UNCHANGED vars  BY <2>1 DEF vars, dust, FanInv
  <2>2. CASE Begin \/ Probes \/ Senses \/ Else \/ ScdPowerCut
    <3>1. \/ fan' = fan /\ stray' = stray /\ pc \notin {"warm", "park"}
          \/ UNCHANGED <<fan, stray, pc>>
      BY <2>2 DEF Begin, Probes, Senses, Else, ScdPowerCut, Probe, MeasureScd41, MeasureSht31,
        Link, Tick, Tell, ProbedAlready, CollectGas, dust
    <3> QED  BY <3>1 DEF FanInv
  <2>3. CASE Warms
    <3>1. ASSUME NEW outcome \in Outcomes, FanOn(outcome) PROVE FanInv'
      BY <3>1 DEF FanOn, FanInv
    <3>2. ASSUME NEW outcome \in Outcomes, Park(outcome) PROVE FanInv'
      BY <3>2 DEF Park, FanInv
    <3>3. ASSUME NEW agrees \in BOOLEAN, Frame(agrees) PROVE FanInv'
      BY <3>3 DEF Frame, FanInv
    <3>4. CASE Silence  BY <3>4 DEF Silence, FanInv
    <3> QED  BY <2>3, <3>1, <3>2, <3>3, <3>4 DEF Warms
  <2>4. ASSUME Restarts PROVE FanInv'  BY <2>4 DEF Restarts, FanInv
  <2>5. CASE Sends
    <3>1. PICK arrives \in BOOLEAN, written \in BOOLEAN, offset \in Offsets :
            Send(arrives, offset, written)
      BY <2>5 DEF Sends
    <3>2. Restarts \/ (pc = "send" /\ UNCHANGED <<fan, stray>>)  BY <3>1 DEF Send, dust
    <3> QED  BY <2>4, <3>2 DEF FanInv
  <2>6. CASE Reset  BY <2>4, <2>6 DEF Reset
  <2> QED  BY <2>1, <2>2, <2>3, <2>5, <2>6, Steps
<1>3. FanInv => FanParked  BY DEF FanInv, FanParked
<1> QED  BY <1>1, <1>2, <1>3, PTL DEF Spec

-----------------------------------------------------------------------------
(* Types: the gas sensor, the flavors, the samples. *)

LEMMA GasFields ==
  ASSUME NEW g \in Gas
  PROVE  /\ g.conditioning \in 0..CONDITIONING_STEPS /\ g.processed \in 0..(BLACKOUT + 1)
         /\ g.failures \in 0..FAILURES_BEFORE_BACKOFF /\ g.skip \in 0..BACKOFF_TICKS
  BY DEF Gas

LEMMA DetectTyped ==
  ASSUME NEW g \in Gas, NEW answer
  PROVE  Detect(g, answer) \in Gas
<1>1. Detect(g, answer) \in {g, [g EXCEPT !.part = "Sgp41", !.fault = FALSE],
        [g EXCEPT !.part = "Sgp40", !.conditioning = 0, !.fault = FALSE], [g EXCEPT !.fault = TRUE]}
  BY DEF Detect
<1>2. 0 \in 0..CONDITIONING_STEPS  BY Sgp41Assumption
<1>3. [g EXCEPT !.fault = TRUE] \in Gas  BY DEF Gas
<1>4. [g EXCEPT !.part = "Sgp41", !.fault = FALSE] \in Gas  BY DEF Gas
<1>5. [g EXCEPT !.part = "Sgp40", !.conditioning = 0, !.fault = FALSE] \in Gas  BY <1>2 DEF Gas
<1> QED  BY <1>1, <1>3, <1>4, <1>5

LEMMA SampleOnceTyped ==
  ASSUME NEW g \in Gas, NEW answer
  PROVE  SampleOnce(g, answer) \in Gas
<1> DEFINE d == Detect(g, answer)
<1>1. d \in Gas  BY DetectTyped
<1> HIDE DEF d
<1>2. CASE d.part = "none"
  <2>1. SampleOnce(g, answer) = [d EXCEPT !.latest = "none"]  BY <1>2 DEF SampleOnce, d
  <2> QED  BY <1>1, <2>1 DEF Gas
<1>3. CASE d.part # "none" /\ d.conditioning > 0
  <2>1. SampleOnce(g, answer) = [d EXCEPT !.conditioning = @ - 1]
    BY <1>3 DEF SampleOnce, d
  <2>2. d.conditioning - 1 \in 0..CONDITIONING_STEPS  BY <1>1, <1>3, GasFields, Sgp41Assumption
  <2> QED  BY <1>1, <2>1, <2>2 DEF Gas
<1>4. CASE d.part # "none" /\ d.conditioning = 0 /\ answer = "silent"
  <2>1. SampleOnce(g, answer) = [d EXCEPT !.fault = TRUE]  BY <1>4 DEF SampleOnce, d
  <2> QED  BY <1>1, <2>1 DEF Gas
<1>5. CASE d.part # "none" /\ d.conditioning = 0 /\ answer # "silent"
  <2>1. SampleOnce(g, answer) = Processed(d, answer)  BY <1>5 DEF SampleOnce, d
  <2> DEFINE n == IF d.processed > BLACKOUT THEN d.processed ELSE d.processed + 1
             nox == d.part = "Sgp41" /\ answer = "both"
             now == CASE n <= BLACKOUT -> "none"
                      [] n > BLACKOUT /\ nox -> "voc and nox"
                      [] OTHER -> "voc"
  <2>2. n \in 0..(BLACKOUT + 1)  BY <1>1, GasFields, Sgp41Assumption
  <2>3. Processed(d, answer) = [d EXCEPT !.processed = n, !.fault = FALSE, !.latest = now]
    BY DEF Processed
  <2> HIDE DEF n, nox
  <2>4. now \in {"none", "voc", "voc and nox"}  OBVIOUS
  <2> HIDE DEF now
  <2>5. [d EXCEPT !.processed = n, !.fault = FALSE, !.latest = now] \in Gas
    BY <1>1, <2>2, <2>4 DEF Gas
  <2> QED  BY <2>1, <2>3, <2>5
<1>6. d.conditioning > 0 \/ d.conditioning = 0  BY <1>1, GasFields, Sgp41Assumption
<1> QED  BY <1>2, <1>3, <1>4, <1>5, <1>6

LEMMA StepGasTyped ==
  ASSUME NEW g \in Gas, NEW answer
  PROVE  StepGas(g, answer) \in Gas
<1>1. CASE Due(g)
  <2> DEFINE d == SampleOnce(g, answer)
  <2>1. d \in Gas  BY SampleOnceTyped
  <2> HIDE DEF d
  <2>2. Record(d) \in Gas
    <3> DEFINE n == IF d.failures < FAILURES_BEFORE_BACKOFF THEN d.failures + 1 ELSE d.failures
               skip == IF n >= FAILURES_BEFORE_BACKOFF THEN BACKOFF_TICKS ELSE d.skip
    <3>1. n \in 0..FAILURES_BEFORE_BACKOFF /\ skip \in 0..BACKOFF_TICKS
          /\ 0 \in 0..FAILURES_BEFORE_BACKOFF /\ 0 \in 0..BACKOFF_TICKS
      BY <2>1, GasFields, Sgp41Assumption
    <3>2. Record(d) = IF ~d.fault THEN [d EXCEPT !.failures = 0, !.skip = 0]
                      ELSE [d EXCEPT !.failures = n, !.skip = skip]
      BY DEF Record
    <3> QED  BY <2>1, <3>1, <3>2 DEF Gas
  <2> QED  BY <1>1, <2>2 DEF StepGas, d
<1>2. CASE ~Due(g)
  <2>1. g.skip - 1 \in 0..BACKOFF_TICKS  BY <1>2, GasFields, Sgp41Assumption DEF Due
  <2> QED  BY <1>2, <2>1 DEF StepGas, NotDue, Gas
<1> QED  BY <1>1, <1>2

LEMMA NewGasTyped == NewGas \in Gas
  BY Sgp41Assumption DEF NewGas, Gas

\* What the types of the samples need to know of a flavor.
TopicPrefixes == {"", "scd41_", "battery_"}
Sound(slot) == slot.prefix \in TopicPrefixes /\ slot.period_secs \in Nat

LEMMA FlavorsAre ==
  ASSUME NEW n \in FLAVORS
  PROVE  /\ Sound(n.sht31) /\ Sound(n.scd41) /\ Sound(n.sds011) /\ Sound(n.sgp41) /\ Sound(On)
         /\ n.sample_secs \in {60, 120}
<1> USE DEF Sound, TopicPrefixes
<1>1. /\ Sound(On) /\ Sound(Off) /\ \A p \in TopicPrefixes : Sound(OnAs(p))
      /\ \A p \in TopicPrefixes : \A keys : Sound(Keeping(OnAs(p), keys))
      /\ Sound(Every(Compensated(On), FAN_PERIOD_SECS)) /\ Sound(WithNox(On))
  BY FleetAssumption DEF On, Off, OnAs, Keeping, Every, WithNox, Compensated
<1>2. CASE n = CLIMATE  BY <1>1, <1>2 DEF CLIMATE, NodeConfig
<1>3. CASE n = CLIMATE_CO2  BY <1>1, <1>3 DEF CLIMATE_CO2, NodeConfig
<1>4. CASE n = AIR_QUALITY  BY <1>1, <1>4 DEF AIR_QUALITY, NodeConfig
<1>5. CASE n = BIRD_SCALE  BY <1>1, <1>5 DEF BIRD_SCALE, NodeConfig
<1>6. CASE n = SOLAR_LAMP  BY <1>1, <1>6 DEF SOLAR_LAMP, NodeConfig
<1> QED  BY <1>2, <1>3, <1>4, <1>5, <1>6 DEF FLAVORS

LEMMA PeriodIs ==
  ASSUME NEW n \in FLAVORS
  PROVE  RoundsBetween(n.sds011, n.sample_secs) \in Nat \ {0}
<1>1. n.sds011.period_secs \in Nat /\ n.sample_secs \in {60, 120}
  BY FlavorsAre DEF Sound
<1>2. \A k \in Nat : (k + 60 - 1) \div 60 \in Nat /\ (k + 120 - 1) \div 120 \in Nat
  OBVIOUS
<1> QED  BY <1>1, <1>2 DEF RoundsBetween

LEMMA IdentityIs ==
  ASSUME NEW o
  PROVE  Identity(o, BuiltAs) \in FLAVORS
<1>1. \E n \in FLAVORS : n.flavor = BuiltAs  BY SensorsAssumption
<1>2. Named(o) # {} => \E n \in FLAVORS : n.flavor = o  BY DEF Named
<1> QED  BY <1>1, <1>2 DEF Identity

Keys ==
  {"temperature", "humidity", "co2", "pm25", "pm10", "pm25_raw", "pm10_raw", "voc_index",
   "nox_index", "rssi", "reset_reason", "reset_count", "boot_count"}

LEMMA TopicsTyped ==
  ASSUME NEW slot, Sound(slot), NEW keys \in Seq(Keys)
  PROVE  TopicsOf(slot, keys) \in Seq(Topics)
<1>1. \A i \in 1..Len(keys) : StateTopic(PrefixFor(slot, keys[i]), keys[i]) \in Topics
  <2> SUFFICES ASSUME NEW i \in 1..Len(keys)
               PROVE  StateTopic(PrefixFor(slot, keys[i]), keys[i]) \in Topics
    OBVIOUS
  <2>1. keys[i] \in Keys  OBVIOUS
  <2>2. PrefixFor(slot, keys[i]) \in TopicPrefixes  BY DEF PrefixFor, Sound, TopicPrefixes
  <2> QED  BY <2>1, <2>2 DEF StateTopic, Topics, Keys, TopicPrefixes
<1>2. Len(keys) \in Nat  OBVIOUS
<1> QED  BY <1>1, <1>2 DEF TopicsOf

LEMMA KeysTyped ==
  /\ RESET_KEYS \in Seq(Keys) /\ SHT31_KEYS \in Seq(Keys) /\ SCD41_KEYS \in Seq(Keys)
  /\ <<"rssi">> \in Seq(Keys) /\ \A g \in Gas : GasReadings(g) \in Seq(Keys)
  /\ <<>> \in Seq(Keys) /\ <<"pm25", "pm10">> \in Seq(Keys)
  /\ <<"pm25_raw", "pm10_raw">> \in Seq(Keys)
  /\ <<"pm25_raw", "pm10_raw", "pm25", "pm10">> \in Seq(Keys)
<1> USE DEF Keys
<1>1. \A a, b, c \in Keys : <<a, b, c>> \in Seq(Keys) /\ <<a, b>> \in Seq(Keys) /\ <<a>> \in Seq(Keys)
  OBVIOUS
<1>2. \A a, b, c, d \in Keys : <<a, b, c, d>> \in Seq(Keys)  OBVIOUS
<1>3. <<>> \in Seq(Keys)  OBVIOUS
<1>4. \A g \in Gas : GasReadings(g) \in Seq(Keys)  BY <1>1, <1>3 DEF GasReadings
<1> QED  BY <1>1, <1>2, <1>3, <1>4 DEF RESET_KEYS, SHT31_KEYS, SCD41_KEYS

Room == {s \in Seq(Topics) : Len(s) <= MAX_SAMPLES}

LEMMA PushesTyped ==
  ASSUME out \in Room, NEW topics \in Seq(Topics), PushesAll(topics), dropped \in BOOLEAN
  PROVE  out' \in Room /\ dropped' \in BOOLEAN
<1> DEFINE all == out \o topics
           k == IF Len(all) < MAX_SAMPLES THEN Len(all) ELSE MAX_SAMPLES
<1>1. all \in Seq(Topics) /\ Len(all) \in Nat  BY DEF Room
<1> HIDE DEF all
<1>2. k \in 0..Len(all) /\ k <= MAX_SAMPLES  BY <1>1, SensorsAssumption
<1>3. out' = SubSeq(all, 1, k)  BY DEF PushesAll, Cut, all
<1>4. SubSeq(all, 1, k) \in Seq(Topics) /\ Len(SubSeq(all, 1, k)) = k
  BY <1>1, <1>2
<1> QED  BY <1>2, <1>3, <1>4 DEF Room, PushesAll

-----------------------------------------------------------------------------
(* Types: the board. *)

LEMMA Numbers ==
  /\ MAX_SAMPLES \in Nat /\ MAX_SAMPLES >= 3
  /\ STABLE_FRAMES \in Nat /\ STABLE_FRAMES > 0 /\ MaxFrames \in Nat /\ GasSteps \in Nat
  /\ MaxActs \in Nat /\ MaxFaults \in Nat
  /\ SELF_TEST_AFTER \in Nat /\ SELF_TEST_AFTER > 0 /\ DEFAULT_OFFSET \in Offsets
  BY SensorsAssumption, Scd41Assumption

\* A warm-up that goes on has not yet heard frames that agree.
TInv == TypeOK /\ Co2Inv /\ (pc = "warm" => agreeing < STABLE_FRAMES)

Pcs == {"begin", "probe", "sht31", "scd41", "gas", "fan", "warm", "park", "link", "send", "rest"}
Overrides == {n.flavor : n \in FLAVORS} \cup {NoOverride}

IdentityOK == told \in Told \cup {""} /\ override \in Overrides /\ node \in FLAVORS /\ tuned \in Offsets
ScheduleOK == ticks \in 0..GasSteps /\ round \in Nat /\ probed \in BOOLEAN
Co2OK ==
  /\ scd \in Pair /\ said \in Said /\ streak \in 0..SELF_TEST_AFTER
  /\ tested \in BOOLEAN /\ deaf \in BOOLEAN /\ cut \in BOOLEAN
DustOK ==
  /\ fan \in BOOLEAN /\ stray \in {"no", "power", "start", "stop"}
  /\ frames \in 0..MaxFrames /\ agreeing \in 0..STABLE_FRAMES
  /\ pc = "warm" => agreeing < STABLE_FRAMES
SeenOK == tries \in 0..2 /\ unseen \in Nat
SamplesOK == out \in Room /\ dropped \in BOOLEAN
BoundsOK == acts \in 0..MaxActs /\ faults \in 0..MaxFaults

\* The type invariant in parts, one for each tuple of variables.
Parts ==
  /\ IdentityOK /\ pc \in Pcs /\ ScheduleOK /\ SamplesOK /\ air \in BOOLEAN
  /\ Co2OK /\ gas \in Gas /\ DustOK /\ SeenOK /\ BoundsOK

LEMMA InParts == TInv <=> Parts /\ Co2Inv
  BY DEF TInv, TypeOK, Parts, IdentityOK, Pcs, Overrides, ScheduleOK, SamplesOK, Room, Co2OK,
     DustOK, SeenOK, BoundsOK, Pair, Co2Inv

LEMMA Zeros ==
  /\ 0 \in 0..GasSteps /\ 0 \in 0..MaxFrames /\ 0 \in 0..STABLE_FRAMES
  /\ 0 \in 0..MaxActs /\ 0 \in 0..MaxFaults /\ 0 \in 0..SELF_TEST_AFTER /\ 0 \in 0..2 /\ 0 \in Nat
  BY Numbers

\* The readings of a sensor that answered join the samples.
LEMMA ReadingsTyped ==
  ASSUME SamplesOK, NEW slot, Sound(slot), NEW keys \in Seq(Keys), NEW heard,
         PushesAll(IF heard THEN TopicsOf(slot, keys) ELSE <<>>)
  PROVE  SamplesOK'
<1>1. TopicsOf(slot, keys) \in Seq(Topics) /\ <<>> \in Seq(Topics)  BY TopicsTyped
<1>2. (IF heard THEN TopicsOf(slot, keys) ELSE <<>>) \in Seq(Topics)  BY <1>1
<1> QED  BY <1>2, PushesTyped DEF SamplesOK

LEMMA Stay ==
  /\ IdentityOK /\ UNCHANGED identity => IdentityOK'
  /\ ScheduleOK /\ UNCHANGED schedule => ScheduleOK'
  /\ SamplesOK /\ UNCHANGED samples => SamplesOK'
  /\ air \in BOOLEAN /\ UNCHANGED sht => air' \in BOOLEAN
  /\ Co2OK /\ UNCHANGED co2 => Co2OK'
  /\ DustOK /\ UNCHANGED dust /\ pc' # "warm" => DustOK'
  /\ SeenOK /\ UNCHANGED seen => SeenOK'
  BY DEF IdentityOK, identity, ScheduleOK, schedule, SamplesOK, samples, sht, Co2OK, co2, DustOK,
    dust, SeenOK, seen

LEMMA CostsTyped ==
  ASSUME BoundsOK, NEW n \in Nat, Costs(n), acts' = acts
  PROVE  BoundsOK'
  BY Numbers DEF BoundsOK, Costs

LEMMA ActsTyped ==
  ASSUME BoundsOK, acts < MaxActs, acts' = acts + 1, faults' = faults
  PROVE  BoundsOK'
  BY Numbers DEF BoundsOK

LEMMA BusCostsTyped ==
  ASSUME BoundsOK, NEW bus, BusCosts(bus), acts' = acts
  PROVE  BoundsOK'
  BY CostsTyped DEF BusCosts

LEMMA AnswerCostsTyped ==
  ASSUME BoundsOK, NEW answer, AnswerCosts(answer), acts' = acts
  PROVE  BoundsOK'
  BY CostsTyped DEF AnswerCosts

LEMMA RestartsTyped ==
  ASSUME Parts, Restarts
  PROVE  /\ node' \in FLAVORS /\ pc' \in Pcs /\ ScheduleOK' /\ SamplesOK' /\ air' \in BOOLEAN
         /\ Co2OK' /\ gas' \in Gas /\ DustOK'
<1>1. node' \in FLAVORS  BY IdentityIs DEF Restarts
<1>2. pc' \in Pcs  BY DEF Restarts, Pcs
<1>3. ScheduleOK'  BY Zeros DEF Restarts, ScheduleOK
<1>4. SamplesOK'
  <2>1. out' = <<>> /\ dropped' = FALSE  BY DEF Restarts
  <2>2. <<>> \in Room  BY Numbers DEF Room
  <2> QED  BY <2>1, <2>2 DEF SamplesOK
<1>5. air' \in BOOLEAN /\ gas' \in Gas  BY NewGasTyped DEF Restarts
<1>6. Co2OK'
  <2>1. scd' = [scd EXCEPT !.d = New]  BY DEF Restarts
  <2>2. scd' \in Pair  BY <2>1, NewIs DEF Parts, Co2OK, Pair
  <2>3. 0 \in 0..SELF_TEST_AFTER  BY Numbers
  <2> QED  BY <2>2, <2>3 DEF Restarts, Co2OK, Said
<1>7. DustOK'
  <2>1. 0 \in 0..MaxFrames /\ 0 \in 0..STABLE_FRAMES  BY Numbers
  <2> QED  BY <2>1 DEF Restarts, DustOK, Parts
<1> QED  BY <1>1, <1>2, <1>3, <1>4, <1>5, <1>6, <1>7

LEMMA RoundEndsTyped ==
  ASSUME SeenOK, NEW arrives, RoundEnds(arrives)
  PROVE  SeenOK'
<1> DEFINE heard == arrives /\ \E i \in 1..Len(out) : out[i][2] = "pm25_raw"
           expired == unseen * node.sample_secs >= ExpireFor(node.sds011, node.sample_secs)
<1>1. tries' = IF heard THEN 0 ELSE tries  BY DEF RoundEnds
<1>2. unseen' = CASE heard \/ ~node.sds011.enabled -> 0
                  [] ~heard /\ node.sds011.enabled /\ expired -> unseen
                  [] OTHER -> unseen + 1
  BY DEF RoundEnds
<1> HIDE DEF heard, expired
<1>3. unseen' \in {0, unseen, unseen + 1}  BY <1>2
<1> QED  BY <1>1, <1>3 DEF SeenOK

LEMMA BeginTyped ==
  ASSUME Parts, Begin, Co2Inv'
  PROVE  Parts'
<1> USE DEF Parts
<1>1. IdentityOK' /\ air' \in BOOLEAN /\ SeenOK' /\ pc' \in Pcs /\ gas' \in Gas
  BY Stay DEF Begin, Pcs
<1>2. ScheduleOK'  BY Numbers DEF Begin, ScheduleOK
<1>3. SamplesOK'
  <2>1. out' \in Seq(Topics)  BY TopicsTyped, KeysTyped, FlavorsAre DEF Begin, IdentityOK
  <2>2. Len(out') = 3  BY DEF Begin, TopicsOf, RESET_KEYS
  <2> QED  BY <2>1, <2>2, Numbers DEF Begin, SamplesOK, Room
<1>4. Co2OK'  BY DEF Begin, Co2OK, Co2Inv
<1>5. DustOK'  BY Stay DEF Begin
<1>6. BoundsOK'  BY DEF Begin, BoundsOK
<1> QED  BY <1>1, <1>2, <1>3, <1>4, <1>5, <1>6

LEMMA ProbesTyped ==
  ASSUME Parts, Probes \/ ProbedAlready, Co2Inv'
  PROVE  Parts'
<1> USE DEF Parts
<1>1. CASE ProbedAlready
  BY <1>1, Stay DEF ProbedAlready, BoundsOK, Pcs
<1>2. ASSUME NEW bus, NEW answer, Probe(bus, answer) PROVE Parts'
  <2>1. IdentityOK' /\ air' \in BOOLEAN /\ SeenOK' /\ pc' \in Pcs /\ SamplesOK' /\ DustOK'
    BY <1>2, Stay DEF Probe, Pcs
  <2>2. ScheduleOK'  BY <1>2 DEF Probe, ScheduleOK
  <2>3. Co2OK'  BY <1>2 DEF Probe, Co2OK, Co2Inv
  <2>4. gas' \in Gas  BY <1>2, DetectTyped DEF Probe
  <2>5. BoundsOK'  BY <1>2, BusCostsTyped, AnswerCostsTyped DEF Probe
  <2> QED  BY <2>1, <2>2, <2>3, <2>4, <2>5
<1> QED  BY <1>1, <1>2 DEF Probes

LEMMA MeasureSht31Typed ==
  ASSUME Parts, NEW answers \in BOOLEAN, MeasureSht31(answers)
  PROVE  Parts'
<1> USE DEF Parts
<1>1. IdentityOK' /\ ScheduleOK' /\ Co2OK' /\ SeenOK' /\ pc' \in Pcs /\ DustOK' /\ gas' \in Gas
  BY Stay DEF MeasureSht31, Pcs
<1>2. air' \in BOOLEAN  BY DEF MeasureSht31
<1>3. SamplesOK'
  BY ReadingsTyped, KeysTyped, FlavorsAre DEF MeasureSht31, IdentityOK
<1>4. BoundsOK'  BY CostsTyped DEF MeasureSht31
<1> QED  BY <1>1, <1>2, <1>3, <1>4

LEMMA SensesTyped ==
  ASSUME Parts, Co2Inv, Senses, Co2Inv'
  PROVE  Parts'
<1> USE DEF Parts
<1>1. PICK bus \in Buses : MeasureScd41(bus)  BY DEF Senses
<1>2. IdentityOK' /\ ScheduleOK' /\ SeenOK' /\ pc' \in Pcs /\ DustOK' /\ gas' \in Gas /\ air' \in BOOLEAN
  BY <1>1, Stay DEF MeasureScd41, Pcs
<1>3. Sample(scd, bus).said \in Said  BY BusesAre, SampleDoes DEF Co2Inv
<1>4. PICK heard \in BOOLEAN :
        PushesAll(IF heard THEN TopicsOf(node.scd41, SCD41_KEYS) ELSE <<>>)
  BY <1>1 DEF MeasureScd41
<1>5. SamplesOK'
  BY <1>4, ReadingsTyped, KeysTyped, FlavorsAre DEF IdentityOK
<1>6. Co2OK'
  <2>1. streak' \in 0..SELF_TEST_AFTER
    BY <1>1, Numbers DEF MeasureScd41, Co2OK
  <2>2. said' \in Said /\ tested' \in BOOLEAN /\ deaf' \in BOOLEAN /\ cut' \in BOOLEAN
    BY <1>1, <1>3 DEF MeasureScd41, Co2OK
  <2> QED  BY <2>1, <2>2 DEF Co2OK, Co2Inv
<1>7. BoundsOK'  BY <1>1, BusCostsTyped DEF MeasureScd41
<1> QED  BY <1>2, <1>5, <1>6, <1>7

LEMMA CollectGasTyped ==
  ASSUME Parts, CollectGas
  PROVE  Parts'
<1> USE DEF Parts
<1>1. IdentityOK' /\ SeenOK' /\ pc' \in Pcs /\ Co2OK' /\ DustOK' /\ gas' \in Gas /\ air' \in BOOLEAN
  BY Stay DEF CollectGas, Pcs
<1>2. ScheduleOK'
  <2>1. Period \in Nat \ {0}  BY PeriodIs DEF Period, IdentityOK
  <2>2. (round + 1) % Period \in Nat  BY <2>1 DEF ScheduleOK
  <2> QED  BY <2>2 DEF CollectGas, ScheduleOK
<1>3. SamplesOK'
  <2>1. GasReadings(gas) \in Seq(Keys) /\ Sound(node.sgp41)
    BY KeysTyped, FlavorsAre DEF IdentityOK
  <2> QED  BY <2>1, ReadingsTyped DEF CollectGas
<1>4. BoundsOK'  BY DEF CollectGas, BoundsOK
<1> QED  BY <1>1, <1>2, <1>3, <1>4

LEMMA WarmsTyped ==
  ASSUME Parts, Warms
  PROVE  Parts'
<1> USE DEF Parts
<1>1. 0 \in 0..MaxFrames /\ 0 \in 0..STABLE_FRAMES /\ 0 < STABLE_FRAMES  BY Numbers
<1>2. IdentityOK' /\ ScheduleOK' /\ Co2OK' /\ gas' \in Gas /\ air' \in BOOLEAN /\ pc' \in Pcs
  BY Stay DEF Warms, FanOn, Park, Frame, Silence, Pcs
<1>3. ASSUME NEW outcome \in Outcomes, FanOn(outcome) PROVE Parts'
  <2>1. DustOK'  BY <1>1, <1>3 DEF FanOn, DustOK
  <2>2. SeenOK' /\ SamplesOK'  BY <1>3, Stay DEF FanOn, SeenOK
  <2>3. BoundsOK'  BY <1>3, CostsTyped DEF FanOn
  <2> QED  BY <1>2, <2>1, <2>2, <2>3
<1>4. ASSUME NEW outcome \in Outcomes, Park(outcome) PROVE Parts'
  <2>1. DustOK'  BY <1>1, <1>4 DEF Park, DustOK
  <2>2. PICK keys \in Seq(Keys) : PushesAll(TopicsOf(node.sds011, keys))
    BY <1>4, KeysTyped DEF Park
  <2>3. SamplesOK'
    BY <2>2, PushesTyped, TopicsTyped, FlavorsAre DEF SamplesOK, IdentityOK
  <2>4. BoundsOK' /\ SeenOK'  BY <1>4, CostsTyped, Stay DEF Park
  <2> QED  BY <1>2, <2>1, <2>3, <2>4
<1>5. ASSUME NEW agrees \in BOOLEAN, Frame(agrees) PROVE Parts'
  <2>1. frames' \in 0..MaxFrames  BY <1>5, Numbers DEF Frame, DustOK
  <2>2. agreeing' \in 0..STABLE_FRAMES /\ (pc' = "warm" => agreeing' < STABLE_FRAMES)
    BY <1>5, Numbers DEF Frame, DustOK
  <2>3. DustOK'  BY <1>5, <2>1, <2>2 DEF Frame, DustOK
  <2>4. SeenOK' /\ SamplesOK' /\ BoundsOK'  BY <1>5, Stay DEF Frame, BoundsOK
  <2> QED  BY <1>2, <2>3, <2>4
<1>6. CASE Silence
  <2>1. SeenOK' /\ SamplesOK' /\ BoundsOK' /\ DustOK'
    BY <1>6, Stay, CostsTyped DEF Silence
  <2> QED  BY <1>2, <2>1
<1> QED  BY <1>3, <1>4, <1>5, <1>6 DEF Warms

LEMMA LinkTyped ==
  ASSUME Parts, NEW up \in BOOLEAN, Link(up)
  PROVE  Parts'
<1> USE DEF Parts
<1>1. IdentityOK' /\ ScheduleOK' /\ Co2OK' /\ pc' \in Pcs /\ DustOK' /\ gas' \in Gas /\ air' \in BOOLEAN
  BY Stay DEF Link, Pcs
<1>2. SeenOK'  BY Stay, RoundEndsTyped DEF Link
<1>3. SamplesOK'
  <2>1. <<"rssi">> \in Seq(Keys) /\ Sound(On)  BY KeysTyped, FlavorsAre DEF IdentityOK
  <2>2. PushesAll(IF up THEN TopicsOf(On, <<"rssi">>) ELSE <<>>)  BY DEF Link
  <2> QED  BY <2>1, <2>2, ReadingsTyped
<1>4. BoundsOK'  BY CostsTyped DEF Link
<1> QED  BY <1>1, <1>2, <1>3, <1>4

LEMMA SendsTyped ==
  ASSUME Parts, Sends
  PROVE  Parts'
<1> USE DEF Parts
<1>1. PICK arrives \in BOOLEAN, written \in BOOLEAN, offset \in Offsets :
        Send(arrives, offset, written)
  BY DEF Sends
<1> DEFINE request == ProvisionRequest(told, node.flavor, override)
<1>2. tuned' \in Offsets  BY <1>1 DEF Send, IdentityOK
<1>3. BoundsOK'
  <2>1. faults' \in 0..MaxFaults
    BY <1>1, Numbers DEF Send, Costs, BoundsOK
  <2>2. acts' \in 0..MaxActs  BY <1>1, Numbers DEF Send, BoundsOK
  <2> QED  BY <2>1, <2>2 DEF BoundsOK
<1>4. CASE /\ override' \in request /\ Restarts
           /\ tries' = 0 /\ unseen' = 0 /\ UNCHANGED told
  <2>1. request \subseteq Overrides  BY DEF ProvisionRequest, Overrides, Named
  <2> HIDE DEF request
  <2>2. IdentityOK'  BY <1>2, <1>4, <2>1, RestartsTyped DEF IdentityOK
  <2>3. SeenOK'  BY <1>4 DEF SeenOK
  <2> QED  BY <1>3, <1>4, <2>2, <2>3, RestartsTyped
<1>5. CASE /\ pc' = "rest" /\ RoundEnds(arrives)
           /\ UNCHANGED <<told, override, node, schedule, samples, sht, co2, gas, dust>>
  <2>1. IdentityOK'  BY <1>2, <1>5 DEF IdentityOK
  <2> QED  BY <1>3, <1>5, <2>1, Stay, RoundEndsTyped DEF Pcs
<1> QED  BY <1>1, <1>4, <1>5 DEF Send

LEMMA TickTyped ==
  ASSUME Parts, NEW answer \in Answers, Tick(answer)
  PROVE  Parts'
<1> USE DEF Parts
<1>1. IdentityOK' /\ Co2OK' /\ SamplesOK' /\ SeenOK' /\ pc' \in Pcs /\ DustOK' /\ air' \in BOOLEAN
  BY Stay DEF Tick, Pcs
<1>2. ScheduleOK'  BY Numbers DEF Tick, ScheduleOK
<1>3. gas' \in Gas  BY StepGasTyped DEF Tick
<1>4. BoundsOK'  BY AnswerCostsTyped DEF Tick
<1> QED  BY <1>1, <1>2, <1>3, <1>4

LEMMA WorldTyped ==
  ASSUME Parts, Reset \/ ScdPowerCut \/ (\E flavor \in Told \cup {""} : Tell(flavor)), Co2Inv'
  PROVE  Parts'
<1> USE DEF Parts
<1>1. CASE Reset
  <2>1. IdentityOK'  BY <1>1, RestartsTyped DEF Reset, IdentityOK
  <2>2. SeenOK' /\ BoundsOK'  BY <1>1, Stay, CostsTyped DEF Reset
  <2> QED  BY <1>1, <2>1, <2>2, RestartsTyped DEF Reset
<1>2. CASE ScdPowerCut
  <2>1. Co2OK'  BY <1>2 DEF ScdPowerCut, Co2OK, Co2Inv
  <2>2. DustOK'  BY <1>2 DEF ScdPowerCut, DustOK, dust
  <2>3. BoundsOK'  BY <1>2, CostsTyped DEF ScdPowerCut
  <2> QED  BY <1>2, <2>1, <2>2, <2>3, Stay DEF ScdPowerCut
<1>3. ASSUME NEW flavor \in Told \cup {""}, Tell(flavor) PROVE Parts'
  <2>1. IdentityOK'  BY <1>3 DEF Tell, IdentityOK
  <2>2. DustOK'  BY <1>3 DEF Tell, DustOK, dust
  <2>3. BoundsOK'
    <3>1. acts < MaxActs /\ acts' = acts + 1 /\ faults' = faults  BY <1>3 DEF Tell
    <3> QED  BY <3>1, ActsTyped
  <2> QED  BY <1>3, <2>1, <2>2, <2>3, Stay DEF Tell
<1> QED  BY <1>1, <1>2, <1>3

LEMMA AlwaysParts == Spec => [](Parts /\ Co2Inv)
<1>1. Init => Parts
  <2> SUFFICES ASSUME Init PROVE Parts  OBVIOUS
  <2>1. IdentityOK /\ pc \in Pcs
    BY IdentityIs, Numbers DEF Init, IdentityOK, Overrides, Pcs
  <2>2. ScheduleOK /\ SeenOK /\ BoundsOK
    <3>1. ticks = 0 /\ round = 0 /\ probed = FALSE /\ tries = 0 /\ unseen = 0
          /\ acts = 0 /\ faults = 0
      BY DEF Init
    <3>2. ScheduleOK  BY <3>1, Zeros DEF ScheduleOK
    <3>3. SeenOK /\ BoundsOK  BY <3>1, Zeros DEF SeenOK, BoundsOK
    <3> QED  BY <3>2, <3>3
  <2>3. SamplesOK
    <3>1. <<>> \in Room  BY Numbers DEF Room
    <3> QED  BY <3>1 DEF Init, SamplesOK
  <2>4. Co2OK
    <3>1. scd \in Pair
      <4>1. scd = [d |-> New, c |-> PoweredUp]  BY DEF Init
      <4> QED  BY <4>1, NewIs DEF Pair
    <3> QED  BY <3>1, Zeros DEF Init, Co2OK, Said
  <2>5. DustOK  BY Zeros DEF Init, DustOK
  <2> QED  BY <2>1, <2>2, <2>3, <2>4, <2>5, NewGasTyped DEF Init, Parts
<1>2. Parts /\ Co2Inv /\ [Next]_vars /\ Co2Inv' => Parts'
  <2> SUFFICES ASSUME Parts, Co2Inv, [Next]_vars, Co2Inv' PROVE Parts'  OBVIOUS
  <2>1. CASE UNCHANGED vars
    <3>1. DustOK' /\ BoundsOK'  BY <2>1 DEF vars, dust, Parts, DustOK, BoundsOK
    <3> QED  BY <2>1, <3>1, Stay DEF vars, Parts
  <2>2. CASE Else
    BY <2>2, ProbesTyped, MeasureSht31Typed, CollectGasTyped, LinkTyped, TickTyped, WorldTyped
       DEF Else
  <2>3. CASE Next
    BY <2>2, <2>3, Steps, BeginTyped, ProbesTyped, SensesTyped, WarmsTyped, SendsTyped, WorldTyped
  <2> QED  BY <2>1, <2>3
<1> QED  BY <1>1, <1>2, Co2Holds, PTL DEF Spec

\* Every variable of a board keeps its type.
THEOREM TypeCorrect == Spec => []TypeOK
<1>1. Parts /\ Co2Inv => TypeOK  BY InParts DEF TInv
<1> QED  BY <1>1, AlwaysParts, PTL

-----------------------------------------------------------------------------
(* Dust does not expire. *)

\* How far the board is in the period of its dust sensor: from 1 in the round
\* after a measurement to Period in the round of the next one.
Turn == IF round = 0 THEN Period ELSE round

\* A measurement that failed costs one period of silence, and every round since
\* the last one costs another round.
Silent(ahead) ==
  /\ tries = 0 => unseen + ahead <= Turn
  /\ tries = 1 => unseen + ahead <= Period + Turn

Before == Measures \cup {"begin", "rest"}
After == {"warm", "park", "link", "send"}

\* The turn is counted in the middle of a round, the silence at its end.
DustInv ==
  /\ node = Identity(override, BuiltAs) /\ round < Period
  /\ node.sds011.enabled =>
       /\ pc \in Before => Silent(1)
       /\ pc = "fan" => /\ Turn = 1
                        /\ tries = 0 => unseen < Period
                        /\ tries = 1 => unseen < 2 * Period
       /\ pc \in After => Silent(2)

LEMMA RoundNumbers ==
  ASSUME IdentityOK, ScheduleOK, SeenOK
  PROVE  Period \in Nat /\ Period > 0 /\ round \in Nat /\ tries \in 0..2 /\ unseen \in Nat
<1>1. Period \in Nat \ {0}  BY PeriodIs DEF Period, IdentityOK
<1> QED  BY <1>1 DEF ScheduleOK, SeenOK

\* Two periods are less than what an entity waits before it expires.
LEMMA ExpiryIsLater ==
  ASSUME IdentityOK, NEW n \in Nat, n < 2 * Period
  PROVE  n * node.sample_secs < ExpireFor(node.sds011, node.sample_secs)
<1>1. node.sample_secs \in {60, 120}  BY FlavorsAre DEF IdentityOK
<1>2. Period \in Nat  BY PeriodIs DEF Period, IdentityOK
<1> DEFINE e == node.sample_secs * Period
<1>3. EffectiveSecs(node.sds011, node.sample_secs) = e
  BY <1>1 DEF EffectiveSecs, Period
<1>4. e \in Nat /\ n * node.sample_secs < 2 * e /\ n * node.sample_secs \in Nat
  BY <1>1, <1>2
<1> HIDE DEF e
<1>5. MISSED_ROUNDS \in Nat /\ MISSED_ROUNDS >= 2 /\ MIN_EXPIRY_SECS \in Nat
  BY FleetAssumption
<1>6. MISSED_ROUNDS * e \in Nat /\ MISSED_ROUNDS * e >= 2 * e
  <2>1. \A m, x \in Nat : m >= 2 => m * x \in Nat /\ m * x >= 2 * x  OBVIOUS
  <2> QED  BY <2>1, <1>4, <1>5
<1> DEFINE w == MISSED_ROUNDS * e
<1>7. ExpireFor(node.sds011, node.sample_secs) = IF w > MIN_EXPIRY_SECS THEN w ELSE MIN_EXPIRY_SECS
  BY <1>3 DEF ExpireFor
<1>8. w \in Nat /\ w >= 2 * e  BY <1>6
<1> HIDE DEF w
<1> QED  BY <1>4, <1>5, <1>7, <1>8

LEMMA DustInvMeans == Parts /\ DustInv => DustStays
<1> SUFFICES ASSUME Parts, DustInv, pc = "rest", node.sds011.enabled, tries <= 1
             PROVE  unseen * node.sample_secs < ExpireFor(node.sds011, node.sample_secs)
  BY DEF DustStays
<1>1. IdentityOK /\ ScheduleOK /\ SeenOK  BY DEF Parts
<1>2. unseen < 2 * Period
  BY <1>1, RoundNumbers DEF DustInv, Silent, Turn, Before
<1> QED  BY <1>1, <1>2, RoundNumbers, ExpiryIsLater

\* A step that counts nothing.
LEMMA KeepsDust ==
  ASSUME DustInv, UNCHANGED <<node, override, round, tries, unseen>>,
         \/ pc \in Before /\ pc' \in Before
         \/ pc \in After /\ pc' \in After
         \/ pc' = pc
  PROVE  DustInv'
<1>1. Period' = Period  BY DEF Period
<1>2. Turn' = Turn  BY <1>1 DEF Turn
<1>3. (Silent(1) => Silent(1)') /\ (Silent(2) => Silent(2)')  BY <1>1, <1>2 DEF Silent
<1> QED  BY <1>1, <1>2, <1>3 DEF DustInv, Before, After, Measures

LEMMA CollectGasDust ==
  ASSUME Parts, DustInv, CollectGas
  PROVE  DustInv'
<1>1. IdentityOK /\ ScheduleOK /\ SeenOK  BY DEF Parts
<1>2. /\ pc = "gas" /\ round' = (round + 1) % Period
      /\ UNCHANGED <<node, override, tries, unseen>>
      /\ pc' = IF node.sds011.enabled /\ SlotDue(node.sds011) THEN "fan" ELSE "link"
  BY DEF CollectGas, identity, seen
<1>3. Period' = Period  BY <1>2 DEF Period
<1>4. Period \in Nat /\ Period > 0 /\ round \in Nat /\ tries \in 0..2 /\ unseen \in Nat
      /\ round < Period
  BY <1>1, RoundNumbers DEF DustInv
<1>5. round' = IF round + 1 = Period THEN 0 ELSE round + 1
  BY <1>2, <1>4
<1>6. SlotDue(node.sds011) <=> round = 0  BY <1>4 DEF SlotDue, Period
<1>7. Turn' = round + 1  BY <1>3, <1>4, <1>5 DEF Turn
<1>8. node' = Identity(override', BuiltAs) /\ round' < Period'
  BY <1>2, <1>3, <1>4, <1>5 DEF DustInv
<1>9. ASSUME node.sds011.enabled
      PROVE  /\ pc' = "fan" => /\ Turn' = 1
                               /\ tries = 0 => unseen < Period
                               /\ tries = 1 => unseen < 2 * Period
             /\ pc' = "link" => Silent(2)'
  <2>1. Silent(1)  BY <1>2, <1>9 DEF DustInv, Before, Measures
  <2>2. pc' = "fan" <=> round = 0  BY <1>2, <1>6, <1>9
  <2>3. CASE round = 0
    BY <1>2, <1>4, <1>7, <2>1, <2>2, <2>3 DEF Silent, Turn
  <2>4. CASE round # 0
    <3>1. Turn' = Turn + 1  BY <1>7, <2>4 DEF Turn
    <3>2. Turn \in Nat  BY <1>4 DEF Turn
    <3> QED  BY <1>2, <1>3, <1>4, <2>1, <2>2, <2>4, <3>1, <3>2 DEF Silent
  <2> QED  BY <2>3, <2>4
<1>10. pc' \in {"fan", "link"}  BY <1>2
<1> QED  BY <1>2, <1>3, <1>8, <1>9, <1>10 DEF DustInv, Before, After, Measures

LEMMA FanOnDust ==
  ASSUME Parts, DustInv, NEW outcome, FanOn(outcome)
  PROVE  DustInv'
<1>1. IdentityOK /\ ScheduleOK /\ SeenOK  BY DEF Parts
<1>2. /\ pc = "fan" /\ pc' \in {"warm", "link"}
      /\ tries' = IF tries < 2 THEN tries + 1 ELSE tries
      /\ UNCHANGED <<node, override, round, unseen>>
  BY DEF FanOn, identity, schedule
<1>3. Period' = Period  BY <1>2 DEF Period
<1>4. Turn' = Turn  BY <1>2, <1>3 DEF Turn
<1>5. node.sds011.enabled => Silent(2)'
  <2>1. Period \in Nat /\ tries \in 0..2 /\ unseen \in Nat  BY <1>1, RoundNumbers
  <2> SUFFICES ASSUME node.sds011.enabled PROVE Silent(2)'  OBVIOUS
  <2>2. Turn' = 1 /\ (tries = 0 => unseen < Period)  BY <1>2, <1>4 DEF DustInv
  <2> QED  BY <1>2, <1>3, <2>1, <2>2 DEF Silent
<1> QED  BY <1>2, <1>3, <1>5 DEF DustInv, Before, After, Measures

LEMMA RoundEndsDust ==
  ASSUME Parts, DustInv, NEW arrives, RoundEnds(arrives),
         pc \in After, pc' = "rest", UNCHANGED <<node, override, round>>
  PROVE  DustInv'
<1>1. IdentityOK /\ ScheduleOK /\ SeenOK  BY DEF Parts
<1>2. Period' = Period  BY DEF Period
<1>3. Turn' = Turn  BY <1>2 DEF Turn
<1>4. Period \in Nat /\ Period > 0 /\ round \in Nat /\ tries \in 0..2 /\ unseen \in Nat
  BY <1>1, RoundNumbers
<1>5. Turn \in Nat /\ Turn > 0  BY <1>4 DEF Turn
<1> DEFINE heard == arrives /\ \E i \in 1..Len(out) : out[i][2] = "pm25_raw"
           expired == unseen * node.sample_secs >= ExpireFor(node.sds011, node.sample_secs)
<1>6. tries' = IF heard THEN 0 ELSE tries  BY DEF RoundEnds
<1>7. unseen' = CASE heard \/ ~node.sds011.enabled -> 0
                  [] ~heard /\ node.sds011.enabled /\ expired -> unseen
                  [] OTHER -> unseen + 1
  BY DEF RoundEnds
<1>0. heard \in BOOLEAN /\ expired \in BOOLEAN  OBVIOUS
<1> HIDE DEF heard, expired
<1>8. \/ unseen' = 0
      \/ ~heard /\ (unseen' = unseen \/ unseen' = unseen + 1)
  <2>1. CASE heard \/ ~node.sds011.enabled
    BY <1>0, <1>7, <2>1
  <2>2. CASE ~(heard \/ ~node.sds011.enabled)
    BY <1>0, <1>7, <2>2
  <2> QED  BY <2>1, <2>2
<1>9. node.sds011.enabled => Silent(2)  BY DEF DustInv
<1>10. node.sds011.enabled => Silent(1)'
  <2> SUFFICES ASSUME node.sds011.enabled PROVE Silent(1)'  OBVIOUS
  <2>1. (tries = 0 => unseen + 2 <= Turn) /\ (tries = 1 => unseen + 2 <= Period + Turn)
    BY <1>9 DEF Silent
  <2>2. tries' = 0 \/ tries' = tries  BY <1>6, <1>0
  <2>3. CASE unseen' = 0  BY <1>2, <1>3, <1>4, <1>5, <2>2, <2>3 DEF Silent
  <2>4. CASE ~heard /\ (unseen' = unseen \/ unseen' = unseen + 1)
    BY <1>2, <1>3, <1>4, <1>5, <1>6, <2>1, <2>4 DEF Silent
  <2> QED  BY <1>8, <2>3, <2>4
<1> QED  BY <1>2, <1>10 DEF DustInv, Before, After, Measures

\* A restart goes back to the round in which dust is measured.
LEMMA RestartsDust ==
  ASSUME Parts, Parts', DustInv, Restarts,
         \/ UNCHANGED <<override, tries, unseen>>
         \/ tries' = 0 /\ unseen' = 0
  PROVE  DustInv'
<1>1. node' = Identity(override', BuiltAs) /\ round' = 0 /\ pc' = "begin"  BY DEF Restarts
<1>2. IdentityOK /\ ScheduleOK /\ SeenOK /\ IdentityOK' /\ ScheduleOK' /\ SeenOK'  BY DEF Parts
<1>3. Period' \in Nat /\ Period' > 0
  <2>1. node' \in FLAVORS  BY <1>2 DEF IdentityOK
  <2>2. RoundsBetween(node'.sds011, node'.sample_secs) \in Nat \ {0}  BY <2>1, PeriodIs
  <2> QED  BY <2>2 DEF Period
<1>4. Turn' = Period'  BY <1>1 DEF Turn
<1>5. node'.sds011.enabled => Silent(1)'
  <2>1. CASE tries' = 0 /\ unseen' = 0  BY <1>3, <1>4, <2>1 DEF Silent
  <2>2. CASE UNCHANGED <<override, tries, unseen>>
    <3>1. node' = node  BY <1>1, <2>2 DEF DustInv
    <3>2. Period' = Period  BY <3>1 DEF Period
    <3>3. Period \in Nat /\ Period > 0 /\ round \in Nat /\ tries \in 0..2 /\ unseen \in Nat
      BY <1>2, RoundNumbers
    <3>4. Turn \in Nat /\ Turn <= Period  BY <3>3 DEF Turn, DustInv
    <3>5. pc \in Before \cup After \cup {"fan"}  BY DEF Parts, Pcs, Before, After, Measures
    <3>6. node.sds011.enabled =>
            (tries = 0 => unseen < Period) /\ (tries = 1 => unseen < 2 * Period)
      BY <3>3, <3>4, <3>5 DEF DustInv, Silent
    <3> QED  BY <1>4, <2>2, <3>1, <3>2, <3>3, <3>6 DEF Silent
  <2> QED  BY <2>1, <2>2
<1> QED  BY <1>1, <1>3, <1>5 DEF DustInv, Before, After, Measures

LEMMA SendsDust ==
  ASSUME Parts, Parts', DustInv, Sends
  PROVE  DustInv'
<1>1. PICK arrives \in BOOLEAN, written \in BOOLEAN, offset \in Offsets :
        Send(arrives, offset, written)
  BY DEF Sends
<1>2. CASE Restarts /\ tries' = 0 /\ unseen' = 0  BY <1>2, RestartsDust
<1>3. CASE pc' = "rest" /\ RoundEnds(arrives) /\ UNCHANGED <<override, node, schedule>>
  <2>1. pc \in After /\ round' = round  BY <1>1, <1>3 DEF Send, After, schedule
  <2> QED  BY <1>3, <2>1, RoundEndsDust
<1> QED  BY <1>1, <1>2, <1>3 DEF Send

LEMMA LinkDust ==
  ASSUME Parts, DustInv, NEW up \in BOOLEAN, Link(up)
  PROVE  DustInv'
<1>1. pc \in After /\ UNCHANGED <<node, override, round>>
  BY DEF Link, After, identity, schedule
<1>2. CASE up
  <2>1. pc' \in After /\ UNCHANGED <<tries, unseen>>  BY <1>2 DEF Link, After, seen
  <2> QED  BY <1>1, <2>1, KeepsDust
<1>3. CASE ~up
  BY <1>1, <1>3, RoundEndsDust DEF Link
<1> QED  BY <1>2, <1>3

\* The steps that count nothing.
LEMMA OthersDust ==
  ASSUME DustInv,
         \/ Begin \/ Probes \/ ProbedAlready \/ Senses
         \/ \E answers \in BOOLEAN : MeasureSht31(answers)
         \/ \E answer \in Answers : Tick(answer)
         \/ \E flavor \in Told \cup {""} : Tell(flavor)
         \/ \E agrees \in BOOLEAN : Frame(agrees)
         \/ \E outcome \in Outcomes : Park(outcome)
         \/ Silence \/ ScdPowerCut \/ UNCHANGED vars
  PROVE  DustInv'
<1>1. UNCHANGED <<node, override, round, tries, unseen>>
  BY DEF Begin, Probes, Probe, ProbedAlready, Senses, MeasureScd41, MeasureSht31, Tick, Tell,
    Frame, Park, Silence, ScdPowerCut, vars, identity, schedule, seen
<1>2. \/ pc \in Before /\ pc' \in Before
      \/ pc \in After /\ pc' \in After
      \/ pc' = pc
  BY DEF Begin, Probes, Probe, ProbedAlready, Senses, MeasureScd41, MeasureSht31, Tick, Tell,
    Frame, Park, Silence, ScdPowerCut, vars, Before, After, Measures
<1> QED  BY <1>1, <1>2, KeepsDust

\* Between two measurements of dust, and through one that fails, less time passes
\* than the announcement allows before Home Assistant shows nothing.
THEOREM DustIsFresh == Spec => []DustStays
<1>1. Init => DustInv
  <2> SUFFICES ASSUME Init PROVE DustInv  OBVIOUS
  <2>1. /\ node = Identity(override, BuiltAs) /\ round = 0 /\ pc = "begin"
        /\ tries = 0 /\ unseen = 0
    BY DEF Init
  <2>2. Period \in Nat /\ Period > 0  BY <2>1, IdentityIs, PeriodIs DEF Period
  <2> QED  BY <2>1, <2>2 DEF DustInv, Silent, Turn, Before, After, Measures
<1>2. Parts /\ Parts' /\ DustInv /\ [Next]_vars => DustInv'
  <2> SUFFICES ASSUME Parts, Parts', DustInv, [Next]_vars PROVE DustInv'  OBVIOUS
  <2>1. CASE Reset  BY <2>1, RestartsDust DEF Reset, seen
  <2>2. CASE Else  BY <2>2, OthersDust, LinkDust, CollectGasDust DEF Else
  <2>3. CASE Warms  BY <2>3, OthersDust, FanOnDust DEF Warms
  <2>4. CASE Begin \/ Probes \/ Senses \/ ScdPowerCut \/ UNCHANGED vars
    BY <2>4, OthersDust
  <2>5. CASE Next  BY <2>1, <2>2, <2>3, <2>4, <2>5, Steps, SendsDust
  <2> QED  BY <2>4, <2>5
<1>3. Parts /\ DustInv => DustStays  BY DustInvMeans
<1> QED  BY <1>1, <1>2, <1>3, AlwaysParts, PTL DEF Spec
=============================================================================
