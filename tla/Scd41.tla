------------------------------- MODULE Scd41 --------------------------------
(***************************************************************************)
(* The CO2 sensor and its driver, src/sensors/scd41.rs, in the periodic    *)
(* mode every flavor that carries one uses.  While it measures, the chip   *)
(* refuses everything but a stop, a poll and a read; the driver only knows *)
(* what it said, not what the chip heard.  A bus transaction is done, lost *)
(* on the way, or unheard: obeyed by the chip and an error for the driver. *)
(* The temperature and the humidity of a measurement are left out; the     *)
(* offset they are corrected by is kept.                                   *)
(***************************************************************************)
EXTENDS Integers

CONSTANTS Offsets, DEFAULT_OFFSET, SELF_TEST_AFTER

ASSUME Scd41Assumption ==
  /\ Offsets \subseteq Nat /\ DEFAULT_OFFSET \in Offsets
  /\ SELF_TEST_AFTER \in Nat \ {0}

Unwritten == -1
Outcomes == {"done", "lost", "unheard"}
Transactions == {"stop", "offset", "start", "poll", "read", "test"}
AllDone == [t \in Transactions |-> "done"]
\* A visit to the sensor on which at most one transaction fails.
Buses == {AllDone} \cup {[AllDone EXCEPT ![t] = o] : t \in Transactions, o \in Outcomes}

\* The driver and the chip: offset_centi, written_offset, started, known_idle;
\* what the chip is doing and the offset in its register.
Driver == [asked : Offsets, written : Offsets \cup {Unwritten},
           started : BOOLEAN, known_idle : BOOLEAN]
Chip == [mode : {"idle", "measuring"}, register : Offsets]
Said == {"nothing", "OffsetRejected", "StartRejected", "Warming", "NeverReady",
         "ReadyUnreadable", "MeasurementUnreadable", "NoValidSample", "readings"}

PoweredUp == [mode |-> "idle", register |-> DEFAULT_OFFSET]

\* slip: a fresh driver that takes the sensor to be idle
NewTrusting == [asked |-> DEFAULT_OFFSET, written |-> Unwritten,
                started |-> FALSE, known_idle |-> TRUE]

New == [asked |-> DEFAULT_OFFSET, written |-> Unwritten,
        started |-> FALSE, known_idle |-> FALSE]

\* slip: the new offset is noted and never written
SetTemperatureOffsetKept(driver, centi) == [driver EXCEPT !.asked = centi]

SetTemperatureOffset(driver, centi) ==
  IF centi = driver.asked THEN driver
  ELSE [driver EXCEPT !.asked = centi, !.written = Unwritten]

\* slip: the driver stops the sensor and still believes it started it
StopPeriodicStarted(s, bus) ==
  [d |-> [s.d EXCEPT !.known_idle = TRUE],
   c |-> IF bus["stop"] = "lost" THEN s.c ELSE [s.c EXCEPT !.mode = "idle"]]

\* stop_periodic: whether or not the command went out.
StopPeriodic(s, bus) ==
  [d |-> [s.d EXCEPT !.started = FALSE, !.known_idle = TRUE],
   c |-> IF bus["stop"] = "lost" THEN s.c ELSE [s.c EXCEPT !.mode = "idle"]]

EnsureIdle(s, bus) == IF s.d.known_idle THEN s ELSE StopPeriodic(s, bus)

\* A command a measuring chip refuses, and whether the driver saw it obeyed.
Obeyed(s, bus, t) == s.c.mode = "idle" /\ bus[t] # "lost"
Acknowledged(s, bus, t) == s.c.mode = "idle" /\ bus[t] = "done"

\* sync_offset: nothing on the bus while the offset in force is the one asked for.
SyncOffset(s, bus) ==
  LET i == EnsureIdle(s, bus)
  IN IF s.d.written = s.d.asked THEN s
     ELSE [d |-> IF Acknowledged(i, bus, "offset")
                 THEN [i.d EXCEPT !.written = i.d.asked] ELSE i.d,
           c |-> IF Obeyed(i, bus, "offset")
                 THEN [i.c EXCEPT !.register = i.d.asked] ELSE i.c]

StartPeriodic(s, bus) ==
  LET i == EnsureIdle(s, bus)
  IN [d |-> IF Acknowledged(i, bus, "start")
            THEN [i.d EXCEPT !.started = TRUE, !.known_idle = FALSE] ELSE i.d,
      c |-> IF Obeyed(i, bus, "start") THEN [i.c EXCEPT !.mode = "measuring"] ELSE i.c]

\* sample and measure, from the offset to the readings.  A measuring chip has a
\* conversion ready at every round: it takes thirty seconds, a round sixty.
Sample(s, bus) ==
  LET o == SyncOffset(s, bus)
      p == StartPeriodic(o, bus)
  IN CASE o.d.written # o.d.asked -> [s |-> o, said |-> "OffsetRejected"]
       [] o.d.written = o.d.asked /\ ~o.d.started ->
            [s |-> p, said |-> IF p.d.started THEN "Warming" ELSE "StartRejected"]
       [] OTHER ->
            [s |-> o,
             said |-> CASE bus["poll"] # "done" -> "ReadyUnreadable"
                        [] bus["poll"] = "done" /\ o.c.mode = "idle" -> "NeverReady"
                        [] bus["read"] = "lost" -> "MeasurementUnreadable"
                        [] bus["read"] = "unheard" -> "NoValidSample"
                        [] OTHER -> "readings"]

\* The chip runs the self test when it is idle, and is idle after it.
SelfTest(s, bus) == EnsureIdle(s, bus)

\* serial_number: a stop on a fresh boot, and a read.
SerialNumber(s, bus) == EnsureIdle(s, bus)

\* The chip measures and the driver will not say stop again: both the offset and
\* the start are refused from here on.
Wedged(s) == s.c.mode = "measuring" /\ s.d.known_idle /\ ~s.d.started
=============================================================================
