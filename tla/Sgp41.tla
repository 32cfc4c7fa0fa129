------------------------------- MODULE Sgp41 --------------------------------
(***************************************************************************)
(* The gas sensor and its driver, src/sensors/sgp41.rs: how it is told from *)
(* its single-channel sibling, its conditioning, the samples its indices    *)
(* are computed from, and how rarely a silent one is asked.  An index is    *)
(* what the algorithm gives once BLACKOUT samples have been processed; the  *)
(* algorithm itself and the hotplate are left out.                          *)
(***************************************************************************)
EXTENDS Naturals

CONSTANTS
  CONDITIONING_STEPS, FAILURES_BEFORE_BACKOFF, BACKOFF_TICKS,
  BLACKOUT        \* samples before the algorithm gives an index, 45 seconds

ASSUME Sgp41Assumption ==
  /\ CONDITIONING_STEPS \in Nat /\ FAILURES_BEFORE_BACKOFF \in Nat \ {0}
  /\ BACKOFF_TICKS \in Nat /\ BLACKOUT \in Nat

\* part, conditioning_left, the samples processed, latest, fault, and Cadence.
Gas == [part : {"none", "Sgp40", "Sgp41"}, conditioning : 0..CONDITIONING_STEPS,
        processed : 0..BLACKOUT + 1, latest : {"none", "voc", "voc and nox"},
        fault : BOOLEAN, failures : 0..FAILURES_BEFORE_BACKOFF, skip : 0..BACKOFF_TICKS]

NewGas == [part |-> "none", conditioning |-> CONDITIONING_STEPS, processed |-> 0,
           latest |-> "none", fault |-> FALSE, failures |-> 0, skip |-> 0]

\* What a measure command meets: both words, the first word only, nothing.
Answers == {"both", "first", "silent"}

\* detect: the six-byte answer of an SGP41, or one good word of an SGP40.
Detect(g, answer) ==
  CASE g.part # "none" -> g
    [] g.part = "none" /\ answer = "both" -> [g EXCEPT !.part = "Sgp41", !.fault = FALSE]
    [] g.part = "none" /\ answer = "first" ->
         [g EXCEPT !.part = "Sgp40", !.conditioning = 0, !.fault = FALSE]
    [] OTHER -> [g EXCEPT !.fault = TRUE]

\* The word a sample needs: an SGP40 has one.
Processed(g, answer) ==
  LET n == IF g.processed > BLACKOUT THEN g.processed ELSE g.processed + 1
      nox == g.part = "Sgp41" /\ answer = "both"
  IN [g EXCEPT !.processed = n, !.fault = FALSE,
               !.latest = CASE n <= BLACKOUT -> "none"
                            [] n > BLACKOUT /\ nox -> "voc and nox"
                            [] OTHER -> "voc"]

\* sample_once: detection, then conditioning, then a sample.  A conditioning
\* step counts whether or not the part took it; a silent part keeps its index.
SampleOnce(g, answer) ==
  LET d == Detect(g, answer)
  IN CASE d.part = "none" -> [d EXCEPT !.latest = "none"]
       [] d.part # "none" /\ d.conditioning > 0 ->
            [d EXCEPT !.conditioning = @ - 1]
       [] d.part # "none" /\ d.conditioning = 0 /\ answer = "silent" ->
            [d EXCEPT !.fault = TRUE]
       [] OTHER -> Processed(d, answer)

Due(g) == g.skip = 0

\* slip: a turn that is skipped is not counted
NotDueForever(g) == g

NotDue(g) == [g EXCEPT !.skip = @ - 1]

\* Cadence::record: a full rate again after one success.
Record(g) ==
  LET n == IF g.failures < FAILURES_BEFORE_BACKOFF THEN g.failures + 1 ELSE g.failures
  IN IF ~g.fault THEN [g EXCEPT !.failures = 0, !.skip = 0]
     ELSE [g EXCEPT !.failures = n,
                    !.skip = IF n >= FAILURES_BEFORE_BACKOFF THEN BACKOFF_TICKS ELSE @]

\* Sensors::step_gas, once a second between two rounds.
StepGas(g, answer) == IF Due(g) THEN Record(SampleOnce(g, answer)) ELSE NotDue(g)

GasReadings(g) ==
  CASE g.latest = "none" -> <<>>
    [] g.latest = "voc" -> <<"voc_index">>
    [] OTHER -> <<"voc_index", "nox_index">>
=============================================================================
