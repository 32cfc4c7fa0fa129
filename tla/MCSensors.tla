----------------------------- MODULE MCSensors ------------------------------
EXTENDS Sensors

MCTold == {"air-quality", "default", "attic"}
MCNowhere == {}
MCOffsets == {0, 400}

\* Every reading a flavor may publish has a topic of its own, none of them is one
\* that means something else, and none is cut from the announcement
\* (src/discovery.rs MAX_ENTITIES, src/node.rs prefix_for).
ASSUME ReadingsApart ==
  \A n \in FLAVORS :
    LET topics == [e \in 1..Len(Entities(n)) |-> EntityTopic(Entities(n)[e])]
    IN /\ \A i, j \in DOMAIN topics : topics[i] = topics[j] => i = j
       /\ \A i \in DOMAIN topics : topics[i] \notin OwnTopics
       /\ Len(topics) < MAX_ENTITIES

\* A round that fails is repeated later and later, and a board that sleeps comes
\* back within sixteen of its rounds however long it has failed (src/node.rs
\* sleep_backoff_factor, whose argument is a count that never wraps).
ASSUME SleepStretches ==
  \A power \in {n.power : n \in FLAVORS}, failed \in 0..40 :
    LET factor(f) == SleepBackoffFactor(f, power)
    IN /\ factor(0) = 1 /\ factor(failed) <= factor(failed + 1)
       /\ factor(failed + 1) <= 2 * factor(failed)
       /\ factor(failed) <= SleepBackoffCeiling(power)
       /\ failed >= 4 => factor(failed) = SleepBackoffCeiling(power)

\* A round has room for all of them on every board but one (src/platform.rs
\* MAX_SAMPLES, "Upper bound on the readings one round can produce").
ASSUME RoomButForDust ==
  \A n \in FLAVORS : Len(Entities(n)) > MAX_SAMPLES <=> n = AIR_QUALITY
=============================================================================
