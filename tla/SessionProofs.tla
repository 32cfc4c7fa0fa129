---------------------------- MODULE SessionProofs ----------------------------
(***************************************************************************)
(* For any number of discovery messages, any cap on the drain, any zeros   *)
(* and settings, any people and any faults: the digest is set only to what *)
(* the broker holds, no press is lost, and a measured zero stays where     *)
(* none was typed.                                                         *)
(*                                                                         *)
(* Each conjunct of the invariant has a lemma: the actions that can        *)
(* disturb it one by one, the others together.                             *)
(***************************************************************************)
EXTENDS Session, TLAPS

\* What a round holds in plain RAM, it has learned from its own drain, and it
\* re-zeroes only when it was asked to.
RoundsStartClean ==
  /\ pc \in {"asleep", "announce", "readings"} => pressed = {} /\ tare = FALSE
  /\ pc = "retare" => tare

\* What is on its way to the node was retained; a setting stays retained.
WaitingIsReal ==
  /\ \A k \in Settings : k \in inbox => set[k] # NoValue
  /\ "tare" \in inbox => lastWord # "none"

WhoSpoke ==
  /\ button["tare"] \/ tare => lastWord # "none"
  /\ set.offset = NoValue => lastWord # "typed"

\* The broker holds the messages acknowledged so far, while the link stands.
Announced ==
  pc = "announce" /\ link => \A i \in 1..Last : i < at => held[i] = Announcement

\* A press that was read, and not deleted yet, has had its effect.
ReadIsHandled ==
  /\ "reset_visits" \in pressed => visits = 0 /\ "reset_visits" \notin wanted
  /\ "reannounce" \in pressed => digest = NoValue
  /\ "tare" \in pressed => tare

PressesHeld ==
  /\ PressesKept
  /\ pc = "save" /\ "tare" \in wanted => button["tare"] \/ excused

\* Where no zero is retained, the round works on the one in flash.
ZeroHeld ==
  set.offset = NoValue =>
    /\ standing # NoValue => cfg.offset = standing
    /\ ~(pc = "save" /\ tare) => updated.offset = cfg.offset
    /\ pc = "save" /\ tare => updated.offset \in Zeros \/ updated.offset = cfg.offset

IInv ==
  /\ TypeOK /\ RoundsStartClean /\ WaitingIsReal /\ WhoSpoke
  /\ Announced /\ ReadIsHandled /\ PressesHeld /\ ZeroHeld

-----------------------------------------------------------------------------
(* The steps, in the groups the lemmas need. *)

LEMMA Steps ==
  ASSUME Next
  PROVE  \/ Connect \/ Announce \/ AnnounceFails \/ Subscribe \/ SubscribeFails
         \/ (\E k \in Settings : ReadSetting(k)) \/ ReadTare \/ ReadReannounce \/ ReadReset
         \/ DrainEnds \/ DrainGivesUp \/ Clear \/ Goodbye \/ Retare
         \/ Save \/ SaveFails \/ RoundLost
         \/ AcknowledgementLost \/ LinkBreaks \/ BrokerForgets
         \/ SetsOffset \/ SetsHeartbeat \/ (\E b \in Buttons : Presses(b))
         \/ OtherImage \/ VisitCounted
  BY DEF Next, Round, Read, Fails, People

LEMMA Bounds ==
  /\ Last \in Nat /\ Last >= 1 /\ 1 \in 1..Last
  /\ DRAIN \in Nat /\ 0 \in 0..DRAIN /\ DRAIN \in 0..DRAIN
  BY SessionAssumption

\* Types of the compound values.
LEMMA AnnouncementType ==
  ASSUME image \in Images, cfg \in Configs
  PROVE  Announcement \in Announcements
  BY DEF Announcement, Announcements, Configs

LEMMA SleepTypes ==
  ASSUME Sleeps, cfg' \in Configs
  PROVE  /\ pc' = "asleep" /\ link' \in BOOLEAN /\ at' \in 1..Last
         /\ inbox' \subseteq Settings \cup Buttons /\ room' \in 0..DRAIN
         /\ updated' \in Configs /\ pressed' \subseteq Buttons /\ tare' \in BOOLEAN
  BY Bounds DEF Sleeps

LEMMA FaultType ==
  ASSUME faults \in 0..MaxFaults, Fault
  PROVE  faults' \in 0..MaxFaults
  BY SessionAssumption DEF Fault

LEMMA ActType ==
  ASSUME acts \in 0..MaxActs, Act
  PROVE  acts' \in 0..MaxActs
  BY SessionAssumption DEF Act

\* One message fewer may be read; the link and the memory stay.
LEMMA ReadsType ==
  ASSUME TypeOK, NEW topic, Reads(topic)
  PROVE  inbox' \subseteq Settings \cup Buttons /\ room' \in 0..DRAIN
<1>1. room \in 0..DRAIN /\ room # 0 /\ room' = room - 1
  BY DEF TypeOK, Reads, DrainOver
<1>2. room' \in 0..DRAIN
  BY <1>1, Bounds
<1> QED BY <1>2 DEF TypeOK, Reads

LEMMA TypeInit == Init => TypeOK
<1> SUFFICES ASSUME Init PROVE TypeOK
  OBVIOUS
<1> USE SessionAssumption DEF Init
<1>1. /\ set \in [offset : Offsets \cup {NoValue}, heartbeat : Heartbeats \cup {NoValue}]
      /\ button \in [Buttons -> BOOLEAN]
      /\ held \in [1..Last -> Announcements \cup {NoValue}]
  <2>1. PICK typed \in Offsets \cup {NoValue} :
          set = [k \in Settings |-> IF k = "offset" THEN typed ELSE NoValue]
    OBVIOUS
  <2>2. set = [offset |-> typed, heartbeat |-> NoValue]
    BY <2>1 DEF Settings
  <2> QED BY <2>2
<1>2. cfg \in Configs /\ updated \in Configs
  BY DEF Configs
<1>3. at \in 1..Last /\ room \in 0..DRAIN /\ visits \in 0..MaxVisits
  BY Bounds
<1>4. acts \in 0..MaxActs /\ faults \in 0..MaxFaults
  OBVIOUS
<1> QED BY <1>1, <1>2, <1>3, <1>4 DEF TypeOK

LEMMA TypeStep == ASSUME TypeOK, WaitingIsReal, Next PROVE TypeOK'
<1> USE DEF TypeOK, broker, memory, local, history, bounds
<1>1. CASE Connect \/ AnnounceFails \/ SubscribeFails \/ DrainEnds \/ Goodbye
  BY <1>1, Bounds DEF Connect, AnnounceFails, SubscribeFails, DrainEnds, Goodbye
<1>2. CASE Announce
  <2>1. held' \in [1..Last -> Announcements \cup {NoValue}]
    BY <1>2, AnnouncementType DEF Announce
  <2>2. /\ digest' \in Announcements \cup {NoValue} /\ at' \in 1..Last
        /\ wanted' \subseteq Buttons
        /\ pc' \in {"announce", "readings"}
    BY <1>2, AnnouncementType, Bounds DEF Announce
  <2> QED BY <1>2, <2>1, <2>2 DEF Announce
<1>3. CASE AcknowledgementLost
  <2>1. held' \in [1..Last -> Announcements \cup {NoValue}]
    BY <1>3, AnnouncementType DEF AcknowledgementLost
  <2>2. faults' \in 0..MaxFaults
    BY <1>3, FaultType DEF AcknowledgementLost
  <2> QED BY <1>3, <2>1, <2>2 DEF AcknowledgementLost
<1>4. CASE Subscribe
  BY <1>4, Bounds DEF Subscribe, Retained
<1>5. ASSUME NEW k \in Settings, ReadSetting(k) PROVE TypeOK'
  <2>1. updated' = [updated EXCEPT ![k] = set[k]] /\ set[k] # NoValue
    BY <1>5 DEF ReadSetting, Reads, WaitingIsReal
  <2>2. updated' \in Configs
    BY <2>1 DEF Settings, Configs
  <2>3. inbox' \subseteq Settings \cup Buttons /\ room' \in 0..DRAIN
    BY <1>5, ReadsType DEF ReadSetting
  <2> QED BY <1>5, <2>2, <2>3 DEF ReadSetting, Reads
<1>6. CASE ReadTare \/ ReadReannounce \/ ReadReset
  <2>1. inbox' \subseteq Settings \cup Buttons /\ room' \in 0..DRAIN
    BY <1>6, ReadsType DEF ReadTare, ReadReannounce, ReadReset
  <2>2. /\ pressed' \subseteq Buttons /\ digest' \in Announcements \cup {NoValue}
        /\ tare' \in BOOLEAN /\ wanted' \subseteq Buttons
    BY <1>6 DEF ReadTare, ReadReannounce, ReadReset, Buttons
  <2>3. 0 \in 0..MaxVisits
    BY SessionAssumption
  <2>4. visits' \in 0..MaxVisits
    BY <1>6, <2>3 DEF ReadTare, ReadReannounce, ReadReset
  <2> QED BY <1>6, <2>1, <2>2, <2>4 DEF ReadTare, ReadReannounce, ReadReset, Reads
<1>7. CASE Clear
  BY <1>7 DEF Clear
<1>8. CASE Retare
  BY <1>8 DEF Retare, Configs
<1>9. CASE Save
  BY <1>9, SleepTypes DEF Save, NewZeroStands
<1>10. CASE SaveFails \/ RoundLost
  <2>1. Sleeps /\ cfg' \in Configs /\ faults' \in 0..MaxFaults
    BY <1>10, FaultType DEF SaveFails, RoundLost
  <2> QED BY <1>10, <2>1, SleepTypes DEF SaveFails, RoundLost
<1>11. CASE DrainGivesUp \/ LinkBreaks \/ BrokerForgets
  BY <1>11, FaultType DEF DrainGivesUp, LinkBreaks, BrokerForgets
<1>12. CASE SetsOffset \/ SetsHeartbeat
  BY <1>12, ActType DEF SetsOffset, SetsHeartbeat, Publishes, Settings
<1>13. ASSUME NEW b \in Buttons, Presses(b) PROVE TypeOK'
  BY <1>13, ActType DEF Presses, Publishes
<1>14. CASE OtherImage \/ VisitCounted
  BY <1>14, ActType, SessionAssumption DEF OtherImage, VisitCounted
<1> QED
  BY <1>1, <1>2, <1>3, <1>4, <1>5, <1>6, <1>7, <1>8, <1>9, <1>10, <1>11, <1>12,
     <1>13, <1>14, Steps

-----------------------------------------------------------------------------
(* The round and what it has read. *)

LEMMA CleanStep == ASSUME IInv, Next PROVE RoundsStartClean'
<1> USE DEF IInv, RoundsStartClean, broker, memory, local, history, bounds
<1>1. CASE \/ Connect \/ Announce \/ AnnounceFails \/ Subscribe \/ SubscribeFails
           \/ DrainEnds \/ DrainGivesUp \/ Clear \/ Goodbye \/ Retare
  BY <1>1
  DEF Connect, Announce, AnnounceFails, Subscribe, SubscribeFails, DrainEnds,
      DrainGivesUp, Clear, Goodbye, Retare
<1>2. CASE (\E k \in Settings : ReadSetting(k)) \/ ReadTare \/ ReadReannounce \/ ReadReset
  BY <1>2 DEF ReadSetting, ReadTare, ReadReannounce, ReadReset, Reads
<1>3. CASE Save \/ SaveFails \/ RoundLost
  BY <1>3 DEF Save, SaveFails, RoundLost, Sleeps
<1>4. CASE \/ AcknowledgementLost \/ LinkBreaks \/ BrokerForgets \/ SetsOffset \/ SetsHeartbeat
           \/ (\E b \in Buttons : Presses(b)) \/ OtherImage \/ VisitCounted
  BY <1>4
  DEF AcknowledgementLost, LinkBreaks, BrokerForgets, SetsOffset, SetsHeartbeat,
      Presses, Publishes, OtherImage, VisitCounted
<1> QED BY <1>1, <1>2, <1>3, <1>4, Steps

LEMMA WaitingStep == ASSUME IInv, Next PROVE WaitingIsReal' /\ WhoSpoke'
<1> USE SessionAssumption
    DEF IInv, TypeOK, WaitingIsReal, WhoSpoke, broker, memory, local, history, bounds
<1>1. CASE \/ Connect \/ Announce \/ AnnounceFails \/ SubscribeFails
           \/ DrainEnds \/ DrainGivesUp \/ Goodbye \/ Retare
  BY <1>1
  DEF Connect, Announce, AnnounceFails, SubscribeFails, DrainEnds,
      DrainGivesUp, Goodbye, Retare
<1>2. CASE Subscribe
  BY <1>2 DEF Subscribe, Retained, Settings, Buttons
<1>3. CASE (\E k \in Settings : ReadSetting(k)) \/ ReadTare \/ ReadReannounce \/ ReadReset
  BY <1>3 DEF ReadSetting, ReadTare, ReadReannounce, ReadReset, Reads
<1>4. CASE Clear
  BY <1>4 DEF Clear, Buttons
<1>5. CASE Save \/ SaveFails \/ RoundLost
  BY <1>5 DEF Save, SaveFails, RoundLost, Sleeps
<1>6. CASE SetsOffset
  BY <1>6 DEF SetsOffset, Publishes, Settings
<1>7. CASE SetsHeartbeat
  BY <1>7 DEF SetsHeartbeat, Publishes, Settings
<1>8. ASSUME NEW b \in Buttons, Presses(b) PROVE WaitingIsReal' /\ WhoSpoke'
  BY <1>8 DEF Presses, Publishes, Settings, Buttons
<1>9. CASE AcknowledgementLost \/ LinkBreaks \/ BrokerForgets \/ OtherImage \/ VisitCounted
  BY <1>9 DEF AcknowledgementLost, LinkBreaks, BrokerForgets, OtherImage, VisitCounted
<1> QED BY <1>1, <1>2, <1>3, <1>4, <1>5, <1>6, <1>7, <1>8, <1>9, Steps

LEMMA HandledStep == ASSUME IInv, Next PROVE ReadIsHandled'
<1> USE DEF IInv, TypeOK, RoundsStartClean, ReadIsHandled, Buttons,
            broker, memory, local, history, bounds
<1>1. CASE \/ Connect \/ Announce \/ AnnounceFails \/ Subscribe \/ SubscribeFails
           \/ DrainEnds \/ DrainGivesUp \/ Clear \/ Goodbye \/ Retare
  BY <1>1
  DEF Connect, Announce, AnnounceFails, Subscribe, SubscribeFails, DrainEnds,
      DrainGivesUp, Clear, Goodbye, Retare
<1>2. CASE (\E k \in Settings : ReadSetting(k)) \/ ReadTare \/ ReadReannounce \/ ReadReset
  BY <1>2 DEF ReadSetting, ReadTare, ReadReannounce, ReadReset, Reads
<1>3. CASE Save \/ SaveFails \/ RoundLost
  BY <1>3 DEF Save, SaveFails, RoundLost, Sleeps
<1>4. ASSUME NEW b \in Buttons, Presses(b) PROVE ReadIsHandled'
  BY <1>4 DEF Presses, Publishes
<1>5. CASE \/ AcknowledgementLost \/ LinkBreaks \/ BrokerForgets \/ SetsOffset \/ SetsHeartbeat
           \/ OtherImage \/ VisitCounted
  BY <1>5
  DEF AcknowledgementLost, LinkBreaks, BrokerForgets, SetsOffset, SetsHeartbeat,
      Publishes, OtherImage, VisitCounted
<1> QED BY <1>1, <1>2, <1>3, <1>4, <1>5, Steps

-----------------------------------------------------------------------------
(* What the three properties say. *)

LEMMA AnnouncedStep == ASSUME IInv, Next PROVE Announced'
<1> USE SessionAssumption
    DEF IInv, TypeOK, Announced, Announcement, broker, memory, local, history, bounds
<1>1. CASE Announce
  BY <1>1 DEF Announce
<1>2. CASE Connect
  BY <1>2 DEF Connect
<1>3. CASE \/ AnnounceFails \/ Subscribe \/ SubscribeFails \/ DrainEnds \/ DrainGivesUp
           \/ Clear \/ Goodbye \/ Retare
  BY <1>3
  DEF AnnounceFails, Subscribe, SubscribeFails, DrainEnds, DrainGivesUp, Clear, Goodbye, Retare
<1>4. CASE (\E k \in Settings : ReadSetting(k)) \/ ReadTare \/ ReadReannounce \/ ReadReset
  BY <1>4 DEF ReadSetting, ReadTare, ReadReannounce, ReadReset, Reads
<1>5. CASE Save \/ SaveFails \/ RoundLost
  BY <1>5 DEF Save, SaveFails, RoundLost, Sleeps
<1>6. CASE AcknowledgementLost \/ LinkBreaks \/ BrokerForgets
  BY <1>6 DEF AcknowledgementLost, LinkBreaks, BrokerForgets
<1>7. CASE \/ SetsOffset \/ SetsHeartbeat \/ (\E b \in Buttons : Presses(b))
           \/ VisitCounted
  <2>1. UNCHANGED <<held, image, cfg, pc, link, at>>
    BY <1>7 DEF SetsOffset, SetsHeartbeat, Presses, Publishes, VisitCounted
  <2> QED BY <2>1
<1>8. CASE OtherImage
  BY <1>8 DEF OtherImage
<1> QED BY <1>1, <1>2, <1>3, <1>4, <1>5, <1>6, <1>7, <1>8, Steps

LEMMA PressesStep == ASSUME IInv, Next PROVE PressesHeld'
<1> USE DEF IInv, TypeOK, PressesHeld, PressesKept, Buttons,
            broker, memory, local, history, bounds
<1>1. CASE Announce
  BY <1>1 DEF Announce
<1>2. CASE Connect \/ AnnounceFails \/ Subscribe \/ SubscribeFails \/ DrainEnds \/ DrainGivesUp
  BY <1>2 DEF Connect, AnnounceFails, Subscribe, SubscribeFails, DrainEnds, DrainGivesUp
<1>3. CASE (\E k \in Settings : ReadSetting(k)) \/ ReadTare \/ ReadReannounce \/ ReadReset
  BY <1>3 DEF ReadSetting, ReadTare, ReadReannounce, ReadReset, Reads, DrainOver
<1>4. CASE Clear
  BY <1>4 DEF Clear, ReadIsHandled
<1>5. CASE Goodbye \/ Retare
  BY <1>5 DEF Goodbye, Retare
<1>6. CASE Save \/ SaveFails \/ RoundLost
  BY <1>6 DEF Save, SaveFails, RoundLost, Sleeps
<1>7. CASE AcknowledgementLost \/ LinkBreaks \/ BrokerForgets
  BY <1>7 DEF AcknowledgementLost, LinkBreaks, BrokerForgets
<1>8. ASSUME NEW b \in Buttons, Presses(b) PROVE PressesHeld'
  BY <1>8 DEF Presses, Publishes
<1>9. CASE SetsOffset \/ SetsHeartbeat \/ OtherImage
  BY <1>9 DEF SetsOffset, SetsHeartbeat, Publishes, OtherImage
<1>10. CASE VisitCounted
  BY <1>10 DEF VisitCounted
<1> QED BY <1>1, <1>2, <1>3, <1>4, <1>5, <1>6, <1>7, <1>8, <1>9, <1>10, Steps

LEMMA ZeroStep == ASSUME IInv, Next PROVE ZeroHeld'
<1> USE SessionAssumption
    DEF IInv, TypeOK, ZeroHeld, Configs, broker, memory, local, history, bounds
<1>1. CASE \/ Connect \/ Announce \/ AnnounceFails \/ Subscribe \/ SubscribeFails
           \/ DrainEnds \/ DrainGivesUp \/ Clear \/ Goodbye
  BY <1>1
  DEF Connect, Announce, AnnounceFails, Subscribe, SubscribeFails, DrainEnds,
      DrainGivesUp, Clear, Goodbye
<1>2. ASSUME NEW k \in Settings, ReadSetting(k) PROVE ZeroHeld'
  BY <1>2 DEF ReadSetting, Reads, Settings, WaitingIsReal
<1>3. CASE ReadTare \/ ReadReannounce \/ ReadReset
  BY <1>3 DEF ReadTare, ReadReannounce, ReadReset, Reads
<1>4. CASE Retare
  <2>1. PICK zero \in Zeros \cup {updated.offset} : updated' = [updated EXCEPT !.offset = zero]
    BY <1>4 DEF Retare
  <2>2. updated'.offset = zero
    BY <2>1
  <2>3. /\ pc = "retare" /\ pc' = "save"
        /\ UNCHANGED <<set, cfg, standing, tare>>
    BY <1>4 DEF Retare
  <2>4. CASE set.offset = NoValue
    <3>1. updated.offset = cfg.offset
      BY <2>3, <2>4
    <3>2. standing # NoValue => cfg.offset = standing
      BY <2>4
    <3>3. updated'.offset \in Zeros \/ updated'.offset = cfg.offset
      BY <2>1, <2>2, <3>1
    <3> QED BY <2>3, <3>2, <3>3 DEF RoundsStartClean
  <2> QED BY <2>3, <2>4
<1>5. CASE Save
  BY <1>5 DEF Save, Sleeps, NewZeroStands, WhoSpoke
<1>6. CASE SaveFails \/ RoundLost
  BY <1>6 DEF SaveFails, RoundLost, Sleeps
<1>7. CASE SetsOffset
  BY <1>7 DEF SetsOffset, Publishes
<1>8. CASE SetsHeartbeat
  BY <1>8 DEF SetsHeartbeat, Publishes
<1>9. CASE \/ AcknowledgementLost \/ LinkBreaks \/ BrokerForgets \/ (\E b \in Buttons : Presses(b))
           \/ OtherImage \/ VisitCounted
  BY <1>9
  DEF AcknowledgementLost, LinkBreaks, BrokerForgets, Presses, Publishes, OtherImage, VisitCounted
<1> QED BY <1>1, <1>2, <1>3, <1>4, <1>5, <1>6, <1>7, <1>8, <1>9, Steps

-----------------------------------------------------------------------------
LEMMA InitIInv == Init => IInv
<1> SUFFICES ASSUME Init PROVE IInv
  OBVIOUS
<1>1. RoundsStartClean /\ WaitingIsReal /\ WhoSpoke /\ Announced /\ ReadIsHandled
  BY DEF Init, RoundsStartClean, WaitingIsReal, WhoSpoke, Announced, ReadIsHandled, Buttons
<1>2. PressesHeld /\ ZeroHeld
  BY DEF Init, PressesHeld, PressesKept, ZeroHeld
<1> QED BY <1>1, <1>2, TypeInit DEF IInv

LEMMA StepIInv == ASSUME IInv, [Next]_vars PROVE IInv'
<1>1. CASE Next
  BY <1>1, TypeStep, CleanStep, WaitingStep, HandledStep, AnnouncedStep, PressesStep, ZeroStep
  DEF IInv
<1>2. CASE UNCHANGED vars
  BY <1>2
  DEF IInv, TypeOK, RoundsStartClean, WaitingIsReal, WhoSpoke, Announced, Announcement,
      ReadIsHandled, PressesHeld, PressesKept, ZeroHeld,
      vars, broker, memory, local, history, bounds
<1> QED BY <1>1, <1>2

LEMMA Invariant == Spec => []IInv
<1>1. IInv /\ [Next]_vars => IInv'
  BY StepIInv
<1> QED BY InitIInv, <1>1, PTL DEF Spec

\* Every variable keeps its type, of whatever size the instance is.
THEOREM TypeCorrect == Spec => []TypeOK
<1>1. IInv => TypeOK
  BY DEF IInv
<1> QED BY Invariant, <1>1, PTL

\* A press is never lost, whatever fails (src/main.rs publish_samples: the drain
\* and the clearing of presses).
THEOREM NoPressIsLost == Spec => []PressesKept
<1>1. IInv => PressesKept
  BY DEF IInv, PressesHeld
<1> QED BY Invariant, <1>1, PTL

\* A zero that was measured stays, where none was typed (src/main.rs retare,
\* publish: the drained configuration is stored after the re-zeroing).
THEOREM MeasuredZeroStands == Spec => []ZeroStands
<1>1. IInv => ZeroStands
  BY DEF IInv, ZeroHeld, ZeroStands
<1> QED BY Invariant, <1>1, PTL

\* The digest is set only to an announcement that the broker holds from its
\* first message to its last (src/main.rs publish_samples, set_discovery_tag).
THEOREM DigestIsEarned == Spec => DigestEarned
<1>1. ASSUME IInv, Next, digest' # digest, digest' # NoValue
      PROVE  \A i \in 1..Last : held'[i] = digest'
  <2> USE DEF broker, memory, local, history, bounds
  <2>1. Announce
    BY <1>1, Steps
    DEF Connect, AnnounceFails, Subscribe, SubscribeFails, ReadSetting, ReadTare,
        ReadReannounce, ReadReset, Reads, DrainEnds, DrainGivesUp, Clear, Goodbye,
        Retare, Save, SaveFails, RoundLost, AcknowledgementLost, LinkBreaks,
        BrokerForgets, SetsOffset, SetsHeartbeat, Presses, Publishes, OtherImage, VisitCounted
  <2>2. at = Last /\ digest' = Announcement /\ held' = [held EXCEPT ![at] = Announcement]
    BY <1>1, <2>1 DEF Announce
  <2>3. \A i \in 1..Last : i < Last => held[i] = Announcement
    BY <1>1, <2>1, <2>2 DEF Announce, IInv, Announced
  <2>4. held \in [1..Last -> Announcements \cup {NoValue}] /\ Last \in Nat
    BY <1>1, SessionAssumption DEF IInv, TypeOK
  <2> QED BY <2>2, <2>3, <2>4
<1>2. IInv /\ [Next]_vars =>
        [digest' # digest /\ digest' # NoValue => \A i \in 1..Last : held'[i] = digest']_vars
  BY <1>1 DEF vars, memory
<1> QED BY Invariant, <1>2, PTL DEF Spec, DigestEarned
=============================================================================
