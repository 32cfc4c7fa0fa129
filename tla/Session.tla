------------------------------ MODULE Session -------------------------------
(***************************************************************************)
(* One round of a sleeping node with the broker: src/main.rs               *)
(* publish_samples, from the connection to the last flush, and publish,    *)
(* which re-zeroes the scale and stores the configuration afterwards.      *)
(* Home Assistant writes settings and presses buttons as retained          *)
(* messages, at any time; the node reads what is retained, acts, and       *)
(* deletes the presses it has seen.                                        *)
(*                                                                         *)
(* A message is a topic: its value is what the broker retains.  One that   *)
(* is overtaken by a newer one on its topic is not delivered.  The will,   *)
(* the update offer and the numbers of the readings are left out.          *)
(***************************************************************************)
EXTENDS Integers, FiniteSets

CONSTANTS
  Last,            \* discovery announces entities and controls 1..Last, in order
  Offsets,         \* zeros a person may type
  Zeros,           \* zeros a tare may measure
  Heartbeats,      \* settings that change what discovery says
  Images,          \* firmware that says something else in discovery
  FirstImage, Defaults,   \* the firmware as flashed, and config::Config::DEFAULT
  NoValue,
  DRAIN,           \* messages read in one round; twelve in the code
  MaxVisits, MaxActs, MaxFaults   \* bounds: visits, deeds of people, faults

ASSUME SessionAssumption ==
  /\ Last \in Nat \ {0} /\ DRAIN \in Nat
  /\ FirstImage \in Images
  /\ Defaults \in [offset : Offsets \cup Zeros, heartbeat : Heartbeats]
  /\ NoValue \notin Offsets \cup Zeros \cup Heartbeats
  /\ NoValue \notin Images \X Heartbeats
  /\ MaxVisits \in Nat /\ MaxActs \in Nat /\ MaxFaults \in Nat

Settings == {"offset", "heartbeat"}
Buttons == {"reannounce", "reset_visits", "tare"}

VARIABLES
  set,             \* broker: the retained value of each setting
  button,          \* broker: whether each press is retained
  held,            \* broker: the announcement each discovery topic holds
  image,           \* the firmware that is running
  cfg,             \* flash: the configuration
  digest,          \* RTC RAM: state::discovery_tag
  visits,          \* RTC RAM: state::visit_count
  pc,              \* asleep, announce, readings, drain, clear, retare, save
  link,            \* what the node sends still arrives
  at,              \* the discovery message that is next
  inbox,           \* topics on their way to the node
  room,            \* messages this round may still read
  updated,         \* the configuration the drain is building
  pressed,         \* presses seen and not yet deleted
  tare,            \* Drained.tare
  wanted,          \* history: buttons whose last press had no effect yet
  excused,         \* history: a round died between seeing a tare and taking it
  lastWord,        \* history: what was last said of the zero: none, typed, tare
  standing,        \* history: the zero of the last tare, until one is typed
  acts, faults

broker == <<set, button, held>>
memory == <<image, cfg, digest, visits>>
local == <<link, at, inbox, room, updated, pressed, tare>>
history == <<wanted, excused, lastWord, standing>>
bounds == <<acts, faults>>
vars == <<broker, memory, pc, local, history, bounds>>

Configs == [offset : Offsets \cup Zeros, heartbeat : Heartbeats]
Announcements == Images \X Heartbeats

\* discovery::announcement_tag, which is taken to tell announcements apart.
Announcement == <<image, cfg.heartbeat>>

TypeOK ==
  /\ set \in [offset : Offsets \cup {NoValue}, heartbeat : Heartbeats \cup {NoValue}]
  /\ button \in [Buttons -> BOOLEAN]
  /\ held \in [1..Last -> Announcements \cup {NoValue}]
  /\ image \in Images /\ cfg \in Configs
  /\ digest \in Announcements \cup {NoValue} /\ visits \in 0..MaxVisits
  /\ pc \in {"asleep", "announce", "readings", "drain", "clear", "retare", "save"}
  /\ link \in BOOLEAN /\ at \in 1..Last
  /\ inbox \subseteq Settings \cup Buttons /\ room \in 0..DRAIN
  /\ updated \in Configs /\ pressed \subseteq Buttons /\ tare \in BOOLEAN
  /\ wanted \subseteq Buttons /\ excused \in BOOLEAN
  /\ lastWord \in {"none", "typed", "tare"} /\ standing \in Zeros \cup {NoValue}
  /\ acts \in 0..MaxActs /\ faults \in 0..MaxFaults

\* As flashed, onto a broker that may still hold a zero somebody typed.
Init ==
  /\ \E typed \in Offsets \cup {NoValue} :
       set = [k \in Settings |-> IF k = "offset" THEN typed ELSE NoValue]
  /\ button = [b \in Buttons |-> FALSE]
  /\ held = [i \in 1..Last |-> NoValue]
  /\ image = FirstImage /\ cfg = Defaults /\ digest = NoValue /\ visits = 0
  /\ pc = "asleep" /\ link = TRUE /\ at = 1 /\ inbox = {} /\ room = 0
  /\ updated = cfg /\ pressed = {} /\ tare = FALSE
  /\ wanted = {} /\ excused = FALSE /\ lastWord = "none" /\ standing = NoValue
  /\ acts = 0 /\ faults = 0

\* Everything a round holds in plain RAM is gone when it ends.
Sleeps ==
  /\ pc' = "asleep" /\ link' = TRUE /\ at' = 1 /\ inbox' = {} /\ room' = 0
  /\ updated' = cfg' /\ pressed' = {} /\ tare' = FALSE

Fault == faults < MaxFaults /\ faults' = faults + 1

-----------------------------------------------------------------------------
(* The connection and discovery. *)

\* TCP, CONNECT, and the choice whether to announce.
Connect ==
  /\ pc = "asleep"
  /\ pc' = IF digest = Announcement THEN "readings" ELSE "announce"
  /\ at' = 1 /\ updated' = cfg
  /\ UNCHANGED <<broker, memory, link, inbox, room, pressed, tare, history, bounds>>

\* slip: QoS 0, where handing the packet to the socket is success
AnnounceBlind ==
  /\ pc = "announce"
  /\ held' = IF link THEN [held EXCEPT ![at] = Announcement] ELSE held
  /\ IF at = Last
     THEN /\ digest' = Announcement /\ pc' = "readings" /\ at' = at
          /\ wanted' = wanted \ {"reannounce"}
     ELSE at' = at + 1 /\ UNCHANGED <<digest, pc, wanted>>
  /\ UNCHANGED <<set, button, image, cfg, visits, link, inbox, room, updated,
                 pressed, tare, excused, lastWord, standing, bounds>>

\* A retained message at QoS 1: the broker has it when it acknowledges it.  The
\* digest is stored in the breath of the last acknowledgement.
Announce ==
  /\ pc = "announce" /\ link
  /\ held' = [held EXCEPT ![at] = Announcement]
  /\ IF at = Last
     THEN /\ digest' = Announcement /\ pc' = "readings" /\ at' = at
          /\ wanted' = wanted \ {"reannounce"}
     ELSE at' = at + 1 /\ UNCHANGED <<digest, pc, wanted>>
  /\ UNCHANGED <<set, button, image, cfg, visits, link, inbox, room, updated,
                 pressed, tare, excused, lastWord, standing, bounds>>

\* No acknowledgement: the rest is left for the next connect.
AnnounceFails ==
  /\ pc = "announce" /\ ~link
  /\ pc' = "readings"
  /\ UNCHANGED <<broker, memory, local, history, bounds>>

\* The same when the message arrived and only its acknowledgement was lost.
AcknowledgementLost ==
  /\ pc = "announce" /\ link /\ Fault
  /\ held' = [held EXCEPT ![at] = Announcement]
  /\ link' = FALSE /\ pc' = "readings"
  /\ UNCHANGED <<set, button, memory, at, inbox, room, updated, pressed, tare, history, acts>>

-----------------------------------------------------------------------------
(* Readings, and what Home Assistant left for the node. *)

Retained == {k \in Settings : set[k] # NoValue} \cup {b \in Buttons : button[b]}

\* The readings went into the socket and SUBSCRIBE was acknowledged.
Subscribe ==
  /\ pc = "readings" /\ link
  /\ inbox' = Retained /\ room' = DRAIN
  /\ pc' = "drain"
  /\ UNCHANGED <<broker, memory, link, at, updated, pressed, tare, history, bounds>>

\* A dead link that took the readings shows at the latest here, and is no error.
SubscribeFails ==
  /\ pc = "readings" /\ ~link
  /\ pc' = "clear"
  /\ UNCHANGED <<broker, memory, local, history, bounds>>

DrainOver == room = 0 \/ inbox = {} \/ ~link

Reads(topic) ==
  /\ pc = "drain" /\ ~DrainOver /\ topic \in inbox
  /\ inbox' = inbox \ {topic} /\ room' = room - 1
  /\ UNCHANGED <<broker, image, cfg, pc, link, at, excused, lastWord, standing, bounds>>

ReadSetting(key) ==
  /\ Reads(key)
  /\ updated' = [updated EXCEPT ![key] = set[key]]
  /\ UNCHANGED <<digest, visits, pressed, tare, wanted>>

ReadTare ==
  /\ Reads("tare")
  /\ tare' = TRUE /\ pressed' = pressed \cup {"tare"}
  /\ UNCHANGED <<digest, visits, updated, wanted>>

\* slip: the press is seen and deleted, and the digest kept
ReadReannounceIdle ==
  /\ Reads("reannounce")
  /\ pressed' = pressed \cup {"reannounce"}
  /\ UNCHANGED <<digest, visits, updated, tare, wanted>>

ReadReannounce ==
  /\ Reads("reannounce")
  /\ digest' = NoValue /\ pressed' = pressed \cup {"reannounce"}
  /\ UNCHANGED <<visits, updated, tare, wanted>>

ReadReset ==
  /\ Reads("reset_visits")
  /\ visits' = 0 /\ pressed' = pressed \cup {"reset_visits"}
  /\ wanted' = wanted \ {"reset_visits"}
  /\ UNCHANGED <<digest, updated, tare>>

Read == (\E k \in Settings : ReadSetting(k)) \/ ReadTare \/ ReadReannounce \/ ReadReset

DrainEnds ==
  /\ pc = "drain" /\ DrainOver
  /\ pc' = "clear"
  /\ UNCHANGED <<broker, memory, local, history, bounds>>

\* A window of 400 ms without a message that was on its way.
DrainGivesUp ==
  /\ pc = "drain" /\ ~DrainOver /\ Fault
  /\ pc' = "clear"
  /\ UNCHANGED <<broker, memory, local, history, acts>>

\* slip: every button is deleted, pressed or not
ClearAll ==
  /\ pc = "clear" /\ pressed # {}
  /\ button' = IF link THEN [b \in Buttons |-> FALSE] ELSE button
  /\ pressed' = {}
  /\ UNCHANGED <<set, held, memory, pc, link, at, inbox, room, updated, tare, history, bounds>>

\* Presses are deleted in the order of the code, each by an empty retained
\* message at QoS 0, which may not arrive.
Clear ==
  /\ pc = "clear"
  /\ \E b \in pressed :
       /\ b = "reset_visits" => "reannounce" \notin pressed
       /\ b = "tare" => pressed = {"tare"}
       /\ button' = IF link THEN [button EXCEPT ![b] = FALSE] ELSE button
       /\ pressed' = pressed \ {b}
  /\ UNCHANGED <<set, held, memory, pc, link, at, inbox, room, updated, tare, history, bounds>>

\* DISCONNECT, flush, close.
Goodbye ==
  /\ pc = "clear" /\ pressed = {}
  /\ pc' = IF tare THEN "retare" ELSE "save"
  /\ UNCHANGED <<broker, memory, local, history, bounds>>

-----------------------------------------------------------------------------
(* After the radio: the new zero, and the flash. *)

\* Sixteen readings that agree, or else the zero stays where it was.
Retare ==
  /\ pc = "retare"
  /\ \E zero \in Zeros \cup {updated.offset} :
       updated' = [updated EXCEPT !.offset = zero]
  /\ wanted' = wanted \ {"tare"} /\ pc' = "save"
  /\ UNCHANGED <<broker, memory, link, at, inbox, room, pressed, tare, excused, lastWord, standing, bounds>>

NewZeroStands ==
  standing' = IF tare /\ updated.offset \in Zeros /\ lastWord = "tare"
              THEN updated.offset ELSE standing

\* slip: the configuration is stored from the drain, without the new zero
SaveDrained ==
  /\ pc = "save"
  /\ cfg' = [updated EXCEPT !.offset = cfg.offset]
  /\ NewZeroStands
  /\ Sleeps
  /\ UNCHANGED <<broker, image, digest, visits, wanted, excused, lastWord, bounds>>

\* slip: a round that re-zeroed nothing stores nothing
SaveTaresOnly ==
  /\ pc = "save"
  /\ cfg' = IF tare THEN updated ELSE cfg
  /\ NewZeroStands
  /\ Sleeps
  /\ UNCHANGED <<broker, image, digest, visits, wanted, excused, lastWord, bounds>>

\* persist_if_changed
Save ==
  /\ pc = "save"
  /\ cfg' = updated
  /\ NewZeroStands
  /\ Sleeps
  /\ UNCHANGED <<broker, image, digest, visits, wanted, excused, lastWord, bounds>>

\* The flash refuses: the round goes on and sleeps on what was there before.
SaveFails ==
  /\ pc = "save" /\ Fault
  /\ UNCHANGED <<broker, memory, wanted, lastWord, standing, acts>>
  /\ Sleeps
  /\ excused' = (excused \/ tare)

-----------------------------------------------------------------------------
(* What goes wrong, and the world. *)

LinkBreaks ==
  /\ pc \in {"announce", "readings", "drain", "clear"} /\ link /\ Fault
  /\ link' = FALSE
  /\ UNCHANGED <<broker, memory, pc, at, inbox, room, updated, pressed, tare, history, acts>>

\* The twenty seconds are over, or a send returned an error: what the round
\* had learned is dropped.  A panic, a watchdog or new provisioning does the
\* same, and can do it while the scale is being re-zeroed.
RoundLost ==
  /\ pc # "asleep" /\ Fault
  /\ UNCHANGED <<broker, memory, wanted, lastWord, standing, acts>>
  /\ Sleeps
  /\ excused' = (excused \/ tare)

\* The broker comes back without the discovery it held; it keeps what people
\* have written, or there is nothing to speak of.
BrokerForgets ==
  /\ Fault
  /\ held' = [i \in 1..Last |-> NoValue]
  /\ link' = (pc = "asleep")
  /\ UNCHANGED <<set, button, memory, pc, at, inbox, room, updated, pressed, tare, history, acts>>

Act == acts < MaxActs /\ acts' = acts + 1

\* Between SUBACK and the end of the drain a publish reaches the node as well.
Publishes(topic) ==
  /\ inbox' = IF pc = "drain" /\ link THEN inbox \cup {topic} ELSE inbox
  /\ UNCHANGED <<held, memory, pc, link, at, room, updated, pressed, tare, excused, faults>>

SetsOffset ==
  /\ Act /\ \E v \in Offsets : set' = [set EXCEPT !.offset = v]
  /\ standing' = NoValue /\ lastWord' = "typed"
  /\ Publishes("offset")
  /\ UNCHANGED <<button, wanted>>

SetsHeartbeat ==
  /\ Act /\ \E v \in Heartbeats : set' = [set EXCEPT !.heartbeat = v]
  /\ Publishes("heartbeat")
  /\ UNCHANGED <<button, wanted, lastWord, standing>>

Presses(b) ==
  /\ Act /\ button' = [button EXCEPT ![b] = TRUE]
  /\ wanted' = IF b = "reset_visits" /\ visits = 0 THEN wanted
               ELSE IF b = "reannounce" /\ digest = NoValue THEN wanted
               ELSE wanted \cup {b}
  /\ lastWord' = IF b = "tare" THEN "tare" ELSE lastWord
  /\ Publishes(b)
  /\ UNCHANGED <<set, standing>>

VisitCounted ==
  /\ pc = "asleep" /\ visits < MaxVisits
  /\ visits' = visits + 1
  /\ UNCHANGED <<broker, image, cfg, digest, pc, local, history, bounds>>

\* An update, or the end of one that did not prove itself.
OtherImage ==
  /\ pc = "asleep" /\ Act
  /\ image' \in Images \ {image}
  /\ UNCHANGED <<broker, cfg, digest, visits, pc, local, history, faults>>

Round ==
  \/ Connect \/ Announce \/ AnnounceFails
  \/ Subscribe \/ SubscribeFails \/ Read \/ DrainEnds \/ Clear \/ Goodbye
  \/ Retare \/ Save

Fails ==
  AcknowledgementLost \/ DrainGivesUp \/ SaveFails \/ LinkBreaks \/ RoundLost \/ BrokerForgets

People == SetsOffset \/ SetsHeartbeat \/ (\E b \in Buttons : Presses(b)) \/ OtherImage

Next == Round \/ Fails \/ People \/ VisitCounted

Spec == Init /\ [][Next]_vars

\* The node wakes and goes on with its round; the broker sends what it holds.
FairSpec == Spec /\ WF_vars(Round)

-----------------------------------------------------------------------------
(* Properties. *)

\* The digest is set only to an announcement the broker holds in full, whatever
\* was lost on the way and wherever the round was cut (src/main.rs
\* publish_samples: "the digest records what the broker has").
DigestEarned ==
  [][digest' # digest /\ digest' # NoValue => \A i \in 1..Last : held'[i] = digest']_vars

\* A press of a button is never lost: until it has had its effect it is on the
\* broker or in the hands of the round that read it.  A round that dies between
\* reading a tare and taking it is excused (src/main.rs publish_samples, the
\* drain and the clearing of presses).
PressesKept ==
  /\ "reset_visits" \in wanted => button["reset_visits"]
  /\ "reannounce" \in wanted => button["reannounce"] \/ digest = NoValue
  /\ "tare" \in wanted => button["tare"] \/ tare \/ excused

\* Asked to announce again, the node does, even to a broker that forgot
\* everything (src/discovery.rs REANNOUNCE_CONTROLS).
Reannounced == "reannounce" \in wanted ~> "reannounce" \notin wanted

\* A setting that stays on the broker reaches the flash, although a round reads
\* only so many messages and presses come in between
\* (docs/home-assistant.md: "the firmware reads them the next time it is online").
SettingsArrive ==
  \A v \in Heartbeats :
    set.heartbeat = v ~> cfg.heartbeat = v \/ set.heartbeat # v

\* The zero of a tare stays, where nobody ever typed one (src/main.rs retare).
ZeroStands ==
  pc = "asleep" /\ standing # NoValue /\ set.offset = NoValue => cfg.offset = standing

\* The zero of a tare stays until somebody types another
\* (docs/home-assistant.md: a tare "adopts their median as `offset`").
TareStands == pc = "asleep" /\ standing # NoValue => cfg.offset = standing
=============================================================================
