-------------------------------- MODULE Ota --------------------------------
(***************************************************************************)
(* Updating a node over the air: the flash that outlives a boot, the steps *)
(* of the program that touch it (src/ota.rs, called from the three publish *)
(* paths of src/main.rs), and a world that may cut the power at any step.  *)
(*                                                                         *)
(* `pc` names the step the node is about to take.  A step that writes      *)
(* flash writes one sector; a power cut at that step may find the sector   *)
(* erased, because esp-storage rewrites a sector by reading, erasing and   *)
(* programming it.  The pending record and the boot log share a sector.    *)
(*                                                                         *)
(* Images are opaque.  Joins are the images that get as far as             *)
(* ota_begin_attempt (their Wi-Fi works and nothing on the way hangs or    *)
(* panics); Publishes are those able to complete a publish round as well.  *)
(*                                                                         *)
(* An action marked "slip" is a wrong version of the one below it, kept to *)
(* show that the properties notice it; Next never uses it.                 *)
(***************************************************************************)
EXTENDS OtaSelect

CONSTANTS
  Images,             \* the images that exist for this node
  Cabled,             \* the one flashed over the cable, into slot 0
  Joins, Publishes,
  Torn,               \* the content of a slot that holds no whole image
  NoOffer,
  Profiles,           \* subset of {"battery", "mains", "lamp"}
  MAX_ATTEMPTS,
  MAX_RECORDED_BOOTS,
  MaxSeq,             \* bound: no install starts beyond this number
  MaxCuts,            \* bound: power cuts in a behaviour
  MaxFaults,          \* bound: flash writes that return an error
  FaultAt,            \* the steps whose flash write may return an error
  TornRecords         \* may a cut land inside a rewrite of the record sector

Writes == {"note", "attempt", "rb_select", "rb_clear", "confirm",
           "act_record", "act_select", "download"}
Steps == Writes \cup {"boot", "wake", "join", "publish", "install", "evening"}
Mode == {"off", "sleeping", "awake", "lamp", "unattended"}

ASSUME OtaAssumption ==
  /\ Cabled \in Publishes /\ Publishes \subseteq Joins /\ Joins \subseteq Images
  /\ Torn \notin Images /\ NoOffer \notin Images
  /\ Profiles \subseteq {"battery", "mains", "lamp"}
  /\ MAX_ATTEMPTS \in Nat \ {0}
  /\ MAX_RECORDED_BOOTS \in Nat
  /\ MaxSeq \in Nat /\ MaxCuts \in Nat /\ MaxFaults \in Nat
  /\ FaultAt \subseteq Writes
  /\ TornRecords \in BOOLEAN

VARIABLES
  otadata,   \* flash: the two selector entries
  record,    \* flash: the pending record, or NoRecord
  bootLog,   \* flash: boots counted, 0 when the log does not decode
  slots,     \* flash: what each application slot holds
  pc,        \* the step the node is about to take
  running,   \* the slot the bootloader started
  mode,      \* the publish path this boot took
  onTrial,   \* what ota_begin_attempt returned
  drained,   \* the offer the last round brought back
  profile,   \* the node's power profile, fixed when it is built
  offer,     \* the broker: the retained offer
  proven,    \* history: the images that have completed a publish round
  cuts, faults

flash == <<otadata, record, bootLog, slots>>
boot == <<running, mode, onTrial, drained>>
world == <<profile, offer, proven>>
bounds == <<cuts, faults>>
vars == <<flash, pc, boot, world, bounds>>

TypeOK ==
  /\ otadata \in [Entry -> Nat]
  /\ record \in [seq : Nat, attempts : 0..MAX_ATTEMPTS] \cup {NoRecord}
  /\ bootLog \in 0..MAX_RECORDED_BOOTS
  /\ slots \in [Slot -> Images \cup {Torn}]
  /\ pc \in Steps
  /\ running \in Slot
  /\ mode \in Mode
  /\ onTrial \in BOOLEAN
  /\ drained \in Images \cup {NoOffer}
  /\ profile \in Profiles
  /\ offer \in Images \cup {NoOffer}
  /\ proven \subseteq Images
  /\ cuts \in 0..MaxCuts
  /\ faults \in 0..MaxFaults

Init ==
  /\ otadata = [e \in Entry |-> 0]
  /\ record = NoRecord
  /\ bootLog = 0
  /\ slots = [s \in Slot |-> IF s = 0 THEN Cabled ELSE Torn]
  /\ pc = "boot"
  /\ running = 0
  /\ mode = "off"
  /\ onTrial = FALSE
  /\ drained = NoOffer
  /\ profile \in Profiles
  /\ offer = NoOffer
  /\ proven = {}
  /\ cuts = 0
  /\ faults = 0

Seq == ActiveSeq(otadata)
Image == slots[running]
Goto(step) == pc' = step

\* A reset or a deep sleep: RAM is gone, the next boot starts from flash.
Reset(step) ==
  /\ pc' = step
  /\ mode' = "off" /\ onTrial' = FALSE /\ drained' = NoOffer
  /\ UNCHANGED running

\* The write due at this step returned an error and changed nothing.
FlashFails ==
  /\ pc \in FaultAt /\ faults < MaxFaults
  /\ faults' = faults + 1
  /\ UNCHANGED <<flash, cuts>>

FlashHolds == UNCHANGED bounds

-----------------------------------------------------------------------------
(* Booting: the bootloader, then main() up to the hand-over to a profile. *)

\* The bootloader rejects a slot that does not hold a whole image.
Boot ==
  /\ pc \in {"boot", "wake"}
  /\ slots[ActiveSlot(otadata)] # Torn
  /\ running' = ActiveSlot(otadata)
  /\ Goto(IF pc = "boot" THEN "note" ELSE "join")
  /\ mode' \in CASE profile = "battery" -> {"sleeping", "awake"}
                 [] profile = "mains"   -> {"awake"}
                 [] profile = "lamp"    -> {"lamp", "awake"}
  /\ UNCHANGED <<flash, onTrial, drained, world, bounds>>

\* note_boot: best effort, and silent once the counter is full.
NoteBoot ==
  /\ pc = "note"
  /\ Goto("join")
  /\ \/ /\ bootLog < MAX_RECORDED_BOOTS
        /\ bootLog' = bootLog + 1
        /\ UNCHANGED <<otadata, record, slots>> /\ FlashHolds
     \/ /\ bootLog >= MAX_RECORDED_BOOTS
        /\ UNCHANGED flash /\ FlashHolds
     \/ /\ bootLog < MAX_RECORDED_BOOTS /\ FlashFails
  /\ UNCHANGED <<boot, world>>

-----------------------------------------------------------------------------
(* One publish round. *)

JoinOk ==
  /\ pc = "join" /\ Image \in Joins
  /\ Goto("attempt")
  /\ UNCHANGED <<flash, boot, world, bounds>>

\* No lease within WIFI_BUDGET; only the sleeping path has one.
JoinTimesOut ==
  /\ pc = "join" /\ mode = "sleeping"
  /\ Reset("wake")
  /\ UNCHANGED <<flash, world, bounds>>

\* The radio does not start.  The lamp then runs its evening without a
\* network, counting the attempt; the other paths go back to sleep.
RadioFails ==
  /\ pc = "join"
  /\ \/ mode \in {"sleeping", "awake"} /\ Reset("wake")
     \/ /\ mode = "lamp" /\ Goto("attempt")
        /\ mode' = "unattended"
        /\ UNCHANGED <<running, onTrial, drained>>
  /\ UNCHANGED <<flash, world, bounds>>

\* What follows ota_begin_attempt: a round, or an evening without a network.
RoundStarts == Goto(IF mode = "unattended" THEN "evening" ELSE "publish")

\* slip: the attempt is announced and not stored
BeginAttemptUncounted ==
  /\ pc = "attempt"
  /\ onTrial' = OnTrial(record, Seq)
  /\ RoundStarts
  /\ UNCHANGED <<flash, running, mode, drained, world, bounds>>

\* ota_begin_attempt: the count is stored before the round it counts, and a
\* count that cannot be stored does not stop the round.
BeginAttempt ==
  /\ pc = "attempt"
  /\ LET verdict == OnAttempt(record, Seq, MAX_ATTEMPTS)
     IN  \/ /\ verdict = "Nothing"
            /\ onTrial' = FALSE
            /\ RoundStarts
            /\ UNCHANGED <<flash, running, mode, drained>> /\ FlashHolds
         \/ /\ verdict = "Trying"
            /\ onTrial' = TRUE
            /\ RoundStarts
            /\ \/ /\ record' = [seq |-> Seq, attempts |-> record.attempts + 1]
                  /\ UNCHANGED <<otadata, bootLog, slots>> /\ FlashHolds
               \/ FlashFails
            /\ UNCHANGED <<running, mode, drained>>
         \/ /\ verdict = "RollBack"
            /\ Goto("rb_select")
            /\ UNCHANGED <<flash, boot>> /\ FlashHolds
  /\ UNCHANGED world

\* roll_back: the selector first, then the record; a failed write is logged
\* and the node resets either way.
RollBackSelect ==
  /\ pc = "rb_select"
  /\ \/ /\ otadata' = Reselect(otadata)
        /\ Goto("rb_clear")
        /\ UNCHANGED <<record, bootLog, slots, boot>> /\ FlashHolds
     \/ FlashFails /\ Reset("boot")
  /\ UNCHANGED world

RollBackClear ==
  /\ pc = "rb_clear"
  /\ \/ /\ record' = NoRecord
        /\ UNCHANGED <<otadata, bootLog, slots>> /\ FlashHolds
     \/ FlashFails
  /\ Reset("boot")
  /\ UNCHANGED world

\* slip: no ota_confirm, as in the lamp's first release
PublishOkUnconfirmed ==
  /\ pc = "publish" /\ Image \in Publishes
  /\ proven' = proven \cup {Image}
  /\ drained' \in {offer, NoOffer}
  /\ Goto("install")
  /\ UNCHANGED <<flash, running, mode, onTrial, profile, offer, bounds>>

\* publish_samples reached the broker and drained the retained offer, if the
\* broker delivered it within the drain window.
PublishOk ==
  /\ pc = "publish" /\ Image \in Publishes
  /\ proven' = proven \cup {Image}
  /\ drained' \in {offer, NoOffer}
  /\ Goto(IF onTrial THEN "confirm" ELSE "install")
  /\ UNCHANGED <<flash, running, mode, onTrial, profile, offer, bounds>>

\* The end of a round: asleep, round the stay-awake loop, or the evening.
RoundEnds ==
  \/ mode = "sleeping" /\ Reset("wake")
  \/ mode = "awake" /\ Goto("attempt") /\ UNCHANGED boot
  \/ mode = "awake" /\ profile # "mains" /\ Reset("wake")
  \/ mode = "lamp" /\ Goto("evening") /\ UNCHANGED boot

PublishFails ==
  /\ pc = "publish"
  /\ RoundEnds
  /\ UNCHANGED <<flash, world, bounds>>

\* ota_confirm: a record that cannot be cleared is logged, and the round goes
\* on as if it had been.
Confirm ==
  /\ pc = "confirm"
  /\ \/ /\ record' = NoRecord
        /\ UNCHANGED <<otadata, bootLog, slots>> /\ FlashHolds
     \/ FlashFails
  /\ onTrial' = FALSE
  /\ Goto("install")
  /\ UNCHANGED <<running, mode, drained, world>>

-----------------------------------------------------------------------------
(* run_update: install_if_offered on the offer the round brought back. *)

\* No offer, one that names the running version, one that does not parse, a
\* server that cannot be reached or answers with something else.
InstallNothing ==
  /\ pc = "install"
  /\ RoundEnds
  /\ UNCHANGED <<flash, world, bounds>>

\* The first sector of the image goes into the slot that is not running.
StartDownload ==
  /\ pc = "install"
  /\ drained \notin {NoOffer, Image}
  /\ NextSeq(otadata) <= MaxSeq
  /\ slots' = [slots EXCEPT ![TargetSlot(otadata)] = Torn]
  /\ Goto("download")
  /\ UNCHANGED <<otadata, record, bootLog, boot, world, bounds>>

\* slip: neither length nor digest is checked
FinishDownloadUnchecked ==
  /\ pc = "download"
  /\ Goto("act_record")
  /\ UNCHANGED <<flash, boot, world, bounds>>

\* Writer::finish: length and digest match the offer.
FinishDownload ==
  /\ pc = "download"
  /\ slots' = [slots EXCEPT ![TargetSlot(otadata)] = drained]
  /\ Goto("act_record")
  /\ UNCHANGED <<otadata, record, bootLog, boot, world, bounds>>

\* Over budget, short, long, the wrong digest, or a sector write that failed.
AbandonDownload ==
  /\ pc = "download"
  /\ RoundEnds
  /\ UNCHANGED <<flash, world, bounds>>

\* slip: the selector is written without a record
ActivateRecordNever ==
  /\ pc = "act_record"
  /\ Goto("act_select")
  /\ UNCHANGED <<flash, boot, world, bounds>>

\* activate: the record is written before the selector.
ActivateRecord ==
  /\ pc = "act_record"
  /\ \/ /\ record' = [seq |-> NextSeq(otadata), attempts |-> 0]
        /\ Goto("act_select")
        /\ UNCHANGED <<otadata, bootLog, slots, boot>> /\ FlashHolds
     \/ FlashFails /\ RoundEnds
  /\ UNCHANGED world

ActivateSelect ==
  /\ pc = "act_select"
  /\ \/ /\ otadata' = Reselect(otadata)
        /\ Reset("boot")
        /\ UNCHANGED <<record, bootLog, slots>> /\ FlashHolds
     \/ FlashFails /\ RoundEnds
  /\ UNCHANGED world

-----------------------------------------------------------------------------
(* The lamp's evening: the loop of run_lamp on a network that is up. *)

\* A publish every five minutes, and a last one before sleeping; the attempt
\* is not counted again.
Republish ==
  /\ pc = "evening" /\ mode = "lamp"
  /\ Goto("publish")
  /\ UNCHANGED <<flash, boot, world, bounds>>

\* LAMP_TRIAL_WINDOW: an image that stays silent restarts itself.
TrialExpires ==
  /\ pc = "evening" /\ onTrial
  /\ Reset("boot")
  /\ UNCHANGED <<flash, world, bounds>>

EveningEnds ==
  /\ pc = "evening"
  /\ Reset("wake")
  /\ UNCHANGED <<flash, world, bounds>>

-----------------------------------------------------------------------------
(* The world. *)

\* custom_halt after a panic, a watchdog, or the reset that follows stored
\* provisioning; never in the middle of a flash write.
Restart ==
  /\ pc \in {"join", "publish", "install", "download", "evening"}
  /\ Reset("boot")
  /\ UNCHANGED <<flash, world, bounds>>

\* The record the rewrite in progress would leave.
WrittenRecord ==
  CASE pc = "note"       -> record
    [] pc = "attempt"    -> [seq |-> Seq, attempts |-> record.attempts + 1]
    [] pc = "act_record" -> [seq |-> NextSeq(otadata), attempts |-> 0]
    [] OTHER             -> NoRecord

RewritesRecord ==
  \/ pc = "note" /\ bootLog < MAX_RECORDED_BOOTS
  \/ pc = "attempt" /\ OnAttempt(record, Seq, MAX_ATTEMPTS) = "Trying"
  \/ pc \in {"rb_clear", "confirm", "act_record"}

\* The cut found the record sector erased, or only its front programmed: the
\* record is at the start of the sector, the boot log behind it.
TearRecord ==
  /\ TornRecords /\ RewritesRecord
  /\ record' \in {NoRecord, WrittenRecord}
  /\ bootLog' = 0
  /\ UNCHANGED <<otadata, slots>>

\* The cut found the selector entry erased or half programmed.
TearSelector ==
  /\ pc \in {"rb_select", "act_select"}
  /\ otadata' = [otadata EXCEPT ![TargetEntry(otadata)] = 0]
  /\ UNCHANGED <<record, bootLog, slots>>

PowerCut ==
  /\ cuts < MaxCuts /\ cuts' = cuts + 1
  /\ TearRecord \/ TearSelector \/ UNCHANGED flash
  /\ Reset("boot")
  /\ UNCHANGED <<world, faults>>

\* The operator publishes, replaces or withdraws the retained offer.
Publication ==
  /\ offer' \in (Images \cup {NoOffer}) \ {offer}
  /\ UNCHANGED <<flash, pc, boot, profile, proven, bounds>>

Program ==
  \/ Boot \/ NoteBoot
  \/ JoinOk \/ JoinTimesOut
  \/ BeginAttempt \/ RollBackSelect \/ RollBackClear
  \/ PublishOk \/ PublishFails \/ Confirm
  \/ InstallNothing \/ StartDownload \/ FinishDownload \/ AbandonDownload
  \/ ActivateRecord \/ ActivateSelect
  \/ Republish \/ TrialExpires \/ EveningEnds

Next == Program \/ RadioFails \/ Restart \/ PowerCut \/ Publication

Spec == Init /\ [][Next]_vars

(***************************************************************************)
(* The executor keeps the node moving; a network that an image can use is  *)
(* usable often enough for the image to join it in the end; the clock that *)
(* ends a lamp's trial keeps running.                                      *)
(***************************************************************************)
Fairness == WF_vars(Program) /\ SF_vars(JoinOk) /\ SF_vars(TrialExpires)

FairSpec == Spec /\ Fairness

-----------------------------------------------------------------------------
(* Properties. *)

Selected == slots[ActiveSlot(otadata)]
Fallback == slots[TargetSlot(otadata)]
TrialOn == OnTrial(record, Seq)

\* The slot the selector names always holds a whole image, whatever was cut,
\* abandoned or refused on the way (src/ota.rs activate, roll_back, Writer).
SelectionBootable == Selected # Torn

\* An image that came over the air and has never completed a publish round is
\* on record as such, so that its attempts are counted (docs/ota.md, rule 1).
UnprovedOnRecord == Seq # 0 /\ Selected \notin proven => TrialOn

\* A trial can always end: the other slot holds an image that has published
\* (docs/ota.md: "The old image is still there -- that is the point of A/B").
TrialHasWayBack == TrialOn => Fallback \in proven

\* The slot that is executing is never written (src/main.rs run_update: "the
\* slot being written is the inactive one").
RunningSlotNeverWritten ==
  [][pc \notin {"boot", "wake"} => slots'[running] = slots[running]]_vars

\* Sequence numbers only ever go up, through cuts in the middle of a selector
\* write as well (src/ota.rs target_entry, roll_back).
SelectorOnlyClimbs == [][ActiveSeq(otadata') >= Seq]_vars

\* An image able to join but never to publish does not keep the node: it is
\* rolled back, in every mode of operation (src/ota.rs module header).
LeavesMuteImage ==
  \A i \in Joins \ Publishes :
    (pc = "join" /\ Image = i) ~> (pc = "join" /\ Image # i)

\* The rule of the header in full: an image that does not complete a publish
\* round gives the node back, a wrong SSID included.
LeavesDeafImage ==
  \A i \in Images \ Joins :
    (pc = "join" /\ Image = i) ~> (pc = "join" /\ Image # i)

\* The promise of an update, read off the flash: a trial is a record about
\* the selected number, its fallback the other slot.
Promise == INSTANCE TrialUpdate WITH
  Image <- Images, Nothing <- Torn, MaxTries <- MAX_ATTEMPTS,
  image <- Selected,
  fallback <- IF TrialOn THEN Fallback ELSE Torn,
  tries <- IF TrialOn THEN record.attempts ELSE 0,
  heard <- proven

\* Every step of the node, power cuts and failed writes included, is a step of
\* the promised update or leaves it alone (src/ota.rs, docs/ota.md): images
\* change only by a handover from one that was heard, or, after MAX_ATTEMPTS
\* counted rounds and no fewer, back to exactly the one that handed over.
KeepsPromise == Promise!Spec
=============================================================================
