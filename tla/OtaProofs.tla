----------------------------- MODULE OtaProofs -----------------------------
(***************************************************************************)
(* What an over-the-air update can never do, for any set of images, any    *)
(* number of attempts, power cuts and failed writes.                       *)
(***************************************************************************)
EXTENDS Ota, TLAPS

-----------------------------------------------------------------------------
(* The selector. *)

\* The parity that ties a number to a slot: consecutive numbers alternate.
LEMMA SlotAlternates ==
  ASSUME NEW n \in Nat, n # 0
  PROVE  /\ SlotForSeq(n) \in Slot
         /\ SlotForSeq(n + 1) = 1 - SlotForSeq(n)
  BY DEF SlotForSeq, Slot

LEMMA SelectorTypes ==
  ASSUME NEW e \in [Entry -> Nat]
  PROVE  /\ EntryIndex(e) \in Entry /\ TargetEntry(e) \in Entry
         /\ TargetEntry(e) # EntryIndex(e)
         /\ ActiveSeq(e) \in Nat
         /\ ActiveSlot(e) \in Slot /\ TargetSlot(e) \in Slot
         /\ TargetSlot(e) # ActiveSlot(e)
<1>1. EntryIndex(e) \in Entry /\ TargetEntry(e) \in Entry /\ TargetEntry(e) # EntryIndex(e)
  BY DEF EntryIndex, TargetEntry, Entry
<1>2. ActiveSeq(e) \in Nat
  BY <1>1 DEF ActiveSeq
<1>3. ActiveSlot(e) \in Slot
  BY <1>2, SlotAlternates DEF ActiveSlot, Slot
<1>4. TargetSlot(e) \in Slot /\ TargetSlot(e) # ActiveSlot(e)
  BY <1>3 DEF TargetSlot, Slot
<1> QED BY <1>1, <1>2, <1>3, <1>4

\* The next number outranks the one in force and names the other slot.
LEMMA NextSeqNamesTarget ==
  ASSUME NEW e \in [Entry -> Nat]
  PROVE  /\ NextSeq(e) \in Nat /\ NextSeq(e) > ActiveSeq(e)
         /\ SlotForSeq(NextSeq(e)) = TargetSlot(e)
<1> DEFINE q == ActiveSeq(e)
<1>1. q \in Nat
  BY SelectorTypes
<1>2. CASE q = 0
  <2>1. TargetSlot(e) = 1 /\ SlotForSeq(q + 1) = 0 /\ SlotForSeq(q + 2) = 1
    BY <1>2 DEF TargetSlot, ActiveSlot, SlotForSeq
  <2> QED BY <1>2, <2>1 DEF NextSeq
<1>3. CASE q # 0
  <2>1. ActiveSlot(e) = SlotForSeq(q)
    BY <1>3 DEF ActiveSlot
  <2>2. SlotForSeq(q + 1) = TargetSlot(e)
    BY <1>1, <1>3, <2>1, SlotAlternates DEF TargetSlot
  <2> QED BY <1>1, <2>2 DEF NextSeq
<1> QED BY <1>2, <1>3

\* Rewriting the entry that did not win selects the other slot ...
LEMMA ReselectSwitches ==
  ASSUME NEW e \in [Entry -> Nat]
  PROVE  /\ Reselect(e) \in [Entry -> Nat]
         /\ ActiveSeq(Reselect(e)) = NextSeq(e)
         /\ ActiveSlot(Reselect(e)) = TargetSlot(e)
         /\ TargetSlot(Reselect(e)) = ActiveSlot(e)
<1>1. NextSeq(e) \in Nat /\ NextSeq(e) > ActiveSeq(e) /\ ActiveSeq(e) \in Nat
  BY NextSeqNamesTarget, SelectorTypes
<1>2. Reselect(e) \in [Entry -> Nat]
  BY <1>1, SelectorTypes DEF Reselect
<1>3. ActiveSeq(Reselect(e)) = NextSeq(e)
  <2>1. CASE EntryIndex(e) = 0
    BY <1>1, <2>1 DEF Reselect, ActiveSeq, TargetEntry, EntryIndex, Entry
  <2>2. CASE EntryIndex(e) = 1
    BY <1>1, <2>2 DEF Reselect, ActiveSeq, TargetEntry, EntryIndex, Entry
  <2> QED BY <2>1, <2>2, SelectorTypes DEF Entry
<1>4. ActiveSlot(Reselect(e)) = TargetSlot(e)
  BY <1>1, <1>3, NextSeqNamesTarget DEF ActiveSlot
<1>5. TargetSlot(Reselect(e)) = ActiveSlot(e)
  BY <1>4, SelectorTypes DEF TargetSlot, Slot
<1> QED BY <1>2, <1>3, <1>4, <1>5

\* ... and losing it half way changes nothing.
LEMMA TearKeepsActive ==
  ASSUME NEW e \in [Entry -> Nat]
  PROVE  LET t == [e EXCEPT ![TargetEntry(e)] = 0]
         IN  /\ t \in [Entry -> Nat]
             /\ ActiveSeq(t) = ActiveSeq(e)
             /\ ActiveSlot(t) = ActiveSlot(e) /\ TargetSlot(t) = TargetSlot(e)
<1> DEFINE t == [e EXCEPT ![TargetEntry(e)] = 0]
<1>1. t \in [Entry -> Nat]
  BY SelectorTypes
<1>2. ActiveSeq(t) = ActiveSeq(e)
  <2>1. CASE EntryIndex(e) = 0
    BY <2>1 DEF ActiveSeq, TargetEntry, EntryIndex, Entry
  <2>2. CASE EntryIndex(e) = 1
    BY <2>2 DEF ActiveSeq, TargetEntry, EntryIndex, Entry
  <2> QED BY <2>1, <2>2, SelectorTypes DEF Entry
<1> QED BY <1>1, <1>2 DEF ActiveSlot, TargetSlot

-----------------------------------------------------------------------------
(***************************************************************************)
(* What holds whatever fails: the program runs the slot the selector       *)
(* names, except between the two writes of a rollback.                     *)
(***************************************************************************)
Booted == pc \notin {"boot", "wake", "rb_clear"}

RunningIsSelected == Booted => running = ActiveSlot(otadata)

SelectorInv ==
  /\ otadata \in [Entry -> Nat] /\ running \in Slot /\ DOMAIN slots = Slot
  /\ RunningIsSelected

LEMMA InitSelectorInv == Init => SelectorInv
  BY DEF Init, SelectorInv, RunningIsSelected, Booted, Slot

LEMMA StepSelectorInv ==
  ASSUME SelectorInv, [Next]_vars
  PROVE  SelectorInv'
<1> USE DEF SelectorInv, RunningIsSelected, Booted, Reset, Goto, flash, boot
<1>1. CASE UNCHANGED vars
  BY <1>1 DEF vars
<1>2. CASE Boot
  BY <1>2, SelectorTypes DEF Boot
<1>3. CASE NoteBoot \/ JoinOk \/ JoinTimesOut \/ RadioFails \/ BeginAttempt
  BY <1>3
  DEF NoteBoot, FlashFails, JoinOk, JoinTimesOut, RadioFails, BeginAttempt, RoundStarts
<1>4. CASE RollBackSelect
  BY <1>4, ReselectSwitches DEF RollBackSelect, FlashFails
<1>5. CASE RollBackClear
  BY <1>5 DEF RollBackClear, FlashFails
<1>6. CASE PublishOk \/ PublishFails \/ Confirm
  BY <1>6 DEF PublishOk, PublishFails, RoundEnds, Confirm, FlashFails
<1>7. CASE InstallNothing \/ StartDownload \/ FinishDownload \/ AbandonDownload
  BY <1>7 DEF InstallNothing, StartDownload, FinishDownload, AbandonDownload, RoundEnds
<1>8. CASE ActivateRecord
  BY <1>8 DEF ActivateRecord, FlashFails, RoundEnds
<1>9. CASE ActivateSelect
  BY <1>9, ReselectSwitches DEF ActivateSelect, FlashFails, RoundEnds
<1>10. CASE Republish \/ TrialExpires \/ EveningEnds \/ Restart \/ Publication
  BY <1>10 DEF Republish, TrialExpires, EveningEnds, Restart, Publication
<1>11. CASE PowerCut
  BY <1>11, TearKeepsActive DEF PowerCut, TearRecord, TearSelector
<1> QED
  BY <1>1, <1>2, <1>3, <1>4, <1>5, <1>6, <1>7, <1>8, <1>9, <1>10, <1>11
  DEF Next, Program

\* The slot that executes is never written, whatever is cut, refused or lost
\* (src/main.rs run_update, src/ota.rs target_slot).
THEOREM RunningSlotIsSafe == Spec => RunningSlotNeverWritten
<1>1. SelectorInv /\ [Next]_vars => [pc \notin {"boot", "wake"} => slots'[running] = slots[running]]_vars
  <2> SUFFICES ASSUME SelectorInv, Next
               PROVE  slots'[running] = slots[running]
    OBVIOUS
  <2>1. CASE StartDownload \/ FinishDownload
    <3>1. running # TargetSlot(otadata)
      BY <2>1, SelectorTypes
      DEF SelectorInv, RunningIsSelected, Booted, StartDownload, FinishDownload
    <3> QED BY <2>1, <3>1 DEF SelectorInv, StartDownload, FinishDownload
  <2>2. CASE UNCHANGED slots
    BY <2>2
  <2>3. StartDownload \/ FinishDownload \/ UNCHANGED slots
    <3>1. PowerCut => UNCHANGED slots
      BY DEF PowerCut, TearRecord, TearSelector, flash
    <3>2. ActivateRecord \/ ActivateSelect \/ Confirm => UNCHANGED slots
      BY DEF ActivateRecord, ActivateSelect, Confirm, FlashFails, flash
    <3>3. NoteBoot \/ BeginAttempt \/ RollBackSelect \/ RollBackClear => UNCHANGED slots
      BY DEF NoteBoot, BeginAttempt, RollBackSelect, RollBackClear, FlashFails, flash
    <3> QED BY <3>1, <3>2, <3>3
         DEF Next, Program, Boot, JoinOk, JoinTimesOut, RadioFails, PublishOk,
             PublishFails, InstallNothing, AbandonDownload, Republish, TrialExpires,
             EveningEnds, Restart, Publication, flash
  <2> QED BY <2>1, <2>2, <2>3
<1> QED BY InitSelectorInv, StepSelectorInv, <1>1, PTL DEF Spec, RunningSlotNeverWritten

\* No step, and no cut in the middle of one, lowers the number in force
\* (src/ota.rs target_entry, next_seq, roll_back).
THEOREM SelectorClimbs == Spec => SelectorOnlyClimbs
<1>1. SelectorInv /\ [Next]_vars => [ActiveSeq(otadata') >= Seq]_vars
  <2> SUFFICES ASSUME SelectorInv, Next
               PROVE  ActiveSeq(otadata') >= Seq
    OBVIOUS
  <2>1. Seq \in Nat
    BY SelectorTypes DEF SelectorInv, Seq
  <2>2. CASE UNCHANGED otadata
    BY <2>1, <2>2 DEF Seq
  <2>3. CASE otadata' = Reselect(otadata)
    BY <2>1, <2>3, ReselectSwitches, NextSeqNamesTarget DEF SelectorInv, Seq
  <2>4. CASE TearSelector
    <3>1. ActiveSeq(otadata') = Seq
      BY <2>4, TearKeepsActive DEF SelectorInv, Seq, TearSelector
    <3> QED BY <2>1, <3>1
  <2>5. UNCHANGED otadata \/ otadata' = Reselect(otadata) \/ TearSelector
    <3>1. PowerCut => UNCHANGED otadata \/ TearSelector
      BY DEF PowerCut, TearRecord, flash
    <3>2. RollBackSelect \/ ActivateSelect => UNCHANGED otadata \/ otadata' = Reselect(otadata)
      BY DEF RollBackSelect, ActivateSelect, FlashFails, flash
    <3>3. ActivateRecord \/ Confirm \/ NoteBoot \/ BeginAttempt \/ RollBackClear
          => UNCHANGED otadata
      BY DEF ActivateRecord, Confirm, NoteBoot, BeginAttempt, RollBackClear, FlashFails, flash
    <3> QED BY <3>1, <3>2, <3>3
         DEF Next, Program, Boot, JoinOk, JoinTimesOut, RadioFails, PublishOk,
             PublishFails, InstallNothing, StartDownload, FinishDownload,
             AbandonDownload, Republish, TrialExpires, EveningEnds, Restart,
             Publication, flash
  <2> QED BY <2>2, <2>3, <2>4, <2>5
<1> QED BY InitSelectorInv, StepSelectorInv, <1>1, PTL DEF Spec, SelectorOnlyClimbs

-----------------------------------------------------------------------------
(***************************************************************************)
(* The inductive invariant.  The four properties do not follow from one    *)
(* another step by step: what an install may overwrite depends on what the *)
(* round before it proved, and that lives in pc and in RAM until the       *)
(* selector is written.                                                    *)
(***************************************************************************)
Installing == pc \in {"install", "download", "act_record", "act_select"}

\* An update starts from an image that has just been heard and is not on trial.
InstallsFromProven == Installing => Selected \in proven /\ ~TrialOn
ConfirmsProven == pc = "confirm" => Selected \in proven
\* What the round believes about the trial is what the flash says.
RoundKnowsTrial == pc \in {"publish", "evening"} /\ TrialOn => onTrial
OfferIsAnother ==
  pc \in {"download", "act_record", "act_select"} => drained \notin {NoOffer, Selected}
TargetIsWhole == pc \in {"act_record", "act_select"} => Fallback = drained
RecordIsAhead ==
  pc = "act_select" => record = [seq |-> NextSeq(otadata), attempts |-> 0]
\* A rollback has used up its attempts, and lands on a proven image.
RollBackIsDue ==
  /\ pc = "rb_select" => TrialOn /\ record.attempts = MAX_ATTEMPTS
  /\ pc = "rb_clear" => Selected \in proven /\ ~TrialOn

IInv ==
  /\ TypeOK
  /\ RunningIsSelected
  /\ SelectionBootable
  /\ TrialHasWayBack
  /\ InstallsFromProven /\ ConfirmsProven /\ RoundKnowsTrial
  /\ OfferIsAnother /\ TargetIsWhole /\ RecordIsAhead /\ RollBackIsDue

LEMMA InitIInv == Init => IInv
<1> SUFFICES ASSUME Init PROVE IInv
  OBVIOUS
<1>1. TypeOK
  <2>1. otadata \in [Entry -> Nat]
    BY DEF Init
  <2>2. slots \in [Slot -> Images \cup {Torn}] /\ running \in Slot
    BY OtaAssumption DEF Init, Slot
  <2>3. /\ bootLog \in 0..MAX_RECORDED_BOOTS /\ cuts \in 0..MaxCuts
        /\ faults \in 0..MaxFaults
    BY OtaAssumption DEF Init
  <2> QED BY <2>1, <2>2, <2>3 DEF Init, TypeOK, Steps, Writes, Mode
<1>2. ActiveSlot(otadata) = 0
  BY DEF Init, Entry, ActiveSlot, ActiveSeq, EntryIndex
<1>3. Selected = Cabled /\ ~TrialOn
  BY <1>2 DEF Init, Selected, TrialOn, OnTrial, Slot
<1> QED
  BY <1>1, <1>2, <1>3, OtaAssumption
  DEF Init, IInv, Booted, Installing, RunningIsSelected, SelectionBootable,
      TrialHasWayBack, InstallsFromProven, ConfirmsProven, RoundKnowsTrial,
      OfferIsAnother, TargetIsWhole, RecordIsAhead, RollBackIsDue

\* A record found after a cut is about a trial only if there was one.
LEMMA TornRecordIsNoTrial ==
  ASSUME TypeOK, TearRecord
  PROVE  /\ record' \in [seq : Nat, attempts : 0..MAX_ATTEMPTS] \cup {NoRecord}
         /\ TrialOn' => TrialOn
<1> USE OtaAssumption DEF TypeOK, TrialOn, OnTrial, Seq
<1>1. UNCHANGED otadata /\ RewritesRecord /\ record' \in {NoRecord, WrittenRecord}
  BY DEF TearRecord
<1>2. CASE record' = NoRecord
  BY <1>2
<1>3. CASE pc = "note" /\ record' = WrittenRecord
  BY <1>1, <1>3 DEF WrittenRecord
<1>4. CASE pc = "attempt" /\ record' = WrittenRecord
  <2>1. TrialOn /\ record.attempts + 1 \in 0..MAX_ATTEMPTS
    BY <1>1, <1>4 DEF RewritesRecord, OnAttempt
  <2> QED BY <1>4, <2>1, SelectorTypes DEF WrittenRecord
<1>5. CASE pc = "act_record" /\ record' = WrittenRecord
  <2>1. record' = [seq |-> NextSeq(otadata), attempts |-> 0]
    BY <1>5 DEF WrittenRecord
  <2>2. NextSeq(otadata) \in Nat /\ NextSeq(otadata) # ActiveSeq(otadata)
    BY NextSeqNamesTarget, SelectorTypes
  <2> QED BY <1>1, <2>1, <2>2
<1>6. CASE pc \in {"rb_clear", "confirm"} /\ record' = WrittenRecord
  BY <1>6 DEF WrittenRecord
<1> QED
  BY <1>1, <1>2, <1>3, <1>4, <1>5, <1>6 DEF RewritesRecord

LEMMA StepIInv ==
  ASSUME "confirm" \notin FaultAt, IInv, [Next]_vars
  PROVE  IInv'
<1> USE OtaAssumption, NoRecordAssumption
    DEF IInv, TypeOK, Booted, Installing, RunningIsSelected, SelectionBootable,
        TrialHasWayBack, InstallsFromProven, ConfirmsProven, RoundKnowsTrial,
        OfferIsAnother, TargetIsWhole, RecordIsAhead, RollBackIsDue, TrialOn,
        OnTrial, Selected, Fallback, Seq, Image, flash, boot, world, bounds,
        FlashHolds, Goto, Steps, Writes, Mode
<1>1. CASE UNCHANGED vars
  BY <1>1 DEF vars
<1>2. CASE Boot
  BY <1>2, SelectorTypes DEF Boot
<1>3. CASE NoteBoot
  BY <1>3 DEF NoteBoot, FlashFails
<1>4. CASE JoinOk
  BY <1>4 DEF JoinOk
<1>5. CASE JoinTimesOut
  BY <1>5 DEF JoinTimesOut, Reset
<1>6. CASE RadioFails
  BY <1>6 DEF RadioFails, Reset
<1>9. CASE PublishOk
  BY <1>9 DEF PublishOk
<1>10. CASE PublishFails
  BY <1>10 DEF PublishFails, RoundEnds, Reset
<1>11. CASE Confirm
  BY <1>11 DEF Confirm, FlashFails
<1>12. CASE InstallNothing
  BY <1>12 DEF InstallNothing, RoundEnds, Reset
<1>13. CASE StartDownload
  BY <1>13, SelectorTypes DEF StartDownload
<1>14. CASE FinishDownload
  BY <1>14, SelectorTypes DEF FinishDownload
<1>15. CASE AbandonDownload
  BY <1>15 DEF AbandonDownload, RoundEnds, Reset
<1>16. CASE ActivateRecord
  <2>1. CASE FlashFails /\ RoundEnds
    <3>1. pc = "act_record" /\ ~TrialOn /\ UNCHANGED <<flash, world, cuts>>
      BY <1>16, <2>1 DEF ActivateRecord, FlashFails
    <3>2. faults' \in 0..MaxFaults
      BY <2>1 DEF FlashFails
    <3> QED BY <2>1, <3>1, <3>2 DEF RoundEnds, Reset
  <2>2. CASE ~(FlashFails /\ RoundEnds)
    <3>1. /\ record' = [seq |-> NextSeq(otadata), attempts |-> 0] /\ pc' = "act_select"
          /\ UNCHANGED <<otadata, bootLog, slots, boot, world, bounds>>
      BY <1>16, <2>2 DEF ActivateRecord
    <3>2. record' \in Pending /\ record' # NoRecord /\ record'.seq # Seq
      BY <3>1, NextSeqNamesTarget, SelectorTypes DEF Pending
    <3>3. ~TrialOn'
      BY <3>1, <3>2
    <3>4. TypeOK'
      BY <3>1, NextSeqNamesTarget
    <3> QED BY <1>16, <3>1, <3>3, <3>4 DEF ActivateRecord
  <2> QED BY <2>1, <2>2
<1>17. CASE ActivateSelect
  <2>1. CASE FlashFails /\ RoundEnds
    <3>1. pc = "act_select" /\ ~TrialOn /\ UNCHANGED <<flash, world, cuts>>
      BY <1>17, <2>1 DEF ActivateSelect, FlashFails
    <3>2. faults' \in 0..MaxFaults
      BY <2>1 DEF FlashFails
    <3> QED BY <2>1, <3>1, <3>2 DEF RoundEnds, Reset
  <2>2. CASE ~(FlashFails /\ RoundEnds)
    <3>1. /\ otadata' = Reselect(otadata) /\ pc = "act_select" /\ Reset("boot")
          /\ UNCHANGED <<record, bootLog, slots, world, bounds>>
      BY <1>17, <2>2 DEF ActivateSelect
    <3>2. Selected' = Fallback /\ Fallback' = Selected
      BY <3>1, ReselectSwitches
    <3>3. TypeOK'
      BY <3>1, ReselectSwitches DEF Reset
    <3> QED BY <3>1, <3>2, <3>3 DEF Reset
  <2> QED BY <2>1, <2>2
<1>18. CASE Republish
  BY <1>18 DEF Republish
<1>19. CASE TrialExpires
  BY <1>19 DEF TrialExpires, Reset
<1>20. CASE EveningEnds
  BY <1>20 DEF EveningEnds, Reset
<1>21. CASE Restart
  BY <1>21 DEF Restart, Reset
<1>22. CASE PowerCut
  <2> USE DEF Reset
  <2>0. /\ Reset("boot") /\ UNCHANGED <<world, faults>> /\ cuts' \in 0..MaxCuts
    BY <1>22 DEF PowerCut
  <2>1. CASE UNCHANGED flash
    <3>1. TypeOK'
      BY <2>0, <2>1
    <3> QED BY <2>0, <2>1, <3>1
  <2>2. CASE TearSelector
    <3>1. /\ otadata' \in [Entry -> Nat] /\ Seq' = Seq
          /\ Selected' = Selected /\ Fallback' = Fallback
          /\ UNCHANGED <<record, bootLog, slots>>
      BY <2>2, TearKeepsActive DEF TearSelector
    <3>2. TypeOK'
      BY <2>0, <3>1
    <3> QED BY <2>0, <3>1, <3>2
  <2>3. CASE TearRecord
    <3>1. UNCHANGED <<otadata, slots>> /\ bootLog' \in 0..MAX_RECORDED_BOOTS
      BY <2>3 DEF TearRecord
    <3>2. /\ record' \in [seq : Nat, attempts : 0..MAX_ATTEMPTS] \cup {NoRecord}
          /\ TrialOn' => TrialOn
      BY <2>3, TornRecordIsNoTrial
    <3>3. TypeOK'
      BY <2>0, <3>1, <3>2
    <3> QED BY <2>0, <3>1, <3>2, <3>3
  <2> QED BY <1>22, <2>1, <2>2, <2>3 DEF PowerCut
<1>23. CASE Publication
  BY <1>23 DEF Publication
<1>7. CASE BeginAttempt
  <2>1. CASE OnAttempt(record, Seq, MAX_ATTEMPTS) = "Nothing"
    BY <1>7, <2>1 DEF BeginAttempt, OnAttempt, RoundStarts
  <2>2. CASE OnAttempt(record, Seq, MAX_ATTEMPTS) = "RollBack"
    <3>1. TrialOn /\ record.attempts = MAX_ATTEMPTS
      BY <2>2 DEF OnAttempt
    <3> QED BY <1>7, <2>2, <3>1 DEF BeginAttempt
  <2>3. CASE OnAttempt(record, Seq, MAX_ATTEMPTS) = "Trying"
    <3>1. TrialOn /\ record.attempts + 1 \in 0..MAX_ATTEMPTS
      BY <2>3 DEF OnAttempt
    <3>2. /\ pc = "attempt" /\ RoundStarts /\ onTrial' = TRUE
          /\ UNCHANGED <<otadata, slots, bootLog, running, mode, drained, world, cuts>>
          /\ faults' \in 0..MaxFaults
      BY <1>7, <2>3 DEF BeginAttempt, FlashFails
    <3>3. \/ record' = record
          \/ record' = [seq |-> Seq, attempts |-> record.attempts + 1]
      BY <1>7, <2>3 DEF BeginAttempt, FlashFails
    <3>4. record' \in [seq : Nat, attempts : 0..MAX_ATTEMPTS] /\ record'.seq = Seq
      BY <3>1, <3>3, SelectorTypes
    <3>5. pc' \in {"evening", "publish"}
      BY <3>2 DEF RoundStarts
    <3>6. TypeOK'
      BY <3>2, <3>4, <3>5
    <3> QED BY <3>1, <3>2, <3>5, <3>6
  <2> QED BY <2>1, <2>2, <2>3 DEF OnAttempt
<1>8. CASE RollBackSelect
  <2>1. CASE FlashFails /\ Reset("boot")
    <3>1. UNCHANGED <<flash, world, cuts>> /\ faults' \in 0..MaxFaults
      BY <1>8, <2>1 DEF RollBackSelect, FlashFails
    <3> QED BY <2>1, <3>1 DEF Reset
  <2>2. CASE ~(FlashFails /\ Reset("boot"))
    <3>1. /\ otadata' = Reselect(otadata) /\ pc = "rb_select" /\ pc' = "rb_clear"
          /\ UNCHANGED <<record, bootLog, slots, boot, world, bounds>>
      BY <1>8, <2>2 DEF RollBackSelect
    <3>2. Selected' = Fallback /\ Seq' = NextSeq(otadata)
      BY <3>1, ReselectSwitches
    <3>3. ~TrialOn'
      BY <3>1, <3>2, NextSeqNamesTarget, SelectorTypes
    <3>4. TypeOK'
      BY <3>1, ReselectSwitches
    <3>5. Fallback \in proven
      BY <3>1
    <3> QED BY <3>1, <3>2, <3>3, <3>4, <3>5
  <2> QED BY <2>1, <2>2
<1>24. CASE RollBackClear
  <2>1. /\ pc = "rb_clear" /\ Reset("boot") /\ record' \in {record, NoRecord}
        /\ UNCHANGED <<otadata, bootLog, slots, world, cuts>> /\ faults' \in 0..MaxFaults
    BY <1>24 DEF RollBackClear, FlashFails
  <2>2. TypeOK'
    BY <2>1 DEF Reset
  <2> QED BY <2>1, <2>2 DEF Reset
<1> QED
  BY <1>1, <1>2, <1>3, <1>4, <1>5, <1>6, <1>7, <1>8, <1>9, <1>10, <1>11, <1>12,
     <1>13, <1>14, <1>15, <1>16, <1>17, <1>18, <1>19, <1>20, <1>21, <1>22, <1>23, <1>24
  DEF Next, Program

-----------------------------------------------------------------------------
(***************************************************************************)
(* Types need no more than that a download is of an offer, and so hold     *)
(* whichever writes fail, a confirmation's included.                       *)
(***************************************************************************)
TypeInv == TypeOK /\ (pc = "download" => drained # NoOffer)

LEMMA StepTypeInv ==
  ASSUME TypeInv, [Next]_vars
  PROVE  TypeInv'
<1> USE OtaAssumption, NoRecordAssumption
    DEF TypeInv, TypeOK, Seq, Image, flash, boot, world, bounds, FlashHolds, Goto, Reset,
        Steps, Writes, Mode
<1>1. CASE UNCHANGED vars
  BY <1>1 DEF vars
<1>2. CASE Boot
  BY <1>2, SelectorTypes DEF Boot
<1>3. CASE NoteBoot
  BY <1>3 DEF NoteBoot, FlashFails
<1>4. CASE JoinOk \/ JoinTimesOut \/ RadioFails
  BY <1>4 DEF JoinOk, JoinTimesOut, RadioFails
<1>5. CASE BeginAttempt
  <2>1. CASE OnAttempt(record, Seq, MAX_ATTEMPTS) # "Trying"
    BY <1>5, <2>1 DEF BeginAttempt, OnAttempt, RoundStarts
  <2>2. CASE OnAttempt(record, Seq, MAX_ATTEMPTS) = "Trying"
    <3>1. /\ pc = "attempt" /\ RoundStarts /\ onTrial' = TRUE
          /\ UNCHANGED <<otadata, slots, bootLog, running, mode, drained, world, cuts>>
          /\ faults' \in 0..MaxFaults
          /\ \/ record' = record
             \/ record' = [seq |-> Seq, attempts |-> record.attempts + 1]
      BY <1>5, <2>2 DEF BeginAttempt, FlashFails
    <3>2. record # NoRecord /\ record.attempts < MAX_ATTEMPTS
      BY <2>2 DEF OnAttempt, OnTrial
    <3>3. record' \in [seq : Nat, attempts : 0..MAX_ATTEMPTS] \cup {NoRecord}
      BY <3>1, <3>2, SelectorTypes
    <3> QED BY <3>1, <3>3 DEF RoundStarts
  <2> QED BY <2>1, <2>2
<1>6. CASE RollBackSelect \/ ActivateSelect
  <2>1. /\ otadata' = Reselect(otadata) \/ UNCHANGED otadata
        /\ UNCHANGED <<record, bootLog, slots, running, world, cuts>>
        /\ UNCHANGED faults \/ faults' \in 0..MaxFaults
    BY <1>6 DEF RollBackSelect, ActivateSelect, FlashFails, RoundEnds
  <2>2. otadata' \in [Entry -> Nat]
    BY <2>1, ReselectSwitches
  <2>3. \/ pc' \in Steps \ {"download"} /\ UNCHANGED <<mode, onTrial, drained>>
        \/ Reset("boot") \/ Reset("wake")
    BY <1>6 DEF RollBackSelect, ActivateSelect, RoundEnds
  <2> QED BY <2>1, <2>2, <2>3
<1>7. CASE RollBackClear \/ Confirm
  <2>1. /\ record' \in {record, NoRecord} /\ pc' \in {"boot", "install"}
        /\ UNCHANGED <<otadata, bootLog, slots, running, world, cuts>>
        /\ UNCHANGED faults \/ faults' \in 0..MaxFaults
    BY <1>7 DEF RollBackClear, Confirm, FlashFails
  <2>2. mode' \in {mode, "off"} /\ onTrial' = FALSE /\ drained' \in {drained, NoOffer}
    BY <1>7 DEF RollBackClear, Confirm
  <2> QED BY <2>1, <2>2
<1>8. CASE PublishOk \/ PublishFails
  BY <1>8 DEF PublishOk, PublishFails, RoundEnds
<1>9. CASE InstallNothing \/ StartDownload \/ FinishDownload \/ AbandonDownload
  BY <1>9, SelectorTypes
  DEF InstallNothing, StartDownload, FinishDownload, AbandonDownload, RoundEnds
<1>10. CASE ActivateRecord
  <2>1. CASE FlashFails /\ RoundEnds
    <3>1. UNCHANGED <<flash, world, cuts>> /\ faults' \in 0..MaxFaults
      BY <1>10, <2>1 DEF ActivateRecord, FlashFails
    <3> QED BY <2>1, <3>1 DEF RoundEnds
  <2>2. CASE record' = [seq |-> NextSeq(otadata), attempts |-> 0] /\ pc' = "act_select"
              /\ UNCHANGED <<otadata, bootLog, slots, boot>> /\ FlashHolds
    <3>1. record' \in [seq : Nat, attempts : 0..MAX_ATTEMPTS]
      BY <2>2, NextSeqNamesTarget
    <3> QED BY <1>10, <2>2, <3>1 DEF ActivateRecord
  <2> QED BY <1>10, <2>1, <2>2 DEF ActivateRecord
<1>11. CASE Republish \/ TrialExpires \/ EveningEnds \/ Restart \/ Publication
  BY <1>11 DEF Republish, TrialExpires, EveningEnds, Restart, Publication
<1>12. CASE PowerCut
  <2>1. Reset("boot") /\ UNCHANGED <<world, faults>> /\ cuts' \in 0..MaxCuts
    BY <1>12 DEF PowerCut
  <2>2. CASE UNCHANGED flash
    BY <2>1, <2>2
  <2>3. CASE TearSelector
    <3>1. otadata' \in [Entry -> Nat]
      BY <2>3, TearKeepsActive DEF TearSelector
    <3> QED BY <2>1, <2>3, <3>1 DEF TearSelector
  <2>4. CASE TearRecord
    <3>1. record' \in [seq : Nat, attempts : 0..MAX_ATTEMPTS] \cup {NoRecord}
      BY <2>4, TornRecordIsNoTrial
    <3>2. UNCHANGED <<otadata, slots>> /\ bootLog' \in 0..MAX_RECORDED_BOOTS
      BY <2>4 DEF TearRecord
    <3> QED BY <2>1, <3>1, <3>2
  <2> QED BY <1>12, <2>2, <2>3, <2>4 DEF PowerCut
<1> QED
  BY <1>1, <1>2, <1>3, <1>4, <1>5, <1>6, <1>7, <1>8, <1>9, <1>10, <1>11, <1>12
  DEF Next, Program

\* Every variable keeps its type, the attempt count its bound of MAX_ATTEMPTS
\* (src/ota.rs on_attempt), whichever writes are cut or refused.
THEOREM TypeCorrect == Spec => []TypeOK
<1>1. Init => TypeInv
  BY InitIInv DEF Init, IInv, TypeInv
<1>2. TypeInv /\ [Next]_vars => TypeInv'
  BY StepTypeInv
<1>3. TypeInv => TypeOK
  BY DEF TypeInv
<1> QED BY <1>1, <1>2, <1>3, PTL DEF Spec

-----------------------------------------------------------------------------
(* What holds as long as a confirmation can always be stored. *)

LEMMA Invariant ==
  ASSUME "confirm" \notin FaultAt
  PROVE  Spec => []IInv
<1>1. IInv /\ [Next]_vars => IInv'
  BY StepIInv
<1> QED BY InitIInv, <1>1, PTL DEF Spec

\* No cut, abandoned download or refused write leaves the selector naming a
\* slot without a whole image (src/ota.rs activate, roll_back, Writer).
THEOREM AlwaysBootable ==
  ASSUME "confirm" \notin FaultAt
  PROVE  Spec => []SelectionBootable
<1>1. IInv => SelectionBootable
  BY DEF IInv
<1> QED BY Invariant, <1>1, PTL

\* While an image is on trial the other slot holds one that has published, so
\* that a rollback lands on it (docs/ota.md: "The old image is still there").
THEOREM AlwaysAWayBack ==
  ASSUME "confirm" \notin FaultAt
  PROVE  Spec => []TrialHasWayBack
<1>1. IInv => TrialHasWayBack
  BY DEF IInv
<1> QED BY Invariant, <1>1, PTL

-----------------------------------------------------------------------------
(* What needs whole records as well: a cut never lands inside their sector. *)

LEMMA StepUnproved ==
  ASSUME "confirm" \notin FaultAt, ~TornRecords,
         IInv, UnprovedOnRecord, [Next]_vars
  PROVE  UnprovedOnRecord'
<1> USE DEF UnprovedOnRecord, Selected, TrialOn, OnTrial, Seq
<1>1. CASE UNCHANGED <<otadata, record, slots>> /\ proven \subseteq proven'
  BY <1>1
<1>2. CASE BeginAttempt
  <2>1. CASE UNCHANGED record
    BY <1>2, <2>1 DEF BeginAttempt, FlashFails, flash, world
  <2>2. CASE record' = [seq |-> Seq, attempts |-> record.attempts + 1] /\ TrialOn
    <3>1. record' # NoRecord
      <4>1. record.attempts + 1 \in Nat /\ Seq \in Nat
        BY <2>2, OtaAssumption, SelectorTypes DEF IInv, TypeOK
      <4> QED BY <2>2, <4>1, NoRecordAssumption
    <3> QED BY <1>2, <2>2, <3>1 DEF BeginAttempt, FlashFails, flash, world
  <2> QED BY <1>2, <2>1, <2>2 DEF BeginAttempt, FlashFails, flash, OnAttempt
<1>3. CASE RollBackSelect
  <2>1. Fallback \in proven /\ otadata \in [Entry -> Nat]
    BY <1>3 DEF RollBackSelect, IInv, TypeOK, RollBackIsDue, TrialHasWayBack
  <2>2. UNCHANGED proven /\ UNCHANGED slots /\ UNCHANGED record
    BY <1>3 DEF RollBackSelect, FlashFails, flash, world
  <2>3. CASE otadata' = Reselect(otadata)
    BY <2>1, <2>2, <2>3, ReselectSwitches DEF Fallback
  <2>4. CASE UNCHANGED otadata
    BY <2>2, <2>4
  <2> QED BY <1>3, <2>3, <2>4 DEF RollBackSelect, FlashFails, flash
<1>4. CASE RollBackClear \/ Confirm \/ ActivateRecord
  <2>1. Selected \in proven
    BY <1>4
    DEF RollBackClear, Confirm, ActivateRecord, IInv, RollBackIsDue, ConfirmsProven,
        InstallsFromProven, Installing
  <2>2. UNCHANGED <<otadata, slots, proven>>
    BY <1>4 DEF RollBackClear, Confirm, ActivateRecord, FlashFails, flash, world
  <2> QED BY <2>1, <2>2
<1>5. CASE StartDownload \/ FinishDownload
  <2>1. Selected' = Selected
    BY <1>5, SelectorTypes DEF StartDownload, FinishDownload, IInv, TypeOK
  <2>2. UNCHANGED <<otadata, record, proven>>
    BY <1>5 DEF StartDownload, FinishDownload, world
  <2> QED BY <2>1, <2>2
<1>6. CASE ActivateSelect
  <2>1. /\ otadata \in [Entry -> Nat] /\ Selected \in proven
        /\ record = [seq |-> NextSeq(otadata), attempts |-> 0]
    BY <1>6 DEF ActivateSelect, IInv, TypeOK, RecordIsAhead, InstallsFromProven, Installing
  <2>2. UNCHANGED <<record, slots, proven>>
    BY <1>6 DEF ActivateSelect, FlashFails, flash, world
  <2>3. CASE otadata' = Reselect(otadata)
    <3>1. record # NoRecord
      BY <2>1, NextSeqNamesTarget, NoRecordAssumption
    <3> QED BY <2>1, <2>2, <2>3, <3>1, ReselectSwitches
  <2>4. CASE UNCHANGED otadata
    BY <2>2, <2>4
  <2> QED BY <1>6, <2>3, <2>4 DEF ActivateSelect, FlashFails, flash
<1>7. CASE PowerCut
  <2>1. UNCHANGED <<record, slots, proven>>
    BY <1>7 DEF PowerCut, TearRecord, TearSelector, flash, world
  <2>2. Seq' = Seq /\ ActiveSlot(otadata') = ActiveSlot(otadata)
    BY <1>7, TearKeepsActive
    DEF PowerCut, TearRecord, TearSelector, flash, IInv, TypeOK
  <2> QED BY <2>1, <2>2
<1>8. CASE UNCHANGED vars
  BY <1>1, <1>8 DEF vars, flash, world
<1>9. CASE NoteBoot \/ PublishOk
  BY <1>1, <1>9 DEF NoteBoot, PublishOk, FlashFails, flash, world
<1> QED
  BY <1>1, <1>2, <1>3, <1>4, <1>5, <1>6, <1>7, <1>8, <1>9
  DEF Next, Program, Boot, JoinOk, JoinTimesOut, RadioFails, PublishFails,
      InstallNothing, AbandonDownload, Republish, TrialExpires, EveningEnds,
      Restart, Publication, flash, world

\* An image that came over the air and has never been heard is on record, so
\* that its attempts are counted (docs/ota.md rule 1, src/ota.rs activate).
THEOREM UnprovedIsOnRecord ==
  ASSUME "confirm" \notin FaultAt, ~TornRecords
  PROVE  Spec => []UnprovedOnRecord
<1>1. Init => UnprovedOnRecord
  BY DEF Init, UnprovedOnRecord, Seq, ActiveSeq, EntryIndex, Entry
<1>2. IInv /\ UnprovedOnRecord /\ [Next]_vars => UnprovedOnRecord'
  BY StepUnproved
<1> QED BY Invariant, <1>1, <1>2, PTL DEF Spec

-----------------------------------------------------------------------------
(***************************************************************************)
(* The flash implements the abstract update: each write of a round is one  *)
(* abstract step, everything else leaves the four mapped values alone.     *)
(***************************************************************************)
LEMMA InitPromise == Init => Promise!Init
<1> SUFFICES ASSUME Init PROVE Promise!Init
  OBVIOUS
<1>1. ActiveSlot(otadata) = 0
  BY DEF Init, Entry, ActiveSlot, ActiveSeq, EntryIndex
<1>2. Selected = Cabled /\ ~TrialOn
  BY <1>1 DEF Init, Selected, TrialOn, OnTrial, Slot
<1> QED BY <1>2 DEF Init, Promise!Init

LEMMA StepPromise ==
  ASSUME "confirm" \notin FaultAt, ~TornRecords, IInv, [Next]_vars
  PROVE  [Promise!Next]_Promise!vars
<1> USE DEF TrialOn, OnTrial, Seq, Selected, Fallback
<1>0. /\ otadata \in [Entry -> Nat] /\ Torn \notin proven
      /\ record \in [seq : Nat, attempts : 0..MAX_ATTEMPTS] \cup {NoRecord}
      /\ TrialOn => Fallback # Torn
  BY OtaAssumption DEF IInv, TypeOK, TrialHasWayBack
<1>1. CASE UNCHANGED <<otadata, record, slots, proven>>
  BY <1>1 DEF Promise!vars
<1>2. CASE PublishOk
  <2>1. Image = Selected
    BY <1>2 DEF PublishOk, Image, IInv, RunningIsSelected, Booted
  <2>2. UNCHANGED <<otadata, record, slots>> /\ proven' = proven \cup {Selected}
    BY <1>2, <2>1 DEF PublishOk, flash
  <2> QED BY <2>2 DEF Promise!Next, Promise!Publish
<1>3. CASE BeginAttempt
  <2>1. UNCHANGED <<otadata, slots, proven>>
    BY <1>3 DEF BeginAttempt, FlashFails, flash, world
  <2>2. CASE UNCHANGED record
    BY <1>1, <2>1, <2>2
  <2>3. CASE /\ OnAttempt(record, Seq, MAX_ATTEMPTS) = "Trying"
             /\ record' = [seq |-> Seq, attempts |-> record.attempts + 1]
    <3>1. TrialOn /\ record.attempts \in Nat /\ record.attempts < MAX_ATTEMPTS
      BY <1>0, <2>3, OtaAssumption DEF OnAttempt
    <3>2. record' # NoRecord
      BY <1>0, <2>3, <3>1, NoRecordAssumption, SelectorTypes
    <3>3. TrialOn' /\ record'.attempts = record.attempts + 1
      BY <2>1, <2>3, <3>2
    <3>4. Selected' = Selected /\ Fallback' = Fallback
      BY <2>1
    <3>5. Promise!Try
      BY <1>0, <2>1, <3>1, <3>3, <3>4 DEF Promise!Try, Promise!Settled
    <3> QED BY <3>5 DEF Promise!Next
  <2> QED BY <1>3, <2>2, <2>3 DEF BeginAttempt, FlashFails, flash, OnAttempt
<1>4. CASE Confirm
  <2>1. UNCHANGED <<otadata, slots, proven>> /\ Selected \in proven /\ record' = NoRecord
    BY <1>4 DEF Confirm, FlashFails, world, IInv, ConfirmsProven
  <2>2. ~TrialOn' /\ Selected' = Selected
    BY <2>1
  <2>3. CASE TrialOn
    <3>1. Promise!Prove
      BY <1>0, <2>1, <2>2, <2>3 DEF Promise!Prove, Promise!Settled
    <3> QED BY <3>1 DEF Promise!Next
  <2>4. CASE ~TrialOn
    BY <2>1, <2>2, <2>4 DEF Promise!vars
  <2> QED BY <2>3, <2>4
<1>5. CASE StartDownload \/ FinishDownload
  <2>1. UNCHANGED <<otadata, record, proven>> /\ ~TrialOn
    BY <1>5 DEF StartDownload, FinishDownload, world, IInv, InstallsFromProven, Installing
  <2>2. Selected' = Selected
    BY <1>5, SelectorTypes DEF StartDownload, FinishDownload, IInv, TypeOK
  <2>3. ~TrialOn'
    BY <2>1
  <2> QED BY <2>1, <2>2, <2>3 DEF Promise!vars
<1>6. CASE ActivateRecord
  <2>1. UNCHANGED <<otadata, slots, proven>> /\ ~TrialOn
    BY <1>6 DEF ActivateRecord, FlashFails, flash, world, IInv, InstallsFromProven, Installing
  <2>2. CASE UNCHANGED record
    BY <1>1, <2>1, <2>2
  <2>3. CASE record' = [seq |-> NextSeq(otadata), attempts |-> 0]
    <3>1. record'.seq # Seq
      BY <1>0, <2>3, NextSeqNamesTarget, SelectorTypes
    <3>2. ~TrialOn' /\ Selected' = Selected
      BY <2>1, <3>1
    <3> QED BY <2>1, <3>2 DEF Promise!vars
  <2> QED BY <1>6, <2>2, <2>3 DEF ActivateRecord, FlashFails, flash
<1>7. CASE ActivateSelect
  <2>1. UNCHANGED <<record, slots, proven>>
    BY <1>7 DEF ActivateSelect, FlashFails, flash, world
  <2>2. CASE UNCHANGED otadata
    BY <1>1, <2>1, <2>2
  <2>3. CASE otadata' = Reselect(otadata)
    <3>1. /\ record = [seq |-> NextSeq(otadata), attempts |-> 0]
          /\ Selected \in proven /\ ~TrialOn /\ drained \in Images
          /\ Fallback = drained /\ drained # Selected
      BY <1>7
      DEF ActivateSelect, IInv, TypeOK, RecordIsAhead, InstallsFromProven, Installing,
          TargetIsWhole, OfferIsAnother
    <3>2. record # NoRecord
      BY <1>0, <3>1, NextSeqNamesTarget, NoRecordAssumption
    <3>3. TrialOn' /\ record'.attempts = 0 /\ Selected' = drained /\ Fallback' = Selected
      BY <1>0, <2>1, <2>3, <3>1, <3>2, ReselectSwitches
    <3>4. Promise!Update(drained)
      BY <2>1, <3>1, <3>3 DEF Promise!Update, Promise!Settled
    <3> QED BY <3>1, <3>4 DEF Promise!Next
  <2> QED BY <1>7, <2>2, <2>3 DEF ActivateSelect, FlashFails, flash
<1>8. CASE RollBackSelect
  <2>1. UNCHANGED <<record, slots, proven>>
    BY <1>8 DEF RollBackSelect, FlashFails, flash, world
  <2>2. CASE UNCHANGED otadata
    BY <1>1, <2>1, <2>2
  <2>3. CASE otadata' = Reselect(otadata)
    <3>1. TrialOn /\ record.attempts = MAX_ATTEMPTS
      BY <1>8 DEF RollBackSelect, IInv, RollBackIsDue
    <3>2. Seq' # Seq /\ Selected' = Fallback
      BY <1>0, <2>1, <2>3, ReselectSwitches, NextSeqNamesTarget, SelectorTypes
    <3>3. ~TrialOn'
      BY <2>1, <3>1, <3>2
    <3>4. Promise!Revert
      BY <1>0, <2>1, <3>1, <3>2, <3>3 DEF Promise!Revert, Promise!Settled
    <3> QED BY <3>4 DEF Promise!Next
  <2> QED BY <1>8, <2>2, <2>3 DEF RollBackSelect, FlashFails, flash
<1>9. CASE RollBackClear
  <2>1. UNCHANGED <<otadata, slots, proven>> /\ ~TrialOn /\ record' \in {record, NoRecord}
    BY <1>9 DEF RollBackClear, FlashFails, flash, world, IInv, RollBackIsDue
  <2>2. ~TrialOn' /\ Selected' = Selected
    BY <2>1
  <2> QED BY <2>1, <2>2 DEF Promise!vars
<1>10. CASE PowerCut
  <2>1. UNCHANGED <<record, slots, proven>>
    BY <1>10 DEF PowerCut, TearRecord, TearSelector, flash, world
  <2>2. /\ Seq' = Seq /\ ActiveSlot(otadata') = ActiveSlot(otadata)
        /\ TargetSlot(otadata') = TargetSlot(otadata)
    BY <1>0, <1>10, TearKeepsActive DEF PowerCut, TearRecord, TearSelector, flash
  <2> QED BY <2>1, <2>2 DEF Promise!vars
<1>11. CASE UNCHANGED vars
  BY <1>1, <1>11 DEF vars, flash, world
<1>12. CASE NoteBoot
  BY <1>1, <1>12 DEF NoteBoot, FlashFails, flash, world
<1> QED
  BY <1>1, <1>2, <1>3, <1>4, <1>5, <1>6, <1>7, <1>8, <1>9, <1>10, <1>11, <1>12
  DEF Next, Program, Boot, JoinOk, JoinTimesOut, RadioFails, PublishFails,
      InstallNothing, AbandonDownload, Republish, TrialExpires, EveningEnds,
      Restart, Publication, flash, world

\* The node keeps the promise of TrialUpdate: an image takes over only from one
\* that was heard, and gives way, after all its attempts, to that one
\* (docs/ota.md, src/ota.rs, main.rs ota_begin_attempt).
THEOREM Implements ==
  ASSUME "confirm" \notin FaultAt, ~TornRecords
  PROVE  Spec => KeepsPromise
<1>1. IInv /\ [Next]_vars => [Promise!Next]_Promise!vars
  BY StepPromise
<1> QED BY Invariant, InitPromise, <1>1, PTL DEF Spec, KeepsPromise, Promise!Spec
=============================================================================
