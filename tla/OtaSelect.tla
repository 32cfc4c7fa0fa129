----------------------------- MODULE OtaSelect -----------------------------
(***************************************************************************)
(* The pure half of src/ota.rs: which slot a pair of `otadata` entries     *)
(* selects, where the next update goes, and what a publish attempt means   *)
(* for an image that has not proved itself.  No state: Ota.tla applies     *)
(* these operators to its flash.                                           *)
(*                                                                         *)
(* A selector entry is its sequence number; 0 is an entry that does not    *)
(* decode (blank, half written or with a bad CRC).  Label, image state and *)
(* CRC bytes are abstracted into that distinction.                         *)
(*                                                                         *)
(* An operator marked "slip" is a wrong version of the one below it, kept  *)
(* to show that the properties notice it; the model never uses it.         *)
(***************************************************************************)
EXTENDS Integers

Slot == {0, 1}                \* index into SLOT_OFFSETS
Entry == {0, 1}               \* the two copies of the selector
Verdict == {"Nothing", "Trying", "RollBack"}

CONSTANT NoRecord             \* no pending record, or one that does not decode
ASSUME NoRecordAssumption == NoRecord \notin [seq : Nat, attempts : Nat]

\* What the node remembers across a reboot about an undecided update.
Pending == [seq : Nat, attempts : Nat]

(***************************************************************************)
(* active(): the valid entry with the higher number wins, entry 0 on a     *)
(* tie; with neither valid the first slot runs and entry 1 counts as the   *)
(* winner, so that entry 0 is the next one written.                        *)
(***************************************************************************)
EntryIndex(entries) ==
  IF entries[0] # 0 /\ entries[0] >= entries[1] THEN 0 ELSE 1

ActiveSeq(entries) == entries[EntryIndex(entries)]

SlotForSeq(seq) == (seq - 1) % 2

ActiveSlot(entries) ==
  IF ActiveSeq(entries) = 0 THEN 0 ELSE SlotForSeq(ActiveSeq(entries))

TargetSlot(entries) == 1 - ActiveSlot(entries)

TargetEntry(entries) == 1 - EntryIndex(entries)

\* Steps by one or by two: the number and the slot are tied together.
NextSeq(entries) ==
  LET seq == ActiveSeq(entries) + 1
  IN  IF SlotForSeq(seq) = TargetSlot(entries) THEN seq ELSE seq + 1

\* The selector after the entry that did not win has been rewritten.
Reselect(entries) ==
  [entries EXCEPT ![TargetEntry(entries)] = NextSeq(entries)]

(***************************************************************************)
(* on_attempt(): a record about another sequence number is stale and says  *)
(* nothing; otherwise this attempt is one more than the stored count.      *)
(***************************************************************************)
OnTrial(stored, seq) == stored # NoRecord /\ stored.seq = seq

OnAttemptHasty(stored, seq, maxAttempts) ==                 \* slip: >= for >
  IF ~OnTrial(stored, seq) THEN "Nothing"
  ELSE IF stored.attempts + 1 >= maxAttempts THEN "RollBack"
  ELSE "Trying"

OnAttempt(stored, seq, maxAttempts) ==
  IF ~OnTrial(stored, seq) THEN "Nothing"
  ELSE IF stored.attempts + 1 > maxAttempts THEN "RollBack"
  ELSE "Trying"
=============================================================================
