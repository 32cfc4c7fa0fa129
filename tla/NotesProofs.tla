----------------------------- MODULE NotesProofs -----------------------------
(***************************************************************************)
(* For any people, places and faults: a note that was taken back is never  *)
(* drawn again, and a place where a note was confirmed holds one.          *)
(*                                                                         *)
(* Both rest on every note being in one place only: with the call that is  *)
(* about to write it, in the log of the database, or in the table.  A row, *)
(* once there, stays and is never unvoided; so what a call to void found   *)
(* at its place is there when it finds nothing standing, and is voided.    *)
(***************************************************************************)
EXTENDS Notes, FiniteSetTheorems, SequenceTheorems, TLAPS

Writes(p) == call[p].pc = "write"
Voids(p) == call[p].pc \in {"update", "updated"}
Logged == {i \in 1..Len(wal) : wal[i].op = "row"}

\* A note has the number it was given when it was asked for.
Issued ==
  /\ \A r \in rows : r.id <= notes
  /\ \A i \in Logged : wal[i].id <= notes
  /\ \A p \in People : Writes(p) => call[p].id <= notes

Apart ==
  /\ \A r, s \in rows : r.id = s.id => r = s
  /\ \A i, j \in Logged : wal[i].id = wal[j].id => i = j
  /\ \A p, q \in People : Writes(p) /\ Writes(q) /\ call[p].id = call[q].id => p = q
  /\ \A i \in Logged, r \in rows : wal[i].id # r.id
  /\ \A p \in People, r \in rows : Writes(p) => call[p].id # r.id
  /\ \A p \in People, i \in Logged : Writes(p) => call[p].id # wal[i].id

\* What a call to void wants gone was found where it looked.
AimsAreRows ==
  \A p \in People : Voids(p) =>
    \A n \in call[p].aim : \E r \in rows : r.id = n /\ r.place = call[p].place

GoneAreVoided == \A n \in gone : \E r \in rows : r.id = n /\ r.voided

IInv == TypeOK /\ Issued /\ Apart /\ AimsAreRows /\ GoneAreVoided /\ ConfirmedIsStored

-----------------------------------------------------------------------------
(* The steps, and what most of them leave alone. *)

Asks(p) == AskNote(p) \/ AskVoid(p)
Waits(p) == Told(p) \/ NotYet(p) \/ Look(p) \/ Voided(p) \/ StillStanding(p)

LEMMA Steps ==
  ASSUME Next
  PROVE  \/ \E p \in People : AskNote(p) \/ Write(p) \/ Update(p) \/ AskVoid(p) \/ Waits(p)
         \/ Apply \/ Ages \/ Restart
  BY DEF Next, Waits

LEMMA Attempts == 1 \in 1..CONFIRM_ATTEMPTS /\ CONFIRM_ATTEMPTS \in Nat
  BY NotesAssumption

\* The call of one person changes, and the others' do not.
LEMMA NowSets ==
  ASSUME TypeOK, NEW p \in People, NEW c, Now(p, c)
  PROVE  call'[p] = c /\ \A q \in People \ {p} : call'[q] = call[q]
  BY DEF TypeOK, Now

LEMMA IdleIs == Idle.pc = "idle"
  BY DEF Idle

LEMMA CallTypes ==
  ASSUME TypeOK, NEW p \in People
  PROVE  /\ Writes(p) => call[p] \in [pc : {"write"}, id : Note, place : Places]
         /\ call[p].pc = "written" =>
              call[p] \in [pc : {"written"}, id : Note, place : Places,
                           tries : 1..CONFIRM_ATTEMPTS]
         /\ call[p].pc = "void" => call[p] \in [pc : {"void"}, place : Places]
         /\ call[p].pc = "update" =>
              call[p] \in [pc : {"update"}, place : Places, aim : SUBSET Note]
         /\ call[p].pc = "updated" =>
              call[p] \in [pc : {"updated"}, place : Places, aim : SUBSET Note,
                           tries : 1..CONFIRM_ATTEMPTS]
  BY DEF TypeOK, Call, Idle, Writes

\* A step that writes no row and no log takes at most some writes away.
LEMMA Leaves ==
  ASSUME TypeOK,
         \/ \E p \in People : AskVoid(p) \/ Waits(p)
         \/ Ages \/ Restart
  PROVE  /\ rows' = rows /\ wal' = wal /\ notes' = notes
         /\ \A q \in People : Writes(q)' => call'[q] = call[q] /\ Writes(q)
<1>1. CASE \E p \in People : AskVoid(p) \/ Waits(p)
  <2>1. PICK p \in People : AskVoid(p) \/ Waits(p)  BY <1>1
  <2>2. /\ rows' = rows /\ wal' = wal /\ notes' = notes
        /\ \A q \in People \ {p} : call'[q] = call[q]
    BY <2>1 DEF AskVoid, Waits, Told, NotYet, Look, Voided, StillStanding, Unsettled, Now,
         table, history, TypeOK
  <2>3. ~Writes(p)'
    <3>1. ASSUME AskVoid(p) \/ Look(p) \/ Told(p) \/ Voided(p)  PROVE ~Writes(p)'
      <4>1. CASE AskVoid(p)
        BY <4>1, NowSets DEF AskVoid, Writes
      <4>2. CASE Look(p)
        <5> DEFINE aim == {r.id : r \in {q \in rows : q.place = call[p].place}}
        <5>1. \/ Now(p, [pc |-> "update", place |-> call[p].place, aim |-> aim])
              \/ Now(p, Idle)
          BY <4>2 DEF Look
        <5> HIDE DEF aim
        <5> QED BY <5>1, NowSets, IdleIs DEF Writes
      <4>3. CASE Told(p) \/ Voided(p)
        BY <4>3, NowSets, IdleIs DEF Told, Voided, Writes
      <4> QED BY <3>1, <4>1, <4>2, <4>3
    <3>2. ASSUME NotYet(p) \/ StillStanding(p)  PROVE ~Writes(p)'
      <4>1. call[p].pc \in {"written", "updated"}
        BY <3>2 DEF NotYet, StillStanding
      <4>2. call'[p] = Idle \/ call'[p] = [call[p] EXCEPT !.tries = @ + 1]
        BY <3>2 DEF NotYet, StillStanding, Unsettled, Now, TypeOK
      <4>3. call[p] \in [pc : {"written"}, id : Note, place : Places, tries : 1..CONFIRM_ATTEMPTS]
            \/ call[p] \in [pc : {"updated"}, place : Places, aim : SUBSET Note,
                             tries : 1..CONFIRM_ATTEMPTS]
        BY <4>1, CallTypes
      <4> QED BY <4>2, <4>3 DEF Idle, Writes
    <3> QED BY <2>1, <3>1, <3>2 DEF Waits
  <2> QED BY <2>2, <2>3 DEF Writes
<1>2. CASE Ages
  BY <1>2 DEF Ages, Writes
<1>3. CASE Restart
  BY <1>3 DEF Restart, table, Idle, Writes
<1> QED BY <1>1, <1>2, <1>3

-----------------------------------------------------------------------------
(* Types. *)

LEMMA NowTypes ==
  ASSUME TypeOK, NEW p \in People, NEW c \in Call, Now(p, c)
  PROVE  call' \in [People -> Call]
  BY DEF TypeOK, Now

\* The table takes what the log says.
LEMMA AppliedTypes ==
  ASSUME TypeOK, Apply
  PROVE  /\ Head(wal) = wal[1] /\ Head(wal) \in Statement /\ 1 \in 1..Len(wal)
         /\ rows' \subseteq Row /\ wal' \in Seq(Statement)
         /\ Len(wal') = Len(wal) - 1
         /\ \A i \in 1..Len(wal') : wal'[i] = wal[i + 1] /\ i + 1 \in 1..Len(wal)
<1>1. /\ wal \in Seq(Statement) /\ wal # <<>> /\ wal' = Tail(wal) /\ rows \subseteq Row
      /\ rows' = Applied(Head(wal))
  BY DEF TypeOK, Apply
<1>2. Head(wal) \in Statement
  BY <1>1, HeadTailProperties
<1>3. rows' \subseteq Row
  <2>1. CASE Head(wal).op = "row"
    <3>1. Head(wal).id \in Note /\ Head(wal).place \in Places
      BY <1>2, <2>1 DEF Statement
    <3>2. [id |-> Head(wal).id, place |-> Head(wal).place, voided |-> FALSE] \in Row
      BY <3>1 DEF Row
    <3> QED BY <1>1, <2>1, <3>2 DEF Applied
  <2>2. CASE Head(wal).op # "row"
    BY <1>1, <1>2, <2>2 DEF Applied, Row
  <2> QED BY <2>1, <2>2
<1>4. /\ wal' \in Seq(Statement) /\ Len(wal') = Len(wal) - 1
      /\ \A i \in 1..Len(wal') : wal'[i] = wal[i + 1]
  BY <1>1, HeadTailProperties
<1>5. Len(wal) \in Nat /\ Len(wal) # 0 /\ Head(wal) = wal[1]
  BY <1>1
<1> QED BY <1>2, <1>3, <1>4, <1>5

LEMMA AcceptTypes ==
  ASSUME TypeOK, NEW s \in Statement, Accept(s)
  PROVE  /\ wal' \in Seq(Statement) /\ Len(wal') = Len(wal) + 1 /\ Len(wal) \in Nat
         /\ \A i \in 1..Len(wal) : wal'[i] = wal[i]
         /\ wal'[Len(wal) + 1] = s
         /\ rows' = rows /\ young' = young
<1>1. wal \in Seq(Statement) /\ wal' = Append(wal, s) /\ rows' = rows /\ young' = young
  BY DEF TypeOK, Accept
<1>2. Len(wal) \in Nat
  BY <1>1
<1> QED BY <1>1, <1>2, AppendProperties

LEMMA TypeInit == Init => TypeOK
<1> SUFFICES ASSUME Init PROVE TypeOK
  OBVIOUS
<1>1. call \in [People -> Call]
  BY DEF Init, Call
<1>2. wal \in Seq(Statement)
  BY DEF Init
<1> QED BY <1>1, <1>2, NotesAssumption DEF Init, TypeOK

LEMMA TypeStep == TypeOK /\ [Next]_vars => TypeOK'
<1> SUFFICES ASSUME TypeOK, [Next]_vars PROVE TypeOK'
  OBVIOUS
<1>1. ASSUME NEW p \in People, AskNote(p) PROVE TypeOK'
  <2>1. PICK place \in Places : Now(p, [pc |-> "write", id |-> notes + 1, place |-> place])
    BY <1>1 DEF AskNote
  <2>2. notes + 1 \in Note /\ notes' \in 0..MaxNotes
    BY <1>1, NotesAssumption DEF AskNote, TypeOK, Note
  <2>3. [pc |-> "write", id |-> notes + 1, place |-> place] \in Call
    BY <2>2 DEF Call
  <2>4. call' \in [People -> Call]
    BY <2>1, <2>3, NowTypes
  <2> QED BY <1>1, <2>2, <2>4 DEF AskNote, TypeOK, table, history
<1>2. ASSUME NEW p \in People, Write(p) PROVE TypeOK'
  <2> DEFINE line == [op |-> "row", id |-> call[p].id, place |-> call[p].place]
             waits == [pc |-> "written", id |-> call[p].id, place |-> call[p].place, tries |-> 1]
  <2>1. call[p].id \in Note /\ call[p].place \in Places
    BY <1>2, CallTypes DEF Write, Writes
  <2>2. line \in Statement
    BY <2>1 DEF Statement
  <2>3. waits \in Call /\ Idle \in Call
    BY <2>1, Attempts DEF Call
  <2>4. /\ Now(p, waits) \/ Now(p, Idle)
        /\ Accept(line) \/ UNCHANGED table
        /\ UNCHANGED faults \/ Fault
        /\ UNCHANGED <<notes, voids, history>>
    BY <1>2 DEF Write
  <2> HIDE DEF line, waits
  <2>5. call' \in [People -> Call]
    BY <2>3, <2>4, NowTypes
  <2>6. rows' \subseteq Row /\ wal' \in Seq(Statement) /\ young' \in BOOLEAN
    BY <2>2, <2>4, AcceptTypes DEF table, TypeOK
  <2>7. faults' \in 0..MaxFaults
    BY <2>4, NotesAssumption DEF Fault, TypeOK
  <2> QED BY <2>4, <2>5, <2>6, <2>7 DEF TypeOK, history
<1>3. ASSUME NEW p \in People, Update(p) PROVE TypeOK'
  <2> DEFINE sql == [op |-> "void", place |-> call[p].place]
             waits == [pc |-> "updated", place |-> call[p].place, aim |-> call[p].aim,
                       tries |-> 1]
  <2>1. call[p].place \in Places /\ call[p].aim \in SUBSET Note
    BY <1>3, CallTypes DEF Update
  <2>2. sql \in Statement
    BY <2>1 DEF Statement
  <2>3. waits \in Call /\ Idle \in Call
    BY <2>1, Attempts DEF Call
  <2>4. /\ Now(p, waits) \/ Now(p, Idle)
        /\ Accept(sql) \/ UNCHANGED table
        /\ UNCHANGED faults \/ Fault
        /\ UNCHANGED <<notes, voids, history>>
    BY <1>3 DEF Update
  <2> HIDE DEF sql, waits
  <2>5. call' \in [People -> Call]
    BY <2>3, <2>4, NowTypes
  <2>6. rows' \subseteq Row /\ wal' \in Seq(Statement) /\ young' \in BOOLEAN
    BY <2>2, <2>4, AcceptTypes DEF table, TypeOK
  <2>7. faults' \in 0..MaxFaults
    BY <2>4, NotesAssumption DEF Fault, TypeOK
  <2> QED BY <2>4, <2>5, <2>6, <2>7 DEF TypeOK, history
<1>4. ASSUME NEW p \in People, AskVoid(p) PROVE TypeOK'
  <2>1. PICK place \in Places : Now(p, [pc |-> "void", place |-> place])
    BY <1>4 DEF AskVoid
  <2>2. voids' \in 0..MaxVoids
    BY <1>4, NotesAssumption DEF AskVoid, TypeOK
  <2>3. [pc |-> "void", place |-> place] \in Call
    BY DEF Call
  <2>4. call' \in [People -> Call]
    BY <2>1, <2>3, NowTypes
  <2> QED BY <1>4, <2>2, <2>4 DEF AskVoid, TypeOK, table, history
<1>5. ASSUME NEW p \in People, Told(p) PROVE TypeOK'
  <2>1. call[p].place \in Places
    BY <1>5, CallTypes DEF Told
  <2>2. call' \in [People -> Call]
    BY <1>5, NowTypes DEF Told, Call
  <2> QED BY <1>5, <2>1, <2>2 DEF Told, TypeOK, table
<1>6. ASSUME NEW p \in People, NotYet(p) \/ StillStanding(p) PROVE TypeOK'
  <2>1. /\ call[p].pc \in {"written", "updated"}
        /\ \/ call[p].tries = CONFIRM_ATTEMPTS /\ Now(p, Idle)
           \/ /\ call[p].tries # CONFIRM_ATTEMPTS
              /\ Now(p, [call[p] EXCEPT !.tries = @ + 1])
        /\ UNCHANGED faults \/ Fault
        /\ UNCHANGED <<table, notes, voids, history>>
    BY <1>6 DEF NotYet, StillStanding, Unsettled, Now
  <2>2. call[p].tries # CONFIRM_ATTEMPTS => [call[p] EXCEPT !.tries = @ + 1] \in Call
    <3>1. CASE call[p].pc = "written"
      BY <3>1, CallTypes, Attempts DEF Call
    <3>2. CASE call[p].pc = "updated"
      BY <3>2, CallTypes, Attempts DEF Call
    <3> QED BY <2>1, <3>1, <3>2
  <2>3. Idle \in Call
    BY DEF Call
  <2>4. call' \in [People -> Call]
    BY <2>1, <2>2, <2>3, NowTypes
  <2>5. faults' \in 0..MaxFaults
    BY <2>1, NotesAssumption DEF Fault, TypeOK
  <2> QED BY <2>1, <2>4, <2>5 DEF TypeOK, table, history
<1>7. ASSUME NEW p \in People, Look(p) PROVE TypeOK'
  <2> DEFINE aim == {r.id : r \in {q \in rows : q.place = call[p].place}}
             update == [pc |-> "update", place |-> call[p].place, aim |-> aim]
  <2>1. /\ Now(p, update) \/ Now(p, Idle)
        /\ UNCHANGED faults \/ Fault
        /\ UNCHANGED <<table, notes, voids, history>>
    BY <1>7 DEF Look
  <2>2. aim \in SUBSET Note
    BY DEF TypeOK, Row
  <2>3. call[p].place \in Places
    BY <1>7, CallTypes DEF Look
  <2> HIDE DEF aim
  <2>4. update \in Call /\ Idle \in Call
    BY <2>2, <2>3 DEF Call
  <2> HIDE DEF update
  <2>5. call' \in [People -> Call]
    BY <2>1, <2>4, NowTypes
  <2>6. faults' \in 0..MaxFaults
    BY <2>1, NotesAssumption DEF Fault, TypeOK
  <2> QED BY <2>1, <2>5, <2>6 DEF TypeOK, table, history
<1>8. ASSUME NEW p \in People, Voided(p) PROVE TypeOK'
  <2>1. call[p].aim \in SUBSET Note
    BY <1>8, CallTypes DEF Voided
  <2>2. call' \in [People -> Call]
    BY <1>8, NowTypes DEF Voided, Call
  <2> QED BY <1>8, <2>1, <2>2 DEF Voided, TypeOK, table
<1>9. CASE Apply
  <2>1. rows' \subseteq Row /\ wal' \in Seq(Statement)
    BY <1>9, AppliedTypes
  <2> QED BY <1>9, <2>1 DEF Apply, TypeOK, history
<1>10. CASE Ages
  BY <1>10 DEF Ages, TypeOK, history
<1>11. CASE Restart
  <2>1. call' \in [People -> Call] /\ faults' \in 0..MaxFaults
    BY <1>11, NotesAssumption DEF Restart, Fault, Call, TypeOK
  <2> QED BY <1>11, <2>1 DEF Restart, TypeOK, table, history
<1>12. CASE UNCHANGED vars
  BY <1>12 DEF vars, table, history, TypeOK
<1> QED BY <1>1, <1>2, <1>3, <1>4, <1>5, <1>6, <1>7, <1>8, <1>9, <1>10, <1>11, <1>12, Steps
     DEF Waits

\* Every variable keeps its type, for any people, places and bounds.
THEOREM TypeCorrect == Spec => []TypeOK
  BY TypeInit, TypeStep, PTL DEF Spec

-----------------------------------------------------------------------------
(* A note is in one place. *)

LEMMA ApartAsk ==
  ASSUME TypeOK, Issued, Apart, NEW p \in People, AskNote(p)
  PROVE  Issued' /\ Apart'
<1>1. PICK place \in Places : Now(p, [pc |-> "write", id |-> notes + 1, place |-> place])
  BY DEF AskNote
<1>2. /\ call'[p].id = notes + 1 /\ Writes(p)'
      /\ \A q \in People \ {p} : call'[q] = call[q] /\ (Writes(q)' <=> Writes(q))
  BY <1>1, NowSets DEF Writes
<1>3. rows' = rows /\ wal' = wal /\ notes' = notes + 1 /\ notes \in Nat
  BY DEF AskNote, table, TypeOK
<1>4. /\ \A r \in rows : r.id \in Nat
      /\ \A i \in Logged : wal[i].id \in Nat
      /\ \A q \in People : Writes(q) => call[q].id \in Nat
  <2>1. \A r \in rows : r.id \in Nat
    BY DEF TypeOK, Row, Note
  <2>2. \A i \in Logged : wal[i].id \in Nat
    BY DEF TypeOK, Statement, Logged, Note
  <2>3. \A q \in People : Writes(q) => call[q].id \in Nat
    BY CallTypes DEF Note
  <2> QED BY <2>1, <2>2, <2>3
<1>5. Logged' = Logged
  BY <1>3 DEF Logged
<1>6. Issued'
  BY <1>2, <1>3, <1>4, <1>5 DEF Issued
<1>7. Apart'
  BY <1>2, <1>3, <1>4, <1>5 DEF Issued, Apart
<1> QED BY <1>6, <1>7

LEMMA ApartWrite ==
  ASSUME TypeOK, Issued, Apart, NEW p \in People, Write(p)
  PROVE  Issued' /\ Apart'
<1> DEFINE line == [op |-> "row", id |-> call[p].id, place |-> call[p].place]
           waits == [pc |-> "written", id |-> call[p].id, place |-> call[p].place, tries |-> 1]
<1>1. /\ Now(p, waits) \/ Now(p, Idle)
      /\ Accept(line) \/ UNCHANGED table
      /\ UNCHANGED <<notes, voids, history>>
  BY DEF Write
<1>2. /\ Writes(p) /\ ~Writes(p)'
      /\ \A q \in People : Writes(q)' => Writes(q) /\ q # p /\ call'[q] = call[q]
  BY <1>1, NowSets, IdleIs DEF Writes, Write
<1>3. CASE UNCHANGED table
  <2>1. rows' = rows /\ wal' = wal /\ notes' = notes /\ Logged' = Logged
    BY <1>1, <1>3 DEF table, Logged
  <2> QED BY <1>2, <2>1 DEF Issued, Apart
<1>4. CASE Accept(line)
  <2> HIDE DEF line, waits
  <2>1. line \in Statement /\ line.op = "row" /\ line.id = call[p].id
    BY <1>2, CallTypes DEF Statement, line
  <2>2. /\ Len(wal') = Len(wal) + 1 /\ Len(wal) \in Nat
        /\ \A i \in 1..Len(wal) : wal'[i] = wal[i]
        /\ wal'[Len(wal) + 1] = line /\ rows' = rows
    BY <1>4, <2>1, AcceptTypes
  <2>3. /\ \A i \in Logged' : \/ i \in Logged /\ wal'[i] = wal[i]
                              \/ i = Len(wal) + 1 /\ wal'[i].id = call[p].id
        /\ notes' = notes
    BY <1>1, <2>1, <2>2 DEF Logged
  <2>4. Issued'
    <3>1. \A i \in Logged' : wal'[i].id <= notes'
      BY <1>2, <2>3 DEF Issued
    <3> QED BY <1>2, <2>2, <2>3, <3>1 DEF Issued
  <2>5. Apart'
    BY <1>2, <2>2, <2>3 DEF Apart
  <2> QED BY <2>4, <2>5
<1> QED BY <1>1, <1>3, <1>4

LEMMA ApartUpdate ==
  ASSUME TypeOK, Issued, Apart, NEW p \in People, Update(p)
  PROVE  Issued' /\ Apart'
<1> DEFINE sql == [op |-> "void", place |-> call[p].place]
           waits == [pc |-> "updated", place |-> call[p].place, aim |-> call[p].aim,
                     tries |-> 1]
<1>1. /\ Now(p, waits) \/ Now(p, Idle)
      /\ Accept(sql) \/ UNCHANGED table
      /\ UNCHANGED <<notes, voids, history>>
  BY DEF Update
<1>2. \A q \in People : Writes(q)' => Writes(q) /\ call'[q] = call[q]
  BY <1>1, NowSets, IdleIs DEF Writes
<1>3. sql \in Statement /\ sql.op # "row"
  BY CallTypes DEF Statement, Update
<1> HIDE DEF sql, waits
<1>4. rows' = rows /\ notes' = notes /\ \A i \in Logged' : i \in Logged /\ wal'[i] = wal[i]
  BY <1>1, <1>3, AcceptTypes DEF table, Logged
<1> QED BY <1>2, <1>4 DEF Issued, Apart

LEMMA ApartApply ==
  ASSUME TypeOK, Issued, Apart, Apply
  PROVE  Issued' /\ Apart'
<1>1. /\ \A q \in People : Writes(q)' => Writes(q) /\ call'[q] = call[q]
      /\ notes' = notes /\ rows' = Applied(Head(wal))
  BY DEF Apply, Writes
<1>2. /\ Head(wal) = wal[1] /\ Head(wal) \in Statement /\ 1 \in 1..Len(wal)
      /\ \A i \in Logged' : i + 1 \in Logged /\ i + 1 # 1 /\ wal'[i] = wal[i + 1] /\ i \in Nat
  BY AppliedTypes DEF Logged, Apply
<1>3. CASE Head(wal).op = "row"
  <2>1. 1 \in Logged
    BY <1>2, <1>3 DEF Logged
  <2> DEFINE new == [id |-> wal[1].id, place |-> wal[1].place, voided |-> FALSE]
  <2>2. rows' = rows \cup {new} /\ new.id = wal[1].id
    BY <1>1, <1>2, <1>3 DEF Applied
  <2> HIDE DEF new
  <2>3. \A r \in rows' : r \in rows \/ r = new
    BY <2>2
  <2>4. Issued'
    BY <1>1, <1>2, <2>1, <2>2, <2>3 DEF Issued
  <2>5. \A r \in rows' : r \in rows \/ r.id = wal[1].id
    BY <2>2, <2>3
  <2>6. Apart'
    <3>1. \A r, q \in rows' : r.id = q.id => r = q
      BY <2>1, <2>2, <2>3 DEF Apart
    <3>2. \A i \in Logged', r \in rows' : wal'[i].id # r.id
      BY <1>2, <2>1, <2>5 DEF Apart
    <3>3. \A q \in People, r \in rows' : Writes(q)' => call'[q].id # r.id
      BY <1>1, <2>1, <2>5 DEF Apart
    <3>4. \A i, j \in Logged' : wal'[i].id = wal'[j].id => i = j
      BY <1>2 DEF Apart
    <3> QED BY <1>1, <1>2, <3>1, <3>2, <3>3, <3>4 DEF Apart
  <2> QED BY <2>4, <2>6
<1>4. CASE Head(wal).op # "row"
  <2> DEFINE Then(q) == IF q.place = Head(wal).place THEN [q EXCEPT !.voided = TRUE] ELSE q
  <2>1. \A r \in rows' : \E q \in rows : r = Then(q)
    BY <1>1, <1>4 DEF Applied
  <2>2. \A q \in rows : Then(q).id = q.id
    BY DEF TypeOK, Row
  <2> HIDE DEF Then
  <2>3. \A r \in rows' : \E q \in rows : r.id = q.id
    BY <2>1, <2>2
  <2>4. Issued'
    BY <1>1, <1>2, <2>3 DEF Issued
  <2>5. Apart'
    <3>1. \A r, s \in rows' : r.id = s.id => r = s
      <4> SUFFICES ASSUME NEW r \in rows', NEW s \in rows', r.id = s.id PROVE r = s
        OBVIOUS
      <4>1. PICK q \in rows : r = Then(q)
        BY <2>1
      <4>2. PICK t \in rows : s = Then(t)
        BY <2>1
      <4>3. q = t
        BY <2>2, <4>1, <4>2 DEF Apart
      <4> QED BY <4>1, <4>2, <4>3
    <3>2. \A i \in Logged', r \in rows' : wal'[i].id # r.id
      BY <1>2, <2>3 DEF Apart
    <3>3. \A q \in People, r \in rows' : Writes(q)' => call'[q].id # r.id
      BY <1>1, <2>3 DEF Apart
    <3>4. \A i, j \in Logged' : wal'[i].id = wal'[j].id => i = j
      BY <1>2 DEF Apart
    <3> QED BY <1>1, <1>2, <3>1, <3>2, <3>3, <3>4 DEF Apart
  <2> QED BY <2>4, <2>5
<1> QED BY <1>3, <1>4

LEMMA ApartInit == Init => Issued /\ Apart
  BY IdleIs DEF Init, Issued, Apart, Logged, Writes

LEMMA ApartStep == TypeOK /\ Issued /\ Apart /\ [Next]_vars => Issued' /\ Apart'
<1> SUFFICES ASSUME TypeOK, Issued, Apart, [Next]_vars PROVE Issued' /\ Apart'
  OBVIOUS
<1>1. CASE \/ \E p \in People : AskVoid(p) \/ Waits(p)
           \/ Ages \/ Restart
  <2>1. /\ rows' = rows /\ wal' = wal /\ notes' = notes
        /\ \A q \in People : Writes(q)' => call'[q] = call[q] /\ Writes(q)
    BY <1>1, Leaves
  <2> QED BY <2>1 DEF Issued, Apart, Logged
<1>2. CASE UNCHANGED vars
  BY <1>2 DEF vars, table, Issued, Apart, Logged, Writes
<1> QED BY <1>1, <1>2, ApartAsk, ApartWrite, ApartUpdate, ApartApply, Steps

-----------------------------------------------------------------------------
(* Rows stay, and counting them tells whether there are any. *)

\* A row, seen later.
Outlives(s, r) == /\ s.id = r.id /\ s.place = r.place
                  /\ r.voided => s.voided

LEMMA RowsStay ==
  ASSUME TypeOK, [Next]_vars
  PROVE  \A r \in rows : \E s \in rows' : Outlives(s, r)
<1>1. CASE Apply
  <2>1. rows' = Applied(Head(wal)) /\ \A r \in rows : r \in Row
    BY <1>1 DEF Apply, TypeOK
  <2>2. CASE Head(wal).op = "row"
    BY <2>1, <2>2 DEF Applied, Outlives
  <2>3. CASE Head(wal).op # "row"
    <3> DEFINE Then(q) == IF q.place = Head(wal).place THEN [q EXCEPT !.voided = TRUE] ELSE q
    <3>1. \A r \in rows : Then(r) \in rows'
      BY <2>1, <2>3 DEF Applied
    <3>2. \A r \in rows : Outlives(Then(r), r)
      BY <2>1 DEF Row, Outlives
    <3> QED BY <3>1, <3>2
  <2> QED BY <2>2, <2>3
<1>2. CASE ~Apply
  <2>1. rows' = rows
    BY <1>2, Steps, Leaves DEF AskNote, Write, Update, Accept, table, vars
  <2> QED BY <2>1 DEF Outlives
<1> QED BY <1>1, <1>2

LEMMA Counted ==
  ASSUME TypeOK, Apart, NEW place, NEW live \in BOOLEAN
  PROVE  LET found == {r \in rows : r.place = place /\ (live => ~r.voided)}
         IN  Count(place, live) = 0 <=> found = {}
<1> DEFINE found == {r \in rows : r.place = place /\ (live => ~r.voided)}
           number == [r \in found |-> r.id]
<1>1. number \in Injection(found, Note)
  <2>1. number \in [found -> Note]
    BY DEF TypeOK, Row
  <2>2. \A r, s \in found : number[r] = number[s] => r = s
    BY DEF Apart
  <2> HIDE DEF number, found
  <2> QED BY <2>1, <2>2 DEF Injection, IsInjective
<1>2. IsFiniteSet(Note)
  BY FS_Interval, NotesAssumption DEF Note
<1>3. IsFiniteSet(found)
  BY <1>1, <1>2, FS_Injection
<1>4. Cardinality(found) = 0 <=> found = {}
  BY <1>3, FS_EmptySet
<1> QED BY <1>4 DEF Count

-----------------------------------------------------------------------------
(* What a call to void finds, and what becomes of it. *)

LEMMA AimsStep == IInv /\ [Next]_vars => AimsAreRows'
<1> SUFFICES ASSUME IInv, [Next]_vars,
                    NEW q \in People, Voids(q)', NEW n \in call'[q].aim
             PROVE  \E r \in rows' : r.id = n /\ r.place = call'[q].place
  BY DEF AimsAreRows
<1> USE DEF IInv
<1>0. \A r \in rows : \E s \in rows' : Outlives(s, r)
  <2>1. TypeOK
    OBVIOUS
  <2> QED BY <2>1, RowsStay
<1>1. CASE Voids(q) /\ call'[q].aim = call[q].aim /\ call'[q].place = call[q].place
  <2>1. PICK r \in rows : r.id = n /\ r.place = call[q].place
    BY <1>1 DEF AimsAreRows
  <2>2. PICK s \in rows' : Outlives(s, r)
    BY <1>0
  <2> QED BY <1>1, <2>1, <2>2 DEF Outlives
<1>2. ASSUME NEW p \in People, AskNote(p)
      PROVE  Voids(q) /\ call'[q].aim = call[q].aim /\ call'[q].place = call[q].place
  BY <1>2, NowSets DEF AskNote, Voids
<1>3. ASSUME NEW p \in People, AskVoid(p)
      PROVE  Voids(q) /\ call'[q].aim = call[q].aim /\ call'[q].place = call[q].place
  BY <1>3, NowSets DEF AskVoid, Voids
<1>4. ASSUME NEW p \in People, Write(p)
      PROVE  Voids(q) /\ call'[q].aim = call[q].aim /\ call'[q].place = call[q].place
  <2> DEFINE waits == [pc |-> "written", id |-> call[p].id, place |-> call[p].place, tries |-> 1]
  <2>1. Now(p, waits) \/ Now(p, Idle)
    BY <1>4 DEF Write
  <2> QED BY <2>1, NowSets, IdleIs DEF Voids
<1>5. ASSUME NEW p \in People, Update(p)
      PROVE  Voids(q) /\ call'[q].aim = call[q].aim /\ call'[q].place = call[q].place
  <2> DEFINE waits == [pc |-> "updated", place |-> call[p].place, aim |-> call[p].aim,
                       tries |-> 1]
  <2>1. Now(p, waits) \/ Now(p, Idle)
    BY <1>5 DEF Update
  <2>2. call[p].pc = "update"
    BY <1>5 DEF Update
  <2> QED BY <2>1, <2>2, NowSets, IdleIs DEF Voids
<1>6. ASSUME NEW p \in People, Told(p) \/ Voided(p)
      PROVE  Voids(q) /\ call'[q].aim = call[q].aim /\ call'[q].place = call[q].place
  BY <1>6, NowSets, IdleIs DEF Told, Voided, Voids
<1>7. ASSUME NEW p \in People, NotYet(p) \/ StillStanding(p)
      PROVE  Voids(q) /\ call'[q].aim = call[q].aim /\ call'[q].place = call[q].place
  <2> DEFINE again == [call[p] EXCEPT !.tries = @ + 1]
  <2>1. /\ Now(p, Idle) \/ Now(p, again)
        /\ call[p].pc \in {"written", "updated"}
    BY <1>7 DEF NotYet, StillStanding, Unsettled, Now
  <2>2. again.pc = call[p].pc
    BY <2>1, CallTypes
  <2>3. call[p].pc = "updated" => again.aim = call[p].aim /\ again.place = call[p].place
    BY CallTypes
  <2> HIDE DEF again
  <2>4. CASE q # p
    BY <2>1, <2>4, NowSets DEF Voids
  <2>5. CASE q = p
    <3>1. call'[p] = again
      BY <2>1, <2>5, NowSets, IdleIs DEF Voids
    <3>2. call[p].pc = "updated"
      BY <2>1, <2>2, <2>5, <3>1 DEF Voids
    <3> QED BY <2>3, <2>5, <3>1, <3>2 DEF Voids
  <2> QED BY <2>4, <2>5
<1>8. ASSUME NEW p \in People, Look(p)
      PROVE  \E r \in rows' : r.id = n /\ r.place = call'[q].place
  <2> DEFINE aim == {r.id : r \in {s \in rows : s.place = call[p].place}}
             update == [pc |-> "update", place |-> call[p].place, aim |-> aim]
  <2>1. Now(p, update) \/ Now(p, Idle)
    BY <1>8 DEF Look
  <2>2. rows' = rows
    BY <1>8 DEF Look, table
  <2>3. /\ update.aim = aim /\ update.place = call[p].place
        /\ \A i \in aim : \E r \in rows : r.id = i /\ r.place = call[p].place
    OBVIOUS
  <2> HIDE DEF aim, update
  <2>4. CASE q # p
    BY <1>1, <2>1, <2>4, NowSets DEF Voids
  <2>5. CASE q = p
    <3>1. call'[p] = update
      BY <2>1, <2>5, NowSets, IdleIs DEF Voids
    <3>2. n \in aim /\ call'[q].place = call[p].place
      BY <2>3, <2>5, <3>1
    <3> QED BY <2>2, <2>3, <3>2
  <2> QED BY <2>4, <2>5
<1>9. CASE Apply \/ Ages \/ UNCHANGED vars
  BY <1>1, <1>9 DEF Apply, Ages, vars, Voids
<1>10. CASE Restart
  BY <1>10, IdleIs DEF Restart, Voids
<1> QED BY <1>1, <1>2, <1>3, <1>4, <1>5, <1>6, <1>7, <1>8, <1>9, <1>10, Steps DEF Waits

\* Nothing counts at the place, so what was aimed at does not.
LEMMA GoneStep == IInv /\ [Next]_vars => GoneAreVoided'
<1> SUFFICES ASSUME IInv, [Next]_vars, NEW n \in gone'
             PROVE  \E r \in rows' : r.id = n /\ r.voided
  BY DEF GoneAreVoided
<1> USE DEF IInv
<1>0. \A r \in rows : \E s \in rows' : Outlives(s, r)
  <2>1. TypeOK
    OBVIOUS
  <2> QED BY <2>1, RowsStay
<1>1. CASE n \in gone
  <2>1. PICK r \in rows : r.id = n /\ r.voided
    BY <1>1 DEF GoneAreVoided
  <2>2. PICK s \in rows' : Outlives(s, r)
    BY <1>0
  <2> QED BY <2>1, <2>2 DEF Outlives
<1>2. ASSUME NEW p \in People, Voided(p), n \notin gone
      PROVE  \E r \in rows' : r.id = n /\ r.voided
  <2>1. n \in call[p].aim /\ Voids(p) /\ Count(call[p].place, TRUE) = 0 /\ rows' = rows
    BY <1>2 DEF Voided, Voids, Settled, table
  <2>2. PICK r \in rows : r.id = n /\ r.place = call[p].place
    BY <2>1 DEF AimsAreRows
  <2>3. r.voided
    BY <2>1, <2>2, Counted
  <2> QED BY <2>1, <2>2, <2>3
<1>3. CASE ~\E p \in People : Voided(p)
  <2>1. gone' = gone
    BY <1>3, Steps DEF Waits, AskNote, Write, Update, AskVoid, Told, NotYet, Look, StillStanding,
         Unsettled, Apply, Ages, Restart, vars, history
  <2> QED BY <1>1, <2>1
<1> QED BY <1>1, <1>2, <1>3

LEMMA StoredStep == IInv /\ [Next]_vars => ConfirmedIsStored'
<1> SUFFICES ASSUME IInv, [Next]_vars, NEW place \in confirmed'
             PROVE  \E r \in rows' : r.place = place
  BY DEF ConfirmedIsStored
<1> USE DEF IInv
<1>0. \A r \in rows : \E s \in rows' : Outlives(s, r)
  <2>1. TypeOK
    OBVIOUS
  <2> QED BY <2>1, RowsStay
<1>1. CASE place \in confirmed
  <2>1. PICK r \in rows : r.place = place
    BY <1>1 DEF ConfirmedIsStored
  <2>2. PICK s \in rows' : Outlives(s, r)
    BY <1>0
  <2> QED BY <2>1, <2>2 DEF Outlives
<1>2. ASSUME NEW p \in People, Told(p), place \notin confirmed
      PROVE  \E r \in rows' : r.place = place
  <2> DEFINE number == Count(place, FALSE)
  <2>1. place = call[p].place /\ number > 0 /\ rows' = rows
    BY <1>2 DEF Told, Settled, table
  <2> HIDE DEF number
  <2>2. number # 0
    BY <2>1
  <2> USE DEF number
  <2> QED BY <2>1, <2>2, Counted
<1>3. CASE ~\E p \in People : Told(p)
  <2>1. confirmed' = confirmed
    BY <1>3, Steps DEF Waits, AskNote, Write, Update, AskVoid, Voided, NotYet, Look,
         StillStanding, Unsettled, Apply, Ages, Restart, vars, history
  <2> QED BY <1>1, <2>1
<1> QED BY <1>1, <1>2, <1>3

-----------------------------------------------------------------------------
(* The invariant, and what follows from it. *)

LEMMA Start == Init => IInv
  BY TypeInit, ApartInit, IdleIs
     DEF Init, IInv, AimsAreRows, Voids, GoneAreVoided, ConfirmedIsStored

LEMMA Inductive == IInv /\ [Next]_vars => IInv'
  BY TypeStep, ApartStep, AimsStep, GoneStep, StoredStep DEF IInv

\* A note whose taking back was confirmed is never drawn again
\* (src/questdb/annotations.rs void, select_sql).
THEOREM TakenBackForGood == Spec => []VoidedStaysGone
<1>1. IInv => VoidedStaysGone
  BY DEF IInv, Apart, GoneAreVoided, VoidedStaysGone, Shown
<1> QED BY Start, Inductive, <1>1, PTL DEF Spec

\* Where a note was confirmed, a note is stored (annotations.rs insert, settle).
THEOREM ConfirmedMeansStored == Spec => []ConfirmedIsStored
<1>1. IInv => ConfirmedIsStored
  BY DEF IInv
<1> QED BY Start, Inductive, <1>1, PTL DEF Spec
=============================================================================
