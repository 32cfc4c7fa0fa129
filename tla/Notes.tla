------------------------------- MODULE Notes --------------------------------
(***************************************************************************)
(* The notes beside the readings (src/questdb/annotations.rs of the        *)
(* archiver): written and taken back by people at the dashboard, several   *)
(* at once, over a database that answers before it has stored.             *)
(*                                                                         *)
(* QuestDB is external: what it accepts waits in a log and is applied in   *)
(* that order, some time; a line accepted while the table is new may be    *)
(* dropped in silence; an answer may be lost after the statement was taken.*)
(* A note is addressed by its instant and node, a place here; `call` is    *)
(* what each person is waiting for.                                        *)
(***************************************************************************)
EXTENDS Naturals, Sequences, FiniteSets

CONSTANTS
  People,             \* who writes notes and takes them back
  Places,             \* the instants and nodes they are filed under
  CONFIRM_ATTEMPTS,
  MaxNotes, MaxVoids, \* bounds: notes written, notes taken back
  MaxFaults           \* bound: statements that fail, lines that are dropped

ASSUME NotesAssumption ==
  /\ CONFIRM_ATTEMPTS \in Nat \ {0}
  /\ MaxNotes \in Nat /\ MaxVoids \in Nat /\ MaxFaults \in Nat

VARIABLES
  rows,               \* the table: [id, place, voided]
  wal,                \* accepted and not applied: [op, id, place]
  young,              \* the table was created moments ago
  call,               \* of each person: what they asked for, and how far it is
  notes, voids, faults,
  confirmed,          \* history: places at which somebody was told a note is stored
  gone                \* history: notes that stood when a call to void them that
                      \* was confirmed had found them standing

table == <<rows, wal, young>>
history == <<confirmed, gone>>
vars == <<table, call, notes, voids, faults, history>>

Note == 1..MaxNotes
Row == [id : Note, place : Places, voided : BOOLEAN]
Statement == [op : {"row"}, id : Note, place : Places] \cup [op : {"void"}, place : Places]
Idle == [pc |-> "idle"]
Call ==
  {Idle}
  \cup [pc : {"write"}, id : Note, place : Places]
  \cup [pc : {"written"}, id : Note, place : Places, tries : 1..CONFIRM_ATTEMPTS]
  \cup [pc : {"void"}, place : Places]
  \cup [pc : {"update"}, place : Places, aim : SUBSET Note]
  \cup [pc : {"updated"}, place : Places, aim : SUBSET Note, tries : 1..CONFIRM_ATTEMPTS]

TypeOK ==
  /\ rows \subseteq Row /\ wal \in Seq(Statement) /\ young \in BOOLEAN
  /\ call \in [People -> Call]
  /\ notes \in 0..MaxNotes /\ voids \in 0..MaxVoids /\ faults \in 0..MaxFaults
  /\ confirmed \subseteq Places /\ gone \subseteq Note

Init ==
  /\ rows = {} /\ wal = <<>> /\ young = TRUE
  /\ call = [p \in People |-> Idle]
  /\ notes = 0 /\ voids = 0 /\ faults = 0 /\ confirmed = {} /\ gone = {}

Fault == faults < MaxFaults /\ faults' = faults + 1
Now(p, c) == call' = [call EXCEPT ![p] = c]
Accept(s) == wal' = Append(wal, s) /\ UNCHANGED <<rows, young>>

\* count(): the rows at a place, or those among them that still count.
Count(place, live) ==
  Cardinality({r \in rows : r.place = place /\ (live => ~r.voided)})

-----------------------------------------------------------------------------
(* Writing a note: add_annotation, insert. *)

\* check() has been passed: a text of some length, an instant after 1970.
AskNote(p) ==
  /\ call[p] = Idle /\ notes < MaxNotes /\ notes' = notes + 1
  /\ \E place \in Places : Now(p, [pc |-> "write", id |-> notes + 1, place |-> place])
  /\ UNCHANGED <<table, voids, faults, history>>

Write(p) ==
  /\ call[p].pc = "write"
  /\ LET line == [op |-> "row", id |-> call[p].id, place |-> call[p].place]
         waits == [pc |-> "written", id |-> call[p].id, place |-> call[p].place, tries |-> 1]
     IN  \/ Accept(line) /\ Now(p, waits) /\ UNCHANGED faults
         \/ young /\ Fault /\ Now(p, waits) /\ UNCHANGED table
         \/ Fault /\ Now(p, Idle) /\ UNCHANGED table
         \/ Fault /\ Now(p, Idle) /\ Accept(line)
  /\ UNCHANGED <<notes, voids, history>>

SettledAlways(place, live) == TRUE                               \* slip
SettledByAny(place, live) == Count(place, live) > 0              \* slip

\* settle()'s two questions: some row at all, or none that counts.
Settled(place, live) == IF live THEN Count(place, TRUE) = 0 ELSE Count(place, FALSE) > 0

\* One attempt of settle() that failed, or found the table not yet as wanted.
Unsettled(p, live) ==
  /\ \/ ~Settled(call[p].place, live) /\ UNCHANGED faults
     \/ Fault
  /\ IF call[p].tries = CONFIRM_ATTEMPTS THEN Now(p, Idle)
     ELSE call' = [call EXCEPT ![p].tries = @ + 1]
  /\ UNCHANGED <<table, notes, voids, history>>

Told(p) ==
  /\ call[p].pc = "written" /\ Settled(call[p].place, FALSE)
  /\ confirmed' = confirmed \cup {call[p].place} /\ Now(p, Idle)
  /\ UNCHANGED <<table, notes, voids, faults, gone>>

NotYet(p) == call[p].pc = "written" /\ Unsettled(p, FALSE)

-----------------------------------------------------------------------------
(* Taking one back: void_annotation, void. *)

AskVoid(p) ==
  /\ call[p] = Idle /\ voids < MaxVoids /\ voids' = voids + 1
  /\ \E place \in Places : Now(p, [pc |-> "void", place |-> place])
  /\ UNCHANGED <<table, notes, faults, history>>

\* The first count(): nothing standing is an error, a failed query another.
Look(p) ==
  /\ call[p].pc = "void"
  /\ \/ /\ Count(call[p].place, TRUE) > 0
        /\ Now(p, [pc |-> "update", place |-> call[p].place,
                   aim |-> {r.id : r \in {q \in rows : q.place = call[p].place}}])
        /\ UNCHANGED faults
     \/ Count(call[p].place, TRUE) = 0 /\ Now(p, Idle) /\ UNCHANGED faults
     \/ Fault /\ Now(p, Idle)
  /\ UNCHANGED <<table, notes, voids, history>>

Update(p) ==
  /\ call[p].pc = "update"
  /\ LET sql == [op |-> "void", place |-> call[p].place]
     IN  \/ /\ Accept(sql) /\ UNCHANGED faults
            /\ Now(p, [pc |-> "updated", place |-> call[p].place, aim |-> call[p].aim,
                       tries |-> 1])
         \/ Fault /\ Now(p, Idle) /\ UNCHANGED table
         \/ Fault /\ Now(p, Idle) /\ Accept(sql)
  /\ UNCHANGED <<notes, voids, history>>

Voided(p) ==
  /\ call[p].pc = "updated" /\ Settled(call[p].place, TRUE)
  /\ gone' = gone \cup call[p].aim /\ Now(p, Idle)
  /\ UNCHANGED <<table, notes, voids, faults, confirmed>>

StillStanding(p) == call[p].pc = "updated" /\ Unsettled(p, TRUE)

-----------------------------------------------------------------------------
(* QuestDB, and the process. *)

\* void_sql() names a place and no note: whatever is filed there goes.
Applied(s) ==
  IF s.op = "row" THEN rows \cup {[id |-> s.id, place |-> s.place, voided |-> FALSE]}
  ELSE {IF r.place = s.place THEN [r EXCEPT !.voided = TRUE] ELSE r : r \in rows}

Apply ==
  /\ wal # <<>> /\ rows' = Applied(Head(wal)) /\ wal' = Tail(wal)
  /\ UNCHANGED <<young, call, notes, voids, faults, history>>

Ages ==
  /\ young /\ young' = FALSE
  /\ UNCHANGED <<rows, wal, call, notes, voids, faults, history>>

\* The service ends with calls under way; the database keeps what it took.
Restart ==
  /\ \E p \in People : call[p] # Idle
  /\ Fault /\ call' = [p \in People |-> Idle]
  /\ UNCHANGED <<table, notes, voids, history>>

Next ==
  \/ \E p \in People : \/ AskNote(p) \/ Write(p) \/ Told(p) \/ NotYet(p)
                       \/ AskVoid(p) \/ Look(p) \/ Update(p) \/ Voided(p) \/ StillStanding(p)
  \/ Apply \/ Ages \/ Restart

Spec == Init /\ [][Next]_vars

-----------------------------------------------------------------------------
(* Properties *)

\* select_sql(): what the charts draw.
Shown == {r.id : r \in {q \in rows : ~q.voided}}

\* A note whose taking back was confirmed is never drawn again, whoever else
\* writes and voids at the same place, and however late the log is applied
\* (annotations.rs void, select_sql).
VoidedStaysGone == gone \cap Shown = {}

\* Where somebody was told that a note is stored, a note is stored, although
\* lines are dropped in silence and answers come before the deed; that it is
\* the same note, insert() does not find out (annotations.rs insert, settle).
ConfirmedIsStored == \A place \in confirmed : \E r \in rows : r.place = place
=============================================================================
