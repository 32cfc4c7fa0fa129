------------------------------ MODULE Archiver ------------------------------
(***************************************************************************)
(* The long-term archive: timeseries/src.  The bridge (mqtt.rs) follows    *)
(* the broker and turns messages into records; a bounded channel takes     *)
(* them to the writer (questdb/writer.rs), which batches them, writes them *)
(* to QuestDB and keeps what could not be written.  main.rs starts both    *)
(* and stops both.  Links, the process and the database fail at any point. *)
(*                                                                         *)
(* A node has one channel here; its readings are told apart by the time    *)
(* they were taken, and time is one clock for nodes and server.  A request *)
(* that fails may have stored what it carried, one table and not the       *)
(* other.  It has done so, or not, when the process that sent it ends.     *)
(***************************************************************************)
EXTENDS Integers, FiniteSets, SequencesExt, Bags, Functions

CONSTANTS
  Nodes,
  Nothing,                \* no value yet
  CAPACITY,               \* the channel's room: 4096 in the code
  BATCH_MAX,              \* config: questdb.batch_max
  MAX_PENDING_LINES,      \* 100 000 in the code
  MaxDeeds, MaxFaults     \* bounds: messages of the nodes, failures

ASSUME ArchiverAssumption ==
  /\ IsFiniteSet(Nodes)
  /\ CAPACITY \in Nat \ {0} /\ BATCH_MAX \in Nat \ {0}
  /\ MAX_PENDING_LINES \in Nat \ {0}
  /\ MaxDeeds \in Nat /\ MaxFaults \in Nat
  /\ Nothing \notin {"online", "offline"}
  /\ Nothing \notin [taken : Nat, dated : BOOLEAN]

VARIABLES
  reading, said,          \* broker: each node's retained reading and status
  link,                   \* down, connected, subscribed
  feed,                   \* messages between the broker and the bridge
  phase,                  \* the process: down, up, stopping
  online,                 \* Shared: the status last heard of each node
  hand,                   \* the record the bridge waits to send: at most one
  chan,                   \* the channel from the bridge to the writer
  pending, lines,         \* the writer's buffer and how many it counts
  writer,                 \* waits, writes, last (its final write), gone
  body,                   \* the batch that is being written
  refused,                \* whether the final write failed
  readings, statuses,     \* the two tables of the database
  now,
  given,                  \* history: what the bridge sent since the start
  shed,                   \* history: what was dropped with a backlog
  blind,                  \* history: a start could not read the statuses
  unheard,                \* history: statuses stored by a request that was not answered
  deeds, faults

broker == <<reading, said>>
bridge == <<link, feed, online, hand>>
buffer == <<chan, pending, lines, writer, body, refused>>
tables == <<readings, statuses>>
history == <<given, shed, blind, unheard>>
vars == <<broker, bridge, phase, buffer, tables, now, history, deeds, faults>>

Statuses == {"online", "offline"}
BothTables == {"readings", "status"}

Taken == [taken : Nat, dated : BOOLEAN]
Messages ==
  [kind : {"reading"}, node : Nodes, taken : Nat, dated : BOOLEAN, retained : BOOLEAN]
    \cup [kind : {"status"}, node : Nodes, online : Statuses]
ReadingRecords == [kind : {"reading"}, node : Nodes, taken : Nat, at : Nat]
StatusRecords == [kind : {"status"}, node : Nodes, online : Statuses, at : Nat]
Records == ReadingRecords \cup StatusRecords

Init ==
  /\ reading = [n \in Nodes |-> Nothing] /\ said = [n \in Nodes |-> Nothing]
  /\ link = "down" /\ feed = <<>> /\ hand = <<>>
  /\ phase = "down" /\ online = [n \in Nodes |-> Nothing]
  /\ chan = <<>> /\ pending = <<>> /\ lines = 0 /\ body = <<>>
  /\ writer = "waits" /\ refused = FALSE
  /\ readings = {} /\ statuses = EmptyBag
  /\ now = 0
  /\ given = {} /\ shed = {} /\ blind = FALSE /\ unheard = {}
  /\ deeds = 0 /\ faults = 0

-----------------------------------------------------------------------------
(* The nodes and the broker.  What is published is retained. *)

Deed == deeds < MaxDeeds /\ deeds' = deeds + 1
Fault == faults < MaxFaults /\ faults' = faults + 1

Delivers(m) == feed' = IF link = "subscribed" THEN Append(feed, m) ELSE feed

\* A round: a reading that says when it was taken, or one that does not.
Measures(n, dated) ==
  /\ Deed /\ now' = now + 1
  /\ reading' = [reading EXCEPT ![n] = [taken |-> now', dated |-> dated]]
  /\ Delivers([kind |-> "reading", node |-> n, taken |-> now', dated |-> dated, retained |-> FALSE])
  /\ UNCHANGED <<said, link, online, hand, phase, buffer, tables, history, faults>>

\* A birth message or a last will.
Says(n, s) ==
  /\ Deed
  /\ said' = [said EXCEPT ![n] = s]
  /\ Delivers([kind |-> "status", node |-> n, online |-> s])
  /\ UNCHANGED <<reading, link, online, hand, phase, buffer, tables, now, history, faults>>

LinkBreaks ==
  /\ Fault /\ link # "down"
  /\ link' = "down"
  /\ \E k \in 0..Len(feed) : feed' = SubSeq(feed, 1, k)
  /\ UNCHANGED <<broker, online, hand, phase, buffer, tables, now, history, deeds>>

-----------------------------------------------------------------------------
(* The bridge: run and handle. *)

Polls == phase = "up" /\ hand = <<>>

ConnAck ==
  /\ Polls /\ link = "down" /\ feed = <<>>
  /\ link' = "connected"
  /\ UNCHANGED <<broker, feed, online, hand, phase, buffer, tables, now, history, deeds, faults>>

\* What a subscription brings at once: the retained messages, in any order.
Retained ==
  {[kind |-> "reading", node |-> n, taken |-> reading[n].taken, dated |-> reading[n].dated,
    retained |-> TRUE] : n \in {k \in Nodes : reading[k] # Nothing}}
  \cup {[kind |-> "status", node |-> n, online |-> said[n]] : n \in {k \in Nodes : said[k] # Nothing}}

\* On every ConnAck: the broker forgets the subscriptions with the connection.
Subscribe ==
  /\ Polls /\ link = "connected"
  /\ link' = "subscribed"
  /\ \E replay \in Bijection(1..Cardinality(Retained), Retained) : feed' = feed \o replay
  /\ UNCHANGED <<broker, online, hand, phase, buffer, tables, now, history, deeds, faults>>

\* Slip: a retained reading is dated like any other.
UndatableNever(m) == FALSE

\* Slip: no retained reading is taken.
UndatableAlways(m) == m.retained

\* A reading from the past that does not say when it was taken has no date here.
Undatable(m) == m.retained /\ ~m.dated

HandleReading ==
  /\ Polls /\ feed # <<>> /\ Head(feed).kind = "reading"
  /\ feed' = Tail(feed)
  /\ LET m == Head(feed) IN
       IF Undatable(m) THEN UNCHANGED <<hand, now>>
       ELSE /\ now' = IF m.dated THEN now ELSE now + 1
            /\ hand' = <<[kind |-> "reading", node |-> m.node, taken |-> m.taken,
                          at |-> IF m.dated THEN m.taken ELSE now']>>
  /\ UNCHANGED <<broker, link, online, phase, buffer, tables, history, deeds, faults>>

\* Only a change is recorded; the map has it before the record is on its way.
HandleStatus ==
  /\ Polls /\ feed # <<>> /\ Head(feed).kind = "status"
  /\ feed' = Tail(feed)
  /\ LET m == Head(feed) IN
       IF online[m.node] = m.online THEN UNCHANGED <<online, hand, now>>
       ELSE /\ online' = [online EXCEPT ![m.node] = m.online]
            /\ now' = now + 1
            /\ hand' = <<[kind |-> "status", node |-> m.node, online |-> m.online, at |-> now']>>
  /\ UNCHANGED <<broker, link, phase, buffer, tables, history, deeds, faults>>

\* tx.send waits for room; nothing else is read from the broker meanwhile.
SendOnly == hand # <<>> /\ Len(chan) < CAPACITY /\ chan' = chan \o hand

Send ==
  /\ SendOnly
  /\ given' = given \cup {Head(hand)}
  /\ hand' = <<>>
  /\ UNCHANGED <<broker, link, feed, online, phase, pending, lines, writer, body, refused,
                 tables, now, shed, blind, unheard, deeds, faults>>

-----------------------------------------------------------------------------
(* The database. *)

Rows(s, kind) == {r \in ToSet(s) : r.kind = kind}

\* Readings are deduplicated on (timestamp, node, sensor), statuses are not.
Upsert(table, rows) ==
  {r \in table : \A q \in rows : <<q.at, q.node>> # <<r.at, r.node>>} \cup rows

Stores(which) ==
  /\ readings' = IF "readings" \in which THEN Upsert(readings, Rows(body, "reading")) ELSE readings
  /\ statuses' = IF "status" \in which THEN statuses (+) SetToBag(Rows(body, "status")) ELSE statuses

StatusRows(n) == {r \in BagToSet(statuses) : r.node = n}

\* Slip: the first row of a node, not its last.
IsFirst(n, r) == \A q \in StatusRows(n) : q.at >= r.at

\* LATEST ON timestamp PARTITION BY node
IsLatest(n, r) == \A q \in StatusRows(n) : q.at <= r.at

Latest(n) ==
  IF StatusRows(n) = {} THEN Nothing
  ELSE IF \E r \in StatusRows(n) : IsLatest(n, r) /\ r.online = "online" THEN "online"
  ELSE "offline"

-----------------------------------------------------------------------------
(* The writer: run and flush. *)

\* flush takes the buffer; nothing is added to it until the database answered.
Flush(buffered, then) ==
  /\ body' = buffered /\ pending' = <<>> /\ writer' = then

Receive ==
  /\ writer = "waits" /\ chan # <<>>
  /\ chan' = Tail(chan) /\ lines' = lines + 1
  /\ IF lines + 1 >= BATCH_MAX THEN Flush(Append(pending, Head(chan)), "writes")
     ELSE pending' = Append(pending, Head(chan)) /\ UNCHANGED <<body, writer>>
  /\ UNCHANGED <<broker, bridge, phase, refused, tables, now, history, deeds, faults>>

Tick ==
  /\ phase # "down" /\ writer = "waits"
  /\ IF lines > 0 THEN Flush(pending, "writes") ELSE UNCHANGED <<pending, body, writer>>
  /\ UNCHANGED <<broker, bridge, phase, chan, lines, refused, tables, now, history, deeds, faults>>

\* The channel is closed and empty: one more flush, and the writer returns.
ChannelCloses ==
  /\ phase = "stopping" /\ writer = "waits" /\ chan = <<>>
  /\ IF lines > 0 THEN Flush(pending, "last")
     ELSE writer' = "gone" /\ UNCHANGED <<pending, body>>
  /\ UNCHANGED <<broker, bridge, phase, chan, lines, refused, tables, now, history, deeds, faults>>

Writing == writer \in {"writes", "last"}
Answered == writer' = (IF writer = "last" THEN "gone" ELSE "waits") /\ body' = <<>>

Written ==
  /\ Writing /\ Stores(BothTables) /\ Answered
  /\ lines' = 0 /\ refused' = FALSE
  /\ UNCHANGED <<broker, bridge, phase, chan, pending, now, history, deeds, faults>>

\* Slip: one row past the limit.
HopelessLate == lines > MAX_PENDING_LINES

Hopeless == lines >= MAX_PENDING_LINES

\* Slip: the batch that failed is gone.
ForgetBatch == UNCHANGED <<pending, lines, shed>>

PutBack == pending' = body \o pending /\ UNCHANGED <<lines, shed>>

Drop == lines' = 0 /\ shed' = shed \cup ToSet(body) /\ UNCHANGED pending

Unheard(which) ==
  unheard' = IF "status" \in which THEN unheard \cup Rows(body, "status") ELSE unheard

\* An error, a rejection, or no answer in time.
NotWritten ==
  /\ Writing /\ Answered
  /\ \/ UNCHANGED <<tables, unheard, faults>>
     \/ Fault /\ \E which \in SUBSET BothTables : Stores(which) /\ Unheard(which)
  /\ IF Hopeless THEN Drop ELSE PutBack
  /\ refused' = (writer = "last")
  /\ UNCHANGED <<broker, bridge, phase, chan, now, given, blind, deeds>>

-----------------------------------------------------------------------------
(* The process: main. *)

\* Slip: the process starts without what the database knows.
SeedsNothing == online' = [n \in Nodes |-> Nothing] /\ UNCHANGED <<blind, faults>>

\* Without it every retained status would be news after a restart.
Seeds == online' = [n \in Nodes |-> Latest(n)] /\ UNCHANGED <<blind, faults>>

SeedsFail ==
  /\ Fault
  /\ online' = [n \in Nodes |-> Nothing]
  /\ blind' = TRUE

Start ==
  /\ phase = "down" /\ phase' = "up"
  /\ Seeds \/ SeedsFail
  /\ UNCHANGED <<broker, link, feed, hand, buffer, tables, now, given, shed, unheard, deeds>>

\* A signal: the bridge is aborted, with the record in its hand.
Stop ==
  /\ Fault /\ phase = "up" /\ phase' = "stopping"
  /\ link' = "down" /\ feed' = <<>> /\ hand' = <<>>
  /\ UNCHANGED <<broker, online, buffer, tables, now, history, deeds>>

Down ==
  /\ phase' = "down" /\ link' = "down" /\ feed' = <<>> /\ hand' = <<>>
  /\ chan' = <<>> /\ pending' = <<>> /\ lines' = 0 /\ body' = <<>>
  /\ writer' = "waits" /\ refused' = FALSE /\ given' = {}
  /\ online' = [n \in Nodes |-> Nothing]
  /\ UNCHANGED <<broker, now, shed, blind, unheard, deeds>>

Exit == phase = "stopping" /\ writer = "gone" /\ Down /\ UNCHANGED <<tables, faults>>

\* The writer did not finish in thirty seconds: a write of its is not answered.
GivesUp ==
  /\ phase = "stopping" /\ Writing /\ Down
  /\ \E which \in SUBSET BothTables : Stores(which)
  /\ UNCHANGED faults

Killed ==
  /\ Fault /\ phase # "down" /\ Down
  /\ \E which \in SUBSET BothTables : Stores(which)

-----------------------------------------------------------------------------
World ==
  \/ \E n \in Nodes, dated \in BOOLEAN : Measures(n, dated)
  \/ \E n \in Nodes, s \in Statuses : Says(n, s)
  \/ LinkBreaks
Bridge == ConnAck \/ Subscribe \/ HandleReading \/ HandleStatus \/ Send
Writer == Receive \/ Tick \/ ChannelCloses \/ Written \/ NotWritten
Main == Start \/ Stop \/ Exit \/ GivesUp \/ Killed

Next == World \/ Bridge \/ Writer \/ Main

Spec == Init /\ [][Next]_vars

\* The tasks run, systemd restarts the process, and a database that is asked
\* again and again accepts a write at last.
FairSpec ==
  /\ Spec
  /\ WF_vars(Bridge)
  /\ WF_vars(Writer) /\ SF_vars(Written)
  /\ WF_vars(Start) /\ WF_vars(Exit)
-----------------------------------------------------------------------------
(* What the archive promises. *)

\* Every variable has its type, and the channel never holds more than its room.
TypeOK ==
  /\ reading \in [Nodes -> {Nothing} \cup Taken]
  /\ said \in [Nodes -> {Nothing} \cup Statuses]
  /\ link \in {"down", "connected", "subscribed"} /\ feed \in Seq(Messages)
  /\ phase \in {"down", "up", "stopping"}
  /\ online \in [Nodes -> {Nothing} \cup Statuses]
  /\ hand \in Seq(Records) /\ Len(hand) <= 1
  /\ chan \in Seq(Records) /\ Len(chan) <= CAPACITY
  /\ pending \in Seq(Records) /\ body \in Seq(Records) /\ lines \in Nat
  /\ writer \in {"waits", "writes", "last", "gone"} /\ refused \in BOOLEAN
  /\ readings \in SUBSET ReadingRecords
  /\ IsABag(statuses) /\ DOMAIN statuses \subseteq StatusRecords
  /\ now \in Nat
  /\ given \in SUBSET Records /\ shed \in SUBSET Records /\ blind \in BOOLEAN
  /\ unheard \in SUBSET StatusRecords
  /\ deeds \in 0..MaxDeeds /\ faults \in 0..MaxFaults

InTables(r) == r \in readings \/ BagIn(r, statuses)

\* What the bridge has sent is stored, or waits for the writer, or was dropped
\* with a backlog; and when the writer returns, only a last write that failed
\* has left something behind.
Kept ==
  \A r \in given :
    \/ InTables(r) \/ r \in shed
    \/ r \in ToSet(chan) \cup ToSet(pending) \cup ToSet(body) /\ (writer = "gone" => refused)

\* A database that stays away costs no more memory than the limit, or one batch
\* where a batch is larger.
BacklogBounded ==
  /\ lines = Len(pending) + Len(body)
  /\ lines <= MAX_PENDING_LINES \/ lines <= BATCH_MAX

\* A reading is one row, however often the broker replays it and the writer
\* repeats the write: the series has no stale value at its head.
OncePerReading ==
  \A r, q \in readings : r.node = q.node /\ r.taken = q.taken => r = q

DroppedStatus(n) == \E r \in shed : r.kind = "status" /\ r.node = n

Changes(n) ==
  \A r, q \in StatusRows(n) :
    r.at < q.at /\ r.online = q.online =>
      \E between \in StatusRows(n) : r.at < between.at /\ between.at < q.at

\* Statuses are recorded on change: where no status was dropped and every start
\* could read them, two rows of different times that follow each other differ; and
\* a row is stored more than once only if a request had stored it without being
\* answered, and was sent again (client.rs:164; timeseries/README.md:41, "on
\* change only", does not know this exception).
TransitionsOnly ==
  \A n \in Nodes :
    /\ blind \/ DroppedStatus(n) \/ Changes(n)
    /\ \A r \in StatusRows(n) : statuses[r] > 1 => r \in unheard

RowOf(n, rows) == \E r \in rows : r.kind = "reading" /\ r.node = n /\ r.taken = reading[n].taken

\* The head of a series that is retained with its date gets into the archive,
\* whatever link, process and database did meanwhile, unless it was dropped.
HeadRecovered ==
  \A n \in Nodes :
    []<>(reading[n] # Nothing => ~reading[n].dated \/ RowOf(n, readings \cup shed))

\* The archive's last status of a node becomes what the broker retains, unless
\* a status of it was dropped.
StatusSettles ==
  \A n \in Nodes : []<>(said[n] # Nothing => Latest(n) = said[n] \/ DroppedStatus(n))
=============================================================================
