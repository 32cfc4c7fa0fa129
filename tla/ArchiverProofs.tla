--------------------------- MODULE ArchiverProofs ---------------------------
(***************************************************************************)
(* For any nodes, any room in the channel, any batch and any limit, and    *)
(* whatever fails: the buffer stays within its bound, a reading is one     *)
(* row, what the bridge has sent is stored, waiting, or was dropped, and   *)
(* the statuses that are stored are changes.                               *)
(*                                                                         *)
(* The argument is about dates.  A reading that says when it was taken     *)
(* keeps that date wherever it is; one that does not is dated when it is   *)
(* handled, and it is handled once, since a replay of it is passed over.   *)
(* So no two records of a node share a date or a moment of taking, and     *)
(* deduplication only ever replaces a row by itself.  The statuses of a    *)
(* node go from the hand through channel and batch to the table in the     *)
(* order of their dates, and of a batch that is sent again the table has   *)
(* nothing that is later than what it lacks.                               *)
(***************************************************************************)
EXTENDS Archiver, FiniteSetTheorems, SequenceTheorems, TLAPS

\* The buffer is in the writer's hands or in the request's, and the channel is
\* closed before the final write.
WriterOrder ==
  /\ writer \in {"waits", "gone"} => body = <<>>
  /\ Writing => pending = <<>>
  /\ writer \in {"last", "gone"} => phase = "stopping" /\ chan = <<>>
  /\ phase # "up" => hand = <<>>
  /\ phase = "down" => writer = "waits" /\ chan = <<>> /\ lines = 0 /\ given = {}

\* Between two writes there is room for one more line.
RoomForOne ==
  writer = "waits" => lines < MAX_PENDING_LINES \/ lines < BATCH_MAX

IsReading(x) == x.kind = "reading"

\* What was sent and has not been written.
Waiting == ToSet(chan) \cup ToSet(pending) \cup ToSet(body)

\* Every record of a reading, from the bridge's hand to the table.
Known == {r \in ToSet(hand) \cup Waiting \cup readings : IsReading(r)}

Dates ==
  /\ \A r \in Known : r.taken <= r.at /\ r.at <= now
  /\ \A i \in 1..Len(feed) : IsReading(feed[i]) => feed[i].taken <= now
  /\ \A n \in Nodes : reading[n] # Nothing => reading[n].taken <= now

\* No two records of a node have a date or a moment of taking in common.
OneRecord ==
  \A r, q \in Known : r.node = q.node /\ (r.at = q.at \/ r.taken = q.taken) => r = q

\* A reading that brings its date has that date in every record of it, and
\* its date is nobody else's.
OwnDate(n, t) == \A r \in Known : r.node = n /\ (r.at = t \/ r.taken = t) => r.at = r.taken

DatedKeepDate ==
  /\ \A i \in 1..Len(feed) : IsReading(feed[i]) /\ feed[i].dated => OwnDate(feed[i].node, feed[i].taken)
  /\ \A n \in Nodes : reading[n] # Nothing /\ reading[n].dated => OwnDate(n, reading[n].taken)

\* A live reading without a date has not been recorded, and nothing else on its
\* way will be recorded as it.
LiveUndated(m) == IsReading(m) /\ ~m.dated /\ ~m.retained

HandledOnce ==
  \A i \in 1..Len(feed) : LiveUndated(feed[i]) =>
    /\ \A r \in Known : r.node = feed[i].node => r.taken # feed[i].taken
    /\ \A j \in 1..Len(feed) :
         j # i /\ IsReading(feed[j]) /\ feed[j].node = feed[i].node
           /\ feed[j].taken = feed[i].taken => Undatable(feed[j])
    /\ LET h == reading[feed[i].node] IN
         h # Nothing /\ h.taken = feed[i].taken => ~h.dated

Dating == Dates /\ OneRecord /\ DatedKeepDate /\ HandledOnce

IInv == TypeOK /\ WriterOrder /\ RoomForOne /\ BacklogBounded /\ Dating /\ Kept

-----------------------------------------------------------------------------
(* Sequences, as far as their elements go. *)

LEMMA EmptySet == ToSet(<<>>) = {}
  BY DEF ToSet

LEMMA SingleSet ==
  ASSUME NEW S, NEW e \in S
  PROVE  /\ <<e>> \in Seq(S) /\ Len(<<e>>) = 1 /\ Head(<<e>>) = e
         /\ ToSet(<<e>>) = {e}
  BY DEF ToSet

LEMMA AppendSet ==
  ASSUME NEW S, NEW s \in Seq(S), NEW e \in S
  PROVE  ToSet(Append(s, e)) = ToSet(s) \cup {e}
<1>1. /\ DOMAIN Append(s, e) = 1..Len(s) + 1 /\ DOMAIN s = 1..Len(s) /\ Len(s) \in Nat
      /\ \A i \in 1..Len(s) : Append(s, e)[i] = s[i]
      /\ Append(s, e)[Len(s) + 1] = e
  BY AppendProperties
<1>2. ASSUME NEW x \in ToSet(Append(s, e)) PROVE x \in ToSet(s) \cup {e}
  BY <1>1 DEF ToSet
<1>3. ASSUME NEW x \in ToSet(s) \cup {e} PROVE x \in ToSet(Append(s, e))
  BY <1>1 DEF ToSet
<1>4. QED
  BY <1>2, <1>3

LEMMA ConcatSet ==
  ASSUME NEW S, NEW s \in Seq(S), NEW t \in Seq(S)
  PROVE  ToSet(s \o t) = ToSet(s) \cup ToSet(t)
<1>1. /\ DOMAIN (s \o t) = 1..Len(s) + Len(t)
      /\ DOMAIN s = 1..Len(s) /\ DOMAIN t = 1..Len(t) /\ Len(s) \in Nat /\ Len(t) \in Nat
      /\ \A i \in 1..Len(s) + Len(t) : (s \o t)[i] = IF i <= Len(s) THEN s[i] ELSE t[i - Len(s)]
  BY ConcatProperties
<1>2. ASSUME NEW x \in ToSet(s \o t) PROVE x \in ToSet(s) \cup ToSet(t)
  <2>1. PICK i \in 1..Len(s) + Len(t) : x = (s \o t)[i]
    BY <1>1 DEF ToSet
  <2>2. CASE i <= Len(s)
    BY <1>1, <2>1, <2>2 DEF ToSet
  <2>3. CASE i > Len(s)
    <3>1. i - Len(s) \in 1..Len(t) /\ x = t[i - Len(s)]
      BY <1>1, <2>1, <2>3
    <3>2. QED
      BY <1>1, <3>1 DEF ToSet
  <2>4. QED
    BY <1>1, <2>2, <2>3
<1>3. ASSUME NEW x \in ToSet(s) PROVE x \in ToSet(s \o t)
  <2>1. PICK i \in 1..Len(s) : x = s[i]
    BY <1>1, <1>3 DEF ToSet
  <2>2. i \in 1..Len(s) + Len(t) /\ (s \o t)[i] = x
    BY <1>1, <2>1
  <2>3. QED
    BY <1>1, <2>2 DEF ToSet
<1>4. ASSUME NEW x \in ToSet(t) PROVE x \in ToSet(s \o t)
  <2>1. PICK i \in 1..Len(t) : x = t[i]
    BY <1>1, <1>4 DEF ToSet
  <2>2. i + Len(s) \in 1..Len(s) + Len(t) /\ (s \o t)[i + Len(s)] = x
    BY <1>1, <2>1
  <2>3. QED
    BY <1>1, <2>2 DEF ToSet
<1>5. QED
  BY <1>2, <1>3, <1>4

\* The rest of a sequence: an element of it is one place further on.
LEMMA TailSet ==
  ASSUME NEW S, NEW s \in Seq(S), s # <<>>
  PROVE  /\ Tail(s) \in Seq(S) /\ Len(s) \in Nat /\ Len(s) >= 1 /\ Len(Tail(s)) = Len(s) - 1
         /\ Head(s) = s[1] /\ Head(s) \in S
         /\ \A i \in 1..Len(Tail(s)) : i + 1 \in 1..Len(s) /\ Tail(s)[i] = s[i + 1]
         /\ ToSet(s) = {Head(s)} \cup ToSet(Tail(s))
<1>1. /\ Tail(s) \in Seq(S) /\ Len(s) \in Nat /\ Len(s) >= 1 /\ Len(Tail(s)) = Len(s) - 1
      /\ Head(s) = s[1] /\ Head(s) \in S
      /\ \A i \in 1..Len(Tail(s)) : i + 1 \in 1..Len(s) /\ Tail(s)[i] = s[i + 1]
      /\ DOMAIN s = 1..Len(s) /\ DOMAIN Tail(s) = 1..Len(Tail(s))
  BY HeadTailProperties, EmptySeq, LenProperties
<1>2. ASSUME NEW x \in ToSet(s) PROVE x \in {Head(s)} \cup ToSet(Tail(s))
  <2>1. PICK i \in 1..Len(s) : x = s[i]
    BY <1>1, <1>2 DEF ToSet
  <2>2. CASE i = 1
    BY <1>1, <2>1, <2>2
  <2>3. CASE i # 1
    <3>1. i - 1 \in 1..Len(Tail(s)) /\ Tail(s)[i - 1] = x
      BY <1>1, <2>1, <2>3
    <3>2. QED
      BY <1>1, <3>1 DEF ToSet
  <2>4. QED
    BY <2>2, <2>3
<1>3. ASSUME NEW x \in {Head(s)} \cup ToSet(Tail(s)) PROVE x \in ToSet(s)
  <2>1. CASE x = Head(s)
    BY <1>1, <2>1 DEF ToSet
  <2>2. CASE x \in ToSet(Tail(s))
    <3>1. PICK i \in 1..Len(Tail(s)) : x = Tail(s)[i]
      BY <1>1, <2>2 DEF ToSet
    <3>2. QED
      BY <1>1, <3>1 DEF ToSet
  <2>3. QED
    BY <1>3, <2>1, <2>2
<1>4. QED
  BY <1>1, <1>2, <1>3

LEMMA PrefixSeq ==
  ASSUME NEW S, NEW s \in Seq(S), NEW k \in 0..Len(s)
  PROVE  /\ SubSeq(s, 1, k) \in Seq(S) /\ Len(SubSeq(s, 1, k)) = k
         /\ \A i \in 1..k : i \in 1..Len(s) /\ SubSeq(s, 1, k)[i] = s[i]
<1>1. Len(s) \in Nat /\ \A i \in 1..Len(s) : s[i] \in S
  BY LenProperties, ElementOfSeq
<1>2. SubSeq(s, 1, k) = [i \in 1..k |-> s[i]]
  BY <1>1
<1>3. QED
  BY <1>1, <1>2

-----------------------------------------------------------------------------
(* The steps and the types of what they build. *)

LEMMA RecordKinds ==
  /\ \A r \in Records : r.kind = "reading" => r \in ReadingRecords
  /\ \A r \in Records : r.kind = "status" => r \in StatusRecords
  /\ \A r \in Records : r.kind \in {"reading", "status"}
  /\ \A r \in ReadingRecords : r \in Records /\ r.kind = "reading" /\ r.node \in Nodes /\ r.taken \in Nat /\ r.at \in Nat
  /\ \A r \in StatusRecords : r \in Records /\ r.kind = "status"
  BY DEF Records, ReadingRecords, StatusRecords

LEMMA MessageKinds ==
  ASSUME NEW m \in Messages
  PROVE  /\ m.kind \in {"reading", "status"} /\ m.node \in Nodes
         /\ m.kind = "reading" => m.taken \in Nat /\ m.dated \in BOOLEAN /\ m.retained \in BOOLEAN
         /\ m.kind = "status" => m.online \in Statuses
  BY DEF Messages

LEMMA HeadValue ==
  ASSUME TypeOK, NEW n \in Nodes, reading[n] # Nothing
  PROVE  /\ reading[n] \in Taken /\ reading[n].taken \in Nat /\ reading[n].dated \in BOOLEAN
  BY DEF TypeOK, Taken

LEMMA RetainedType ==
  ASSUME TypeOK
  PROVE  Retained \subseteq Messages
<1>1. ASSUME NEW n \in Nodes, reading[n] # Nothing
      PROVE  [kind |-> "reading", node |-> n, taken |-> reading[n].taken, dated |-> reading[n].dated,
              retained |-> TRUE] \in Messages
  BY <1>1, HeadValue DEF Messages
<1>2. ASSUME NEW n \in Nodes, said[n] # Nothing
      PROVE  [kind |-> "status", node |-> n, online |-> said[n]] \in Messages
  BY <1>2 DEF Messages, TypeOK
<1>3. QED
  BY <1>1, <1>2 DEF Retained

LEMMA RetainedFinite == IsFiniteSet(Retained)
<1> DEFINE R == {k \in Nodes : reading[k] # Nothing}
           S == {k \in Nodes : said[k] # Nothing}
           f == [n \in R |-> [kind |-> "reading", node |-> n, taken |-> reading[n].taken,
                              dated |-> reading[n].dated, retained |-> TRUE]]
           g == [n \in S |-> [kind |-> "status", node |-> n, online |-> said[n]]]
           F == {f[n] : n \in R}
           G == {g[n] : n \in S}
<1>1. IsFiniteSet(R) /\ IsFiniteSet(S)
  BY FS_Subset, ArchiverAssumption
<1>2. f \in Surjection(R, F) /\ g \in Surjection(S, G)
  BY DEF Surjection
<1>3. IsFiniteSet(F) /\ IsFiniteSet(G)
  <2> HIDE DEF R, S, F, G, f, g
  <2> QED BY <1>1, <1>2, FS_Surjection
<1>4. IsFiniteSet(F \cup G)
  <2> HIDE DEF R, S, F, G, f, g
  <2> QED BY <1>3, FS_Union
<1>5. Retained = F \cup G
  BY DEF Retained
<1>6. QED
  BY <1>4, <1>5

\* A replay: each of its places holds a retained message, and no two the same.
LEMMA ReplayType ==
  ASSUME TypeOK, NEW replay \in Bijection(1..Cardinality(Retained), Retained)
  PROVE  /\ replay \in Seq(Messages) /\ Len(replay) \in Nat
         /\ \A i \in 1..Len(replay) : replay[i] \in Retained
<1> DEFINE N == Cardinality(Retained)
<1>1. N \in Nat
  BY RetainedFinite, FS_CardinalityType
<1>2. replay \in [1..N -> Retained]
  BY DEF Bijection, Injection
<1> HIDE DEF N
<1>3. replay \in Seq(Retained) /\ Len(replay) = N
  BY <1>1, <1>2
<1>4. QED
  BY <1>1, <1>2, <1>3, RetainedType

LEMMA RowsType ==
  ASSUME TypeOK
  PROVE  /\ Rows(body, "reading") = {r \in ToSet(body) : r.kind = "reading"}
         /\ Rows(body, "reading") \subseteq ReadingRecords
         /\ Rows(body, "status") \subseteq StatusRecords
         /\ ToSet(body) = Rows(body, "reading") \cup Rows(body, "status")
<1>1. ToSet(body) \subseteq Records
  BY ElementOfSeq, LenProperties DEF ToSet, TypeOK
<1>2. QED
  BY <1>1, RecordKinds DEF Rows

LEMMA BagGrows ==
  ASSUME NEW B, IsABag(B), NEW S
  PROVE  /\ IsABag(B (+) SetToBag(S))
         /\ DOMAIN (B (+) SetToBag(S)) = DOMAIN B \cup S
  BY DEF IsABag, SetToBag, (+)

\* What a request stores, in whole or in part.
LEMMA StoresType ==
  ASSUME TypeOK, NEW which \in SUBSET BothTables, Stores(which)
  PROVE  /\ readings' \in SUBSET ReadingRecords
         /\ IsABag(statuses') /\ DOMAIN statuses' \subseteq StatusRecords
         /\ DOMAIN statuses \subseteq DOMAIN statuses'
         /\ readings' \subseteq readings \cup Rows(body, "reading")
<1>1. /\ readings' \in SUBSET ReadingRecords
      /\ readings' \subseteq readings \cup Rows(body, "reading")
  BY RowsType DEF Stores, Upsert, TypeOK
<1>2. IsABag(statuses) /\ DOMAIN statuses \subseteq StatusRecords
  BY DEF TypeOK
<1>3. CASE "status" \in which
  BY <1>1, <1>2, <1>3, RowsType, BagGrows DEF Stores
<1>4. CASE "status" \notin which
  BY <1>1, <1>2, <1>4 DEF Stores
<1>5. QED
  BY <1>3, <1>4

LEMMA BoundsType ==
  /\ CAPACITY \in Nat /\ CAPACITY >= 1 /\ BATCH_MAX \in Nat /\ BATCH_MAX >= 1
  /\ MAX_PENDING_LINES \in Nat /\ MAX_PENDING_LINES >= 1
  /\ MaxDeeds \in Nat /\ MaxFaults \in Nat
  BY ArchiverAssumption

LEMMA InitType ==
  ASSUME Init PROVE TypeOK
<1>1. IsABag(EmptyBag) /\ DOMAIN EmptyBag = {}
  BY DEF IsABag, EmptyBag, SetToBag
<1>2. <<>> \in Seq(Messages) /\ <<>> \in Seq(Records) /\ Len(<<>>) = 0
  OBVIOUS
<1>3. IsABag(statuses) /\ DOMAIN statuses \subseteq StatusRecords
  BY <1>1 DEF Init
<1>4. /\ hand \in Seq(Records) /\ Len(hand) <= 1 /\ feed \in Seq(Messages)
      /\ chan \in Seq(Records) /\ Len(chan) <= CAPACITY
      /\ pending \in Seq(Records) /\ body \in Seq(Records)
  BY <1>2, BoundsType DEF Init
<1>5. deeds \in 0..MaxDeeds /\ faults \in 0..MaxFaults
  BY BoundsType DEF Init
<1>6. QED
  BY <1>3, <1>4, <1>5 DEF Init, TypeOK

LEMMA WorldType ==
  ASSUME TypeOK, World PROVE TypeOK'
<1>1. ASSUME NEW n \in Nodes, NEW dated \in BOOLEAN, Measures(n, dated) PROVE TypeOK'
  <2>1. now' \in Nat /\ deeds' \in 0..MaxDeeds
    BY <1>1, BoundsType DEF Measures, Deed, TypeOK
  <2>2. reading' \in [Nodes -> {Nothing} \cup Taken]
    BY <1>1, <2>1 DEF Measures, TypeOK, Taken
  <2>3. [kind |-> "reading", node |-> n, taken |-> now', dated |-> dated, retained |-> FALSE] \in Messages
    BY <2>1 DEF Messages
  <2>4. feed' \in Seq(Messages)
    BY <1>1, <2>3, AppendProperties DEF Measures, Delivers, TypeOK
  <2>5. QED
    BY <1>1, <2>1, <2>2, <2>4 DEF Measures, TypeOK, buffer, tables, history
<1>2. ASSUME NEW n \in Nodes, NEW s \in Statuses, Says(n, s) PROVE TypeOK'
  <2>1. [kind |-> "status", node |-> n, online |-> s] \in Messages
    BY DEF Messages
  <2>2. feed' \in Seq(Messages)
    BY <1>2, <2>1, AppendProperties DEF Says, Delivers, TypeOK
  <2>3. deeds' \in 0..MaxDeeds /\ said' \in [Nodes -> {Nothing} \cup Statuses]
    BY <1>2, BoundsType DEF Says, Deed, TypeOK
  <2>4. QED
    BY <1>2, <2>2, <2>3 DEF Says, TypeOK, buffer, tables, history
<1>3. CASE LinkBreaks
  <2>1. feed' \in Seq(Messages)
    BY <1>3, PrefixSeq DEF LinkBreaks, TypeOK
  <2>2. faults' \in 0..MaxFaults
    BY <1>3, BoundsType DEF LinkBreaks, Fault, TypeOK
  <2>3. QED
    BY <1>3, <2>1, <2>2 DEF LinkBreaks, TypeOK, broker, buffer, tables, history
<1>4. QED
  BY <1>1, <1>2, <1>3 DEF World

LEMMA BridgeType ==
  ASSUME TypeOK, Bridge PROVE TypeOK'
<1>1. CASE ConnAck
  BY <1>1 DEF ConnAck, TypeOK, broker, buffer, tables, history
<1>2. CASE Subscribe
  <2>1. feed' \in Seq(Messages)
    BY <1>2, ReplayType, ConcatProperties DEF Subscribe, TypeOK
  <2>2. QED
    BY <1>2, <2>1 DEF Subscribe, TypeOK, broker, buffer, tables, history
<1>3. CASE HandleReading
  <2> DEFINE m == Head(feed)
             r(t) == [kind |-> "reading", node |-> m.node, taken |-> m.taken, at |-> t]
  <2>1. feed' \in Seq(Messages) /\ m \in Messages /\ m.kind = "reading"
    BY <1>3, TailSet DEF HandleReading, TypeOK
  <2>2. m.node \in Nodes /\ m.taken \in Nat
    BY <2>1, MessageKinds
  <2>3. now' \in Nat
    BY <1>3 DEF HandleReading, TypeOK
  <2>4. ASSUME NEW t \in Nat PROVE r(t) \in Records
    BY <2>2 DEF Records, ReadingRecords
  <2>5. hand' \in Seq(Records) /\ Len(hand') <= 1
    <3>1. PICK t \in Nat : hand' = hand \/ hand' = <<r(t)>>
      BY <1>3, <2>2, <2>3 DEF HandleReading
    <3>2. CASE hand' = <<r(t)>>
      BY <2>4, <3>2
    <3>3. CASE hand' = hand
      BY <3>3 DEF TypeOK
    <3>4. QED
      BY <3>1, <3>2, <3>3
  <2>6. QED
    BY <1>3, <2>1, <2>3, <2>5 DEF HandleReading, TypeOK, broker, buffer, tables, history
<1>4. CASE HandleStatus
  <2> DEFINE m == Head(feed)
             r == [kind |-> "status", node |-> m.node, online |-> m.online, at |-> now']
  <2>1. feed' \in Seq(Messages) /\ m \in Messages /\ m.kind = "status"
    BY <1>4, TailSet DEF HandleStatus, TypeOK
  <2>2. m.node \in Nodes /\ m.online \in Statuses
    BY <2>1, MessageKinds
  <2>3. now' \in Nat /\ online' \in [Nodes -> {Nothing} \cup Statuses]
    <3>1. now \in Nat /\ online \in [Nodes -> {Nothing} \cup Statuses]
      BY DEF TypeOK
    <3>2. \/ UNCHANGED <<online, now>>
          \/ online' = [online EXCEPT ![m.node] = m.online] /\ now' = now + 1
      BY <1>4 DEF HandleStatus
    <3>3. QED
      <4> HIDE DEF m
      <4> QED BY <2>2, <3>1, <3>2
  <2>4. r \in Records
    <3>1. now' \in Nat
      BY <2>3
    <3>2. QED
      <4> HIDE DEF m
      <4> QED BY <2>2, <3>1 DEF Records, StatusRecords
  <2>5. hand' \in Seq(Records) /\ Len(hand') <= 1
    <3>1. hand' = hand \/ hand' = <<r>>
      BY <1>4 DEF HandleStatus
    <3>2. CASE hand' = <<r>>
      BY <2>4, <3>2
    <3>3. CASE hand' = hand
      BY <3>3 DEF TypeOK
    <3>4. QED
      BY <3>1, <3>2, <3>3
  <2>6. QED
    BY <1>4, <2>1, <2>3, <2>5 DEF HandleStatus, TypeOK, broker, buffer, tables, history
<1>5. CASE Send
  <2>1. chan' \in Seq(Records) /\ Len(chan') <= CAPACITY
    BY <1>5, BoundsType, ConcatProperties DEF Send, SendOnly, TypeOK
  <2>2. given' \in SUBSET Records
    BY <1>5, TailSet DEF Send, SendOnly, TypeOK
  <2>3. hand' \in Seq(Records) /\ Len(hand') <= 1
    BY <1>5 DEF Send
  <2>4. QED
    BY <1>5, <2>1, <2>2, <2>3 DEF Send, TypeOK, broker, tables
<1>6. QED
  BY <1>1, <1>2, <1>3, <1>4, <1>5 DEF Bridge

\* A flush hands the whole buffer over, and the buffer is a sequence of records.
LEMMA FlushType ==
  ASSUME NEW buffered \in Seq(Records), NEW then \in {"writes", "last"}, Flush(buffered, then)
  PROVE  body' \in Seq(Records) /\ pending' \in Seq(Records)
         /\ writer' \in {"waits", "writes", "last", "gone"}
  BY DEF Flush

LEMMA WriterType ==
  ASSUME TypeOK, Writer PROVE TypeOK'
<1>1. CASE Receive
  <2>1. chan' \in Seq(Records) /\ Len(chan') <= CAPACITY /\ Head(chan) \in Records
    BY <1>1, TailSet, BoundsType DEF Receive, TypeOK
  <2> DEFINE longer == Append(pending, Head(chan))
  <2>2. longer \in Seq(Records)
    BY <2>1, AppendProperties DEF TypeOK
  <2>3. Flush(longer, "writes") \/ (pending' = longer /\ UNCHANGED <<body, writer>>)
    BY <1>1 DEF Receive
  <2> HIDE DEF longer
  <2>4. /\ body' \in Seq(Records) /\ pending' \in Seq(Records)
        /\ writer' \in {"waits", "writes", "last", "gone"}
    BY <2>2, <2>3, FlushType DEF TypeOK
  <2>5. lines' \in Nat
    BY <1>1 DEF Receive, TypeOK
  <2>6. QED
    BY <1>1, <2>1, <2>4, <2>5 DEF Receive, TypeOK, broker, bridge, tables, history
<1>2. CASE Tick
  <2>1. /\ body' \in Seq(Records) /\ pending' \in Seq(Records)
        /\ writer' \in {"waits", "writes", "last", "gone"}
    BY <1>2, FlushType DEF Tick, TypeOK
  <2>2. QED
    BY <1>2, <2>1 DEF Tick, TypeOK, broker, bridge, tables, history
<1>3. CASE ChannelCloses
  <2>1. /\ body' \in Seq(Records) /\ pending' \in Seq(Records)
        /\ writer' \in {"waits", "writes", "last", "gone"}
    BY <1>3, FlushType DEF ChannelCloses, TypeOK
  <2>2. QED
    BY <1>3, <2>1 DEF ChannelCloses, TypeOK, broker, bridge, tables, history
<1>4. CASE Written
  <2>1. Stores(BothTables) /\ BothTables \in SUBSET BothTables
    BY <1>4 DEF Written
  <2>2. readings' \in SUBSET ReadingRecords /\ IsABag(statuses') /\ DOMAIN statuses' \subseteq StatusRecords
    BY <2>1, StoresType
  <2>3. body' \in Seq(Records) /\ writer' \in {"waits", "writes", "last", "gone"}
    BY <1>4 DEF Written, Answered
  <2>4. QED
    BY <1>4, <2>2, <2>3 DEF Written, TypeOK, broker, bridge, history
<1>5. CASE NotWritten
  <2>1. /\ readings' \in SUBSET ReadingRecords /\ IsABag(statuses') /\ DOMAIN statuses' \subseteq StatusRecords
        /\ faults' \in 0..MaxFaults
    <3>1. CASE UNCHANGED <<tables, faults>>
      BY <3>1 DEF tables, TypeOK
    <3>2. CASE Fault /\ \E which \in SUBSET BothTables : Stores(which)
      BY <3>2, StoresType, BoundsType DEF Fault, TypeOK
    <3>3. QED
      BY <1>5, <3>1, <3>2 DEF NotWritten
  <2>2. body' \in Seq(Records) /\ writer' \in {"waits", "writes", "last", "gone"} /\ refused' \in BOOLEAN
    BY <1>5 DEF NotWritten, Answered
  <2>3. body \o pending \in Seq(Records) /\ ToSet(body) \subseteq Records
    BY ConcatProperties, RowsType, RecordKinds DEF TypeOK
  <2>4. unheard' \in SUBSET StatusRecords
    BY <1>5, RowsType DEF NotWritten, Unheard, TypeOK
  <2>5. pending' \in Seq(Records) /\ lines' \in Nat /\ shed' \in SUBSET Records
    <3>1. CASE Drop
      BY <2>3, <3>1 DEF Drop, TypeOK
    <3>2. CASE PutBack
      BY <2>3, <3>2 DEF PutBack, TypeOK
    <3>3. QED
      BY <1>5, <3>1, <3>2 DEF NotWritten
  <2>6. QED
    BY <1>5, <2>1, <2>2, <2>5, <2>4 DEF NotWritten, TypeOK, broker, bridge
<1>6. QED
  BY <1>1, <1>2, <1>3, <1>4, <1>5 DEF Writer

\* What is left of a process that ended.
LEMMA DownType ==
  ASSUME TypeOK, Down,
         readings' \in SUBSET ReadingRecords, IsABag(statuses'), DOMAIN statuses' \subseteq StatusRecords,
         faults' \in 0..MaxFaults
  PROVE  TypeOK'
<1>1. <<>> \in Seq(Messages) /\ <<>> \in Seq(Records) /\ Len(<<>>) = 0
  OBVIOUS
<1>2. /\ hand' \in Seq(Records) /\ Len(hand') <= 1 /\ feed' \in Seq(Messages)
      /\ chan' \in Seq(Records) /\ Len(chan') <= CAPACITY
      /\ pending' \in Seq(Records) /\ body' \in Seq(Records)
  BY <1>1, BoundsType DEF Down
<1>3. QED
  BY <1>2 DEF Down, TypeOK, broker

LEMMA MainType ==
  ASSUME TypeOK, Main PROVE TypeOK'
<1>1. CASE Start
  <2>1. \A n \in Nodes : Latest(n) \in {Nothing} \cup Statuses
    BY DEF Latest, Statuses
  <2>2. /\ online' \in [Nodes -> {Nothing} \cup Statuses] /\ blind' \in BOOLEAN
        /\ faults' \in 0..MaxFaults
    <3>1. CASE Seeds
      BY <2>1, <3>1 DEF Seeds, TypeOK
    <3>2. CASE SeedsFail
      BY <3>2, BoundsType DEF SeedsFail, Fault, TypeOK
    <3>3. QED
      BY <1>1, <3>1, <3>2 DEF Start
  <2>3. QED
    BY <1>1, <2>2 DEF Start, TypeOK, broker, buffer, tables
<1>2. CASE Stop
  <2>1. <<>> \in Seq(Messages) /\ <<>> \in Seq(Records) /\ Len(<<>>) = 0
    OBVIOUS
  <2>2. faults' \in 0..MaxFaults
    BY <1>2, BoundsType DEF Stop, Fault, TypeOK
  <2>3. QED
    BY <1>2, <2>1, <2>2 DEF Stop, TypeOK, broker, buffer, tables, history
<1>3. CASE Exit
  <2>1. UNCHANGED <<readings, statuses, faults>>
    BY <1>3 DEF Exit, tables
  <2>2. QED
    BY <1>3, <2>1, DownType DEF Exit, TypeOK
<1>4. CASE GivesUp
  <2>1. PICK which \in SUBSET BothTables : Stores(which)
    BY <1>4 DEF GivesUp
  <2>2. readings' \in SUBSET ReadingRecords /\ IsABag(statuses') /\ DOMAIN statuses' \subseteq StatusRecords
    BY <2>1, StoresType
  <2>3. QED
    BY <1>4, <2>2, DownType DEF GivesUp, TypeOK
<1>5. CASE Killed
  <2>1. PICK which \in SUBSET BothTables : Stores(which)
    BY <1>5 DEF Killed
  <2>2. readings' \in SUBSET ReadingRecords /\ IsABag(statuses') /\ DOMAIN statuses' \subseteq StatusRecords
    BY <2>1, StoresType
  <2>3. faults' \in 0..MaxFaults
    BY <1>5, BoundsType DEF Killed, Fault, TypeOK
  <2>4. QED
    BY <1>5, <2>2, <2>3, DownType DEF Killed
<1>6. QED
  BY <1>1, <1>2, <1>3, <1>4, <1>5 DEF Main

\* Every variable keeps its type, whatever the constants.
THEOREM TypeCorrect == Spec => []TypeOK
<1>1. Init => TypeOK
  BY InitType
<1>2. TypeOK /\ [Next]_vars => TypeOK'
  <2> SUFFICES ASSUME TypeOK, [Next]_vars PROVE TypeOK'
    OBVIOUS
  <2>1. CASE Next
    BY <2>1, WorldType, BridgeType, WriterType, MainType DEF Next
  <2>2. CASE UNCHANGED vars
    BY <2>2 DEF vars, TypeOK, broker, bridge, buffer, tables, history
  <2>3. QED
    BY <2>1, <2>2
<1>3. QED
  BY <1>1, <1>2, PTL DEF Spec

-----------------------------------------------------------------------------
(* The writer: the order of its work, and how much it keeps. *)

LEMMA WriterOrderKept ==
  ASSUME TypeOK, WriterOrder, Next PROVE WriterOrder'
<1>1. CASE World
  BY <1>1 DEF World, Measures, Says, LinkBreaks, WriterOrder, Writing, buffer, history
<1>2. CASE ConnAck \/ Subscribe
  BY <1>2 DEF ConnAck, Subscribe, WriterOrder, Writing, buffer, history
<1>3. CASE HandleReading
  BY <1>3 DEF HandleReading, Polls, WriterOrder, Writing, buffer, history
<1>4. CASE HandleStatus
  BY <1>4 DEF HandleStatus, Polls, WriterOrder, Writing, buffer, history
<1>5. CASE Send
  BY <1>5 DEF Send, SendOnly, WriterOrder, Writing
<1>6. CASE Receive
  BY <1>6 DEF Receive, Flush, WriterOrder, Writing, bridge, history
<1>7. CASE Tick
  BY <1>7 DEF Tick, Flush, WriterOrder, Writing, bridge, history
<1>8. CASE ChannelCloses
  BY <1>8 DEF ChannelCloses, Flush, WriterOrder, Writing, bridge, history
<1>9. CASE Written
  BY <1>9 DEF Written, Answered, WriterOrder, Writing, bridge, history
<1>10. CASE NotWritten
  BY <1>10 DEF NotWritten, Answered, WriterOrder, Writing, bridge
<1>11. CASE Start
  BY <1>11 DEF Start, WriterOrder, Writing, buffer
<1>12. CASE Stop
  BY <1>12 DEF Stop, WriterOrder, Writing, buffer, history
<1>13. CASE Exit \/ GivesUp \/ Killed
  BY <1>13 DEF Exit, GivesUp, Killed, Down, WriterOrder, Writing
<1>14. QED
  BY <1>1, <1>2, <1>3, <1>4, <1>5, <1>6, <1>7, <1>8, <1>9, <1>10, <1>11, <1>12, <1>13
     DEF Next, Bridge, Writer, Main

\* The steps that leave the buffer alone, and the ends of a process.
LEMMA BacklogElsewhere ==
  ASSUME TypeOK, RoomForOne, BacklogBounded,
         World \/ Bridge \/ Start \/ Stop \/ Exit \/ GivesUp \/ Killed
  PROVE  RoomForOne' /\ BacklogBounded'
<1>1. CASE World \/ Bridge \/ Start \/ Stop
  <2>1. UNCHANGED <<pending, lines, writer, body>>
    BY <1>1 DEF World, Measures, Says, LinkBreaks, Bridge, ConnAck, Subscribe, HandleReading,
                HandleStatus, Send, Start, Stop, buffer
  <2>2. QED
    BY <2>1 DEF RoomForOne, BacklogBounded
<1>2. CASE Exit \/ GivesUp \/ Killed
  <2>1. pending' = <<>> /\ lines' = 0 /\ body' = <<>> /\ Len(<<>>) = 0
    BY <1>2 DEF Exit, GivesUp, Killed, Down
  <2>2. Len(pending') = 0 /\ Len(body') = 0
    BY <2>1
  <2>3. QED
    BY <2>1, <2>2, BoundsType DEF RoomForOne, BacklogBounded
<1>3. QED
  BY <1>1, <1>2

LEMMA BacklogKept ==
  ASSUME TypeOK, WriterOrder, RoomForOne, BacklogBounded, Next
  PROVE  RoomForOne' /\ BacklogBounded'
<1>1. CASE Receive
  <2> DEFINE longer == Append(pending, Head(chan))
  <2>1. Len(longer) = Len(pending) + 1 /\ Len(pending) \in Nat
    <3>1. Head(chan) \in Records
      BY <1>1, TailSet DEF Receive, TypeOK
    <3>2. QED
      BY <3>1, AppendProperties, LenProperties DEF TypeOK
  <2>2. body = <<>> /\ Len(body) = 0
    BY <1>1 DEF Receive, WriterOrder
  <2>3. /\ lines' = lines + 1
        /\ \/ lines + 1 >= BATCH_MAX /\ body' = longer /\ pending' = <<>> /\ writer' = "writes"
           \/ lines + 1 < BATCH_MAX /\ pending' = longer /\ body' = body
    BY <1>1, BoundsType DEF Receive, Flush, TypeOK
  <2> HIDE DEF longer
  <2>4. Len(pending') + Len(body') = Len(pending) + 1
    <3>1. CASE pending' = <<>> /\ body' = longer
      BY <2>1, <3>1
    <3>2. CASE pending' = longer /\ body' = body
      BY <2>1, <2>2, <3>2
    <3>3. QED
      BY <2>3, <3>1, <3>2
  <2>5. lines' = Len(pending') + Len(body')
    BY <2>1, <2>2, <2>3, <2>4 DEF BacklogBounded
  <2>6. lines' <= MAX_PENDING_LINES \/ lines' <= BATCH_MAX
    BY <1>1, <2>3, BoundsType DEF Receive, RoomForOne, TypeOK
  <2>7. RoomForOne'
    BY <1>1, <2>3, BoundsType DEF Receive, RoomForOne, TypeOK
  <2>8. QED
    BY <2>5, <2>6, <2>7 DEF BacklogBounded
<1>2. CASE Tick \/ ChannelCloses
  <2>1. writer = "waits" /\ lines' = lines /\ body = <<>> /\ Len(body) = 0
    BY <1>2 DEF Tick, ChannelCloses, WriterOrder
  <2>2. \/ body' = pending /\ pending' = <<>> /\ writer' \in {"writes", "last"}
        \/ body' = body /\ pending' = pending /\ writer' \in {"waits", "gone"}
    BY <1>2, <2>1 DEF Tick, ChannelCloses, Flush
  <2>3. Len(pending) \in Nat /\ Len(<<>>) = 0
    BY LenProperties DEF TypeOK
  <2>4. Len(pending') + Len(body') = Len(pending) + Len(body)
    <3>1. CASE body' = pending /\ pending' = <<>>
      BY <2>1, <2>3, <3>1
    <3>2. CASE body' = body /\ pending' = pending
      BY <3>2
    <3>3. QED
      BY <2>2, <3>1, <3>2
  <2>5. QED
    BY <2>1, <2>2, <2>4 DEF BacklogBounded, RoomForOne
<1>3. CASE Written
  <2>1. pending = <<>> /\ pending' = <<>> /\ body' = <<>> /\ lines' = 0
    BY <1>3 DEF Written, Answered, WriterOrder
  <2>2. Len(pending') = 0 /\ Len(body') = 0
    BY <2>1
  <2>3. QED
    BY <2>1, <2>2, BoundsType DEF BacklogBounded, RoomForOne
<1>4. CASE NotWritten
  <2>1. pending = <<>> /\ body' = <<>>
    BY <1>4 DEF NotWritten, Answered, WriterOrder
  <2>2. Len(pending) = 0 /\ Len(body') = 0 /\ Len(body) \in Nat
    BY <2>1, LenProperties DEF TypeOK
  <2>3. CASE Hopeless
    <3>1. lines' = 0 /\ pending' = pending
      BY <1>4, <2>3 DEF NotWritten, Drop
    <3>2. QED
      BY <2>2, <3>1, BoundsType DEF BacklogBounded, RoomForOne
  <2>4. CASE ~Hopeless
    <3>1. lines' = lines /\ pending' = body \o pending
      BY <1>4, <2>4 DEF NotWritten, PutBack
    <3>2. Len(body \o pending) = Len(body) + Len(pending)
      BY ConcatProperties DEF TypeOK
    <3> DEFINE back == body \o pending
    <3>3. pending' = back /\ Len(back) = Len(body) + Len(pending)
      BY <3>1, <3>2
    <3> HIDE DEF back
    <3>4. lines' = Len(pending') + Len(body')
      BY <2>2, <3>1, <3>3 DEF BacklogBounded
    <3>5. lines < MAX_PENDING_LINES
      BY <2>4, BoundsType DEF Hopeless, TypeOK
    <3>6. QED
      BY <3>1, <3>4, <3>5, BoundsType DEF BacklogBounded, RoomForOne, TypeOK
  <2>5. QED
    BY <2>3, <2>4
<1>5. QED
  BY <1>1, <1>2, <1>3, <1>4, BacklogElsewhere DEF Next, Writer, Main

-----------------------------------------------------------------------------
(* How records move. *)

LEMMA SendMoves ==
  ASSUME TypeOK, Send
  PROVE  /\ ToSet(hand) = {Head(hand)} /\ ToSet(hand') = {}
         /\ Waiting' = Waiting \cup {Head(hand)} /\ given' = given \cup {Head(hand)}
         /\ UNCHANGED <<readings, statuses, shed, writer, refused>>
<1>1. hand # <<>> /\ hand' = <<>> /\ chan' = chan \o hand /\ UNCHANGED <<pending, body>>
  BY DEF Send, SendOnly
<1>2. ToSet(hand) = {Head(hand)}
  <2>1. hand[1] = Head(hand) /\ Len(hand) \in Nat /\ Len(hand) >= 1 /\ Len(hand) <= 1
    BY <1>1, TailSet DEF TypeOK
  <2>2. DOMAIN hand = 1..1
    <3>1. Len(hand) = 1
      BY <2>1
    <3>2. DOMAIN hand = 1..Len(hand)
      BY LenProperties DEF TypeOK
    <3>3. QED
      BY <3>1, <3>2
  <2>3. QED
    BY <2>1, <2>2 DEF ToSet
<1>3. ToSet(chan') = ToSet(chan) \cup ToSet(hand)
  BY <1>1, ConcatSet DEF TypeOK
<1>4. QED
  BY <1>1, <1>2, <1>3, EmptySet DEF Waiting, Send, tables

LEMMA ReceiveMoves ==
  ASSUME TypeOK, WriterOrder, Receive
  PROVE  Waiting' = Waiting
<1> DEFINE longer == Append(pending, Head(chan))
<1>1. /\ ToSet(chan) = {Head(chan)} \cup ToSet(chan') /\ Head(chan) \in Records
  BY TailSet DEF Receive, TypeOK
<1>2. ToSet(longer) = ToSet(pending) \cup {Head(chan)}
  BY <1>1, AppendSet DEF TypeOK
<1>3. body = <<>>
  BY DEF Receive, WriterOrder
<1>4. \/ body' = longer /\ pending' = <<>>
      \/ pending' = longer /\ body' = body
  BY DEF Receive, Flush
<1> HIDE DEF longer
<1>5. QED
  BY <1>1, <1>2, <1>3, <1>4, EmptySet DEF Waiting

LEMMA FlushMoves ==
  ASSUME TypeOK, WriterOrder, Tick \/ ChannelCloses
  PROVE  Waiting' = Waiting
<1>1. chan' = chan /\ body = <<>>
  BY DEF Tick, ChannelCloses, WriterOrder
<1>2. \/ body' = pending /\ pending' = <<>>
      \/ pending' = pending /\ body' = body
  BY DEF Tick, ChannelCloses, Flush
<1>3. QED
  BY <1>1, <1>2, EmptySet DEF Waiting

LEMMA WrittenMoves ==
  ASSUME TypeOK, WriterOrder, Written
  PROVE  Waiting = Waiting' \cup ToSet(body)
<1>1. chan' = chan /\ body' = <<>> /\ pending' = pending
  BY DEF Written, Answered
<1>2. QED
  BY <1>1, EmptySet DEF Waiting

LEMMA NotWrittenMoves ==
  ASSUME TypeOK, WriterOrder, NotWritten
  PROVE  \/ Waiting' = Waiting /\ shed' = shed
         \/ Waiting = Waiting' \cup ToSet(body) /\ shed' = shed \cup ToSet(body)
<1>1. chan' = chan /\ body' = <<>>
  BY DEF NotWritten, Answered
<1>2. CASE Drop
  BY <1>1, <1>2, EmptySet DEF Waiting, Drop
<1>3. CASE PutBack
  <2>1. ToSet(body \o pending) = ToSet(body) \cup ToSet(pending)
    BY ConcatSet DEF TypeOK
  <2>2. ToSet(pending') = ToSet(body) \cup ToSet(pending) /\ shed' = shed
    BY <1>3, <2>1 DEF PutBack
  <2>3. QED
    BY <1>1, <2>2, EmptySet DEF Waiting
<1>4. QED
  BY <1>2, <1>3 DEF NotWritten

\* Where no two records share a date, deduplication replaces a row by itself.
LEMMA StoresKeeps ==
  ASSUME TypeOK, OneRecord, NEW which \in SUBSET BothTables, Stores(which)
  PROVE  /\ readings \subseteq readings' /\ DOMAIN statuses \subseteq DOMAIN statuses'
         /\ which = BothTables => \A r \in ToSet(body) : InTables(r)'
<1>1. Rows(body, "reading") \subseteq Known /\ readings \subseteq Known
  BY RowsType, RecordKinds DEF Known, Waiting, IsReading, TypeOK
<1>2. ASSUME NEW r \in readings, r \notin readings' PROVE FALSE
  <2>1. PICK q \in Rows(body, "reading") : q.at = r.at /\ q.node = r.node
    BY <1>2 DEF Stores, Upsert
  <2>2. q = r
    BY <1>1, <1>2, <2>1 DEF OneRecord
  <2>3. QED
    BY <1>2, <2>2 DEF Stores, Upsert
<1>3. ASSUME which = BothTables, NEW r \in ToSet(body) PROVE r \in readings' \/ r \in DOMAIN statuses'
  <2>1. r \in Rows(body, "reading") \/ r \in Rows(body, "status")
    BY RowsType
  <2>2. CASE r \in Rows(body, "reading")
    <3>1. "readings" \in which
      BY <1>3 DEF BothTables
    <3>2. QED
      BY <2>2, <3>1 DEF Stores, Upsert
  <2>3. CASE r \in Rows(body, "status")
    <3>1. "status" \in which /\ IsABag(statuses)
      BY <1>3 DEF BothTables, TypeOK
    <3>2. QED
      BY <2>3, <3>1, BagGrows DEF Stores
  <2>4. QED
    BY <2>1, <2>2, <2>3
<1>4. QED
  BY <1>2, <1>3, StoresType DEF InTables, BagIn, BagToSet

\* Only the handling of a reading makes a record of one.
LEMMA NothingNew ==
  ASSUME TypeOK, WriterOrder,
         World \/ ConnAck \/ Subscribe \/ HandleStatus \/ Send \/ Writer \/ Main
  PROVE  Known' \subseteq Known
<1>1. CASE World \/ ConnAck \/ Subscribe \/ Start
  <2>1. UNCHANGED <<hand, chan, pending, body, readings>>
    BY <1>1 DEF World, Measures, Says, LinkBreaks, ConnAck, Subscribe, Start, buffer, tables
  <2>2. QED
    BY <2>1 DEF Known, Waiting
<1>2. CASE HandleStatus
  <2> DEFINE r == [kind |-> "status", node |-> Head(feed).node, online |-> Head(feed).online, at |-> now']
  <2>1. UNCHANGED <<chan, pending, body, readings>> /\ (hand' = hand \/ hand' = <<r>>)
    BY <1>2 DEF HandleStatus, buffer, tables
  <2>2. ~IsReading(r) /\ ToSet(<<r>>) = {r}
    BY SingleSet DEF IsReading
  <2> HIDE DEF r
  <2>3. QED
    BY <2>1, <2>2 DEF Known, Waiting
<1>3. CASE Send
  BY <1>3, SendMoves DEF Known
<1>4. CASE Receive
  BY <1>4, ReceiveMoves DEF Known, Receive, bridge, tables
<1>5. CASE Tick \/ ChannelCloses
  BY <1>5, FlushMoves DEF Known, Tick, ChannelCloses, bridge, tables
<1>6. CASE Written
  <2>1. readings' \subseteq readings \cup Rows(body, "reading") /\ hand' = hand
    BY <1>6, StoresType DEF Written, BothTables, bridge
  <2>2. QED
    BY <1>6, <2>1, RowsType, WrittenMoves DEF Known
<1>7. CASE NotWritten
  <2>1. readings' \subseteq readings \cup Rows(body, "reading") /\ hand' = hand
    BY <1>7, StoresType DEF NotWritten, bridge, tables
  <2>2. QED
    BY <1>7, <2>1, RowsType, NotWrittenMoves DEF Known, Waiting
<1>8. CASE Stop
  BY <1>8, EmptySet DEF Stop, Known, Waiting, buffer, tables
<1>9. CASE Exit \/ GivesUp \/ Killed
  <2>1. readings' \subseteq readings \cup Rows(body, "reading")
    BY <1>9, StoresType DEF Exit, GivesUp, Killed, tables
  <2>2. Waiting' = {} /\ ToSet(hand') = {}
    BY <1>9, EmptySet DEF Exit, GivesUp, Killed, Down, Waiting
  <2>3. QED
    BY <2>1, <2>2, RowsType DEF Known, Waiting
<1>10. QED
  BY <1>1, <1>2, <1>3, <1>4, <1>5, <1>6, <1>7, <1>8, <1>9 DEF Writer, Main
-----------------------------------------------------------------------------
(* The dates. *)

LEMMA KnownType ==
  ASSUME TypeOK
  PROVE  Known \subseteq ReadingRecords
<1>1. ToSet(hand) \cup Waiting \subseteq Records
  BY ElementOfSeq, LenProperties DEF ToSet, Waiting, TypeOK
<1>2. QED
  BY <1>1, RecordKinds DEF Known, IsReading, TypeOK

LEMMA FeedType ==
  ASSUME TypeOK
  PROVE  /\ Len(feed) \in Nat /\ now \in Nat
         /\ \A i \in 1..Len(feed) :
              /\ feed[i] \in Messages
              /\ IsReading(feed[i]) =>
                   /\ feed[i].node \in Nodes /\ feed[i].taken \in Nat
                   /\ feed[i].dated \in BOOLEAN /\ feed[i].retained \in BOOLEAN
  BY ElementOfSeq, LenProperties, MessageKinds DEF IsReading, TypeOK

\* A step that takes messages from either end of the feed and makes no record.
LEMMA QuietKeeps ==
  ASSUME TypeOK, Dating, Known' \subseteq Known, reading' = reading,
         now' \in Nat, now' >= now,
         NEW k \in 0..1, Len(feed') \in Nat, Len(feed') + k <= Len(feed),
         \A i \in 1..Len(feed') : feed'[i] = feed[i + k]
  PROVE  Dating'
<1>1. \A i \in 1..Len(feed') : i + k \in 1..Len(feed) /\ feed'[i] = feed[i + k]
  BY FeedType
<1>2. Dates'
  <2>1. \A r \in Known : r.taken \in Nat /\ r.at \in Nat
    BY KnownType, RecordKinds
  <2>2. \A r \in Known' : r.taken <= r.at /\ r.at <= now'
    BY <2>1, FeedType DEF Dating, Dates
  <2>3. \A i \in 1..Len(feed') : IsReading(feed'[i]) => feed'[i].taken <= now'
    BY <1>1, FeedType DEF Dating, Dates
  <2>4. \A n \in Nodes : reading'[n] # Nothing => reading'[n].taken <= now'
    BY HeadValue, FeedType DEF Dating, Dates
  <2>5. QED
    BY <2>2, <2>3, <2>4 DEF Dates, IsReading
<1>3. OneRecord'
  BY DEF Dating, OneRecord
<1>4. DatedKeepDate'
  BY <1>1 DEF Dating, DatedKeepDate, OwnDate, IsReading
<1>5. HandledOnce'
  <2>1. ASSUME NEW i \in 1..Len(feed'), LiveUndated(feed'[i])
        PROVE  /\ \A r \in Known' : r.node = feed'[i].node => r.taken # feed'[i].taken
               /\ \A j \in 1..Len(feed') :
                    j # i /\ IsReading(feed'[j]) /\ feed'[j].node = feed'[i].node
                      /\ feed'[j].taken = feed'[i].taken => Undatable(feed'[j])
               /\ LET h == reading'[feed'[i].node] IN
                    h # Nothing /\ h.taken = feed'[i].taken => ~h.dated
    <3>1. i + k \in 1..Len(feed) /\ LiveUndated(feed[i + k])
      BY <1>1, <2>1
    <3>2. \A j \in 1..Len(feed') : j # i => j + k # i + k
      OBVIOUS
    <3>3. QED
      BY <1>1, <3>1, <3>2 DEF Dating, HandledOnce
  <2>2. QED
    BY <2>1 DEF HandledOnce, LiveUndated, IsReading, Undatable
<1>6. QED
  BY <1>2, <1>3, <1>4, <1>5 DEF Dating

\* What a deed adds to the feed: nothing, or its message at the end.
LEMMA Delivered ==
  ASSUME TypeOK, NEW m \in Messages, Delivers(m)
  PROVE  /\ Len(feed') \in Nat /\ Len(feed') >= Len(feed)
         /\ \A i \in 1..Len(feed') :
              \/ i \in 1..Len(feed) /\ feed'[i] = feed[i]
              \/ i = Len(feed) + 1 /\ feed'[i] = m
<1> DEFINE longer == Append(feed, m)
<1>1. /\ Len(longer) = Len(feed) + 1 /\ Len(feed) \in Nat
      /\ \A i \in 1..Len(feed) : longer[i] = feed[i]
      /\ longer[Len(feed) + 1] = m
  BY AppendProperties, FeedType DEF TypeOK
<1>2. feed' = longer \/ feed' = feed
  BY DEF Delivers
<1> HIDE DEF longer
<1>3. QED
  BY <1>1, <1>2

LEMMA MeasuresKeeps ==
  ASSUME TypeOK, Dating, NEW n \in Nodes, NEW dated \in BOOLEAN, Measures(n, dated)
  PROVE  Dating'
<1> DEFINE m == [kind |-> "reading", node |-> n, taken |-> now + 1, dated |-> dated, retained |-> FALSE]
           head == [taken |-> now + 1, dated |-> dated]
<1>1. /\ now' = now + 1 /\ now \in Nat /\ Delivers(m) /\ m \in Messages
      /\ reading' = [reading EXCEPT ![n] = head]
      /\ Known' = Known
  BY DEF Measures, TypeOK, Messages, Known, Waiting, buffer, tables
<1>2. /\ IsReading(m) /\ m.node = n /\ m.taken = now + 1 /\ m.dated = dated /\ ~m.retained
      /\ head.taken = now + 1 /\ head.dated = dated
  BY DEF IsReading
<1> HIDE DEF m
<1>3. /\ Len(feed') \in Nat
      /\ \A i \in 1..Len(feed') :
           \/ i \in 1..Len(feed) /\ feed'[i] = feed[i]
           \/ i = Len(feed) + 1 /\ feed'[i] = m
  BY <1>1, Delivered
<1>4. reading'[n] = head /\ \A k \in Nodes : k # n => reading'[k] = reading[k]
  BY <1>1 DEF TypeOK
<1> HIDE DEF head
<1>5. \A r \in Known : /\ r.taken \in Nat /\ r.at \in Nat
                        /\ r.taken <= r.at /\ r.at <= now /\ r.taken <= now
  BY <1>1, KnownType, RecordKinds DEF Dating, Dates
<1>6. \A i \in 1..Len(feed) : IsReading(feed[i]) =>
        feed[i].taken \in Nat /\ feed[i].taken <= now /\ feed[i].node \in Nodes
  BY FeedType DEF Dating, Dates
<1>7. \A k \in Nodes : reading[k] # Nothing => reading[k].taken \in Nat /\ reading[k].taken <= now
  BY HeadValue DEF Dating, Dates
<1>8. Dates'
  <2>1. \A r \in Known' : r.taken <= r.at /\ r.at <= now'
    BY <1>1, <1>5
  <2>2. \A i \in 1..Len(feed') : IsReading(feed'[i]) => feed'[i].taken <= now'
    BY <1>1, <1>2, <1>3, <1>6
  <2>3. \A k \in Nodes : reading'[k] # Nothing => reading'[k].taken <= now'
    BY <1>1, <1>2, <1>4, <1>7
  <2>4. QED
    BY <2>1, <2>2, <2>3 DEF Dates, IsReading
<1>9. OneRecord'
  BY <1>1 DEF Dating, OneRecord
<1>10. DatedKeepDate'
  <2>1. \A k \in Nodes : OwnDate(k, now + 1)
    BY <1>1, <1>5 DEF OwnDate
  <2>2. \A i \in 1..Len(feed') :
          IsReading(feed'[i]) /\ feed'[i].dated => OwnDate(feed'[i].node, feed'[i].taken)
    BY <1>2, <1>3, <2>1 DEF Dating, DatedKeepDate
  <2>3. \A k \in Nodes : reading'[k] # Nothing /\ reading'[k].dated => OwnDate(k, reading'[k].taken)
    BY <1>2, <1>4, <2>1 DEF Dating, DatedKeepDate
  <2>4. QED
    BY <1>1, <2>2, <2>3 DEF DatedKeepDate, OwnDate, IsReading
<1>11. HandledOnce'
  <2>1. ASSUME NEW i \in 1..Len(feed'), LiveUndated(feed'[i])
        PROVE  /\ \A r \in Known : r.node = feed'[i].node => r.taken # feed'[i].taken
               /\ \A j \in 1..Len(feed') :
                    j # i /\ IsReading(feed'[j]) /\ feed'[j].node = feed'[i].node
                      /\ feed'[j].taken = feed'[i].taken => Undatable(feed'[j])
               /\ LET h == reading'[feed'[i].node] IN
                    h # Nothing /\ h.taken = feed'[i].taken => ~h.dated
    <3>1. CASE i \in 1..Len(feed) /\ feed'[i] = feed[i]
      <4>1. /\ LiveUndated(feed[i]) /\ IsReading(feed[i]) /\ feed[i].node \in Nodes
            /\ feed[i].taken \in Nat /\ feed[i].taken # now + 1
        BY <1>1, <1>6, <2>1, <3>1 DEF LiveUndated
      <4>2. \A r \in Known : r.node = feed[i].node => r.taken # feed[i].taken
        BY <3>1, <4>1 DEF Dating, HandledOnce
      <4>3. ASSUME NEW j \in 1..Len(feed'), j # i, IsReading(feed'[j]),
                   feed'[j].node = feed[i].node, feed'[j].taken = feed[i].taken
            PROVE  Undatable(feed'[j])
        BY <1>2, <1>3, <3>1, <4>1, <4>3 DEF Dating, HandledOnce
      <4>4. LET h == reading'[feed[i].node] IN h # Nothing /\ h.taken = feed[i].taken => ~h.dated
        BY <1>2, <1>4, <3>1, <4>1 DEF Dating, HandledOnce
      <4>5. QED
        BY <3>1, <4>2, <4>3, <4>4
    <3>2. CASE i = Len(feed) + 1 /\ feed'[i] = m
      <4>1. ~dated
        BY <1>2, <2>1, <3>2 DEF LiveUndated
      <4>2. \A r \in Known : r.taken # now + 1
        BY <1>1, <1>5
      <4>3. \A j \in 1..Len(feed') : j # i /\ IsReading(feed'[j]) => feed'[j].taken # now + 1
        BY <1>1, <1>3, <1>6, <3>2
      <4>4. QED
        BY <1>2, <1>4, <3>2, <4>1, <4>2, <4>3
    <3>3. QED
      BY <1>3, <3>1, <3>2
  <2>2. QED
    BY <1>1, <2>1 DEF HandledOnce, LiveUndated, IsReading, Undatable
<1>12. QED
  BY <1>8, <1>9, <1>10, <1>11 DEF Dating

LEMMA SaysKeeps ==
  ASSUME TypeOK, Dating, NEW n \in Nodes, NEW s \in Statuses, Says(n, s)
  PROVE  Dating'
<1> DEFINE m == [kind |-> "status", node |-> n, online |-> s]
<1>1. /\ now' = now /\ reading' = reading /\ Delivers(m) /\ m \in Messages /\ ~IsReading(m)
      /\ Known' = Known
  BY DEF Says, Messages, IsReading, Known, Waiting, buffer, tables
<1> HIDE DEF m
<1>2. /\ Len(feed') \in Nat /\ Len(feed) \in Nat
      /\ \A i \in 1..Len(feed') :
           IsReading(feed'[i]) => i \in 1..Len(feed) /\ feed'[i] = feed[i]
  BY <1>1, Delivered, FeedType
<1>3. Dates'
  BY <1>1, <1>2 DEF Dating, Dates, IsReading
<1>4. OneRecord'
  BY <1>1 DEF Dating, OneRecord
<1>5. DatedKeepDate'
  BY <1>1, <1>2 DEF Dating, DatedKeepDate, OwnDate, IsReading
<1>6. HandledOnce'
  BY <1>1, <1>2 DEF Dating, HandledOnce, LiveUndated, IsReading, Undatable
<1>7. QED
  BY <1>3, <1>4, <1>5, <1>6 DEF Dating

\* A replay brings only what is retained, each with its date if it has one.
LEMMA SubscribeKeeps ==
  ASSUME TypeOK, Dating, Subscribe PROVE Dating'
<1>1. PICK replay \in Bijection(1..Cardinality(Retained), Retained) : feed' = feed \o replay
  BY DEF Subscribe
<1> DEFINE longer == feed \o replay
<1>2. /\ Len(longer) = Len(feed) + Len(replay) /\ Len(feed) \in Nat /\ Len(replay) \in Nat
      /\ \A i \in 1..Len(feed) + Len(replay) :
           longer[i] = IF i <= Len(feed) THEN feed[i] ELSE replay[i - Len(feed)]
      /\ \A i \in 1..Len(replay) : replay[i] \in Retained
  BY ReplayType, ConcatProperties, FeedType DEF TypeOK
<1>3. feed' = longer
  BY <1>1
<1> HIDE DEF longer
<1>4. /\ Len(feed') \in Nat
      /\ \A i \in 1..Len(feed') :
           \/ i \in 1..Len(feed) /\ feed'[i] = feed[i]
           \/ feed'[i] \in Retained
  <2>1. ASSUME NEW i \in 1..Len(feed') PROVE i \in 1..Len(feed) \/ i - Len(feed) \in 1..Len(replay)
    BY <1>2, <1>3
  <2>2. QED
    BY <1>2, <1>3, <2>1
<1>5. /\ now' = now /\ reading' = reading /\ Known' = Known
  BY DEF Subscribe, broker, Known, Waiting, buffer, tables
<1>6. ASSUME NEW m \in Retained, IsReading(m)
      PROVE  /\ m.node \in Nodes /\ reading[m.node] # Nothing
             /\ m.taken = reading[m.node].taken /\ m.dated = reading[m.node].dated
             /\ m.retained = TRUE /\ m.dated \in BOOLEAN
  <2>1. \A k \in Nodes : ~IsReading([kind |-> "status", node |-> k, online |-> said[k]])
    BY DEF IsReading
  <2>2. PICK k \in Nodes : /\ reading[k] # Nothing
                           /\ m = [kind |-> "reading", node |-> k, taken |-> reading[k].taken,
                                   dated |-> reading[k].dated, retained |-> TRUE]
    BY <1>6, <2>1 DEF Retained
  <2>3. QED
    BY <2>2, HeadValue
<1>7. Dates'
  <2>1. \A i \in 1..Len(feed') : IsReading(feed'[i]) => feed'[i].taken <= now
    BY <1>4, <1>6 DEF Dating, Dates
  <2>2. QED
    BY <1>5, <2>1 DEF Dating, Dates, IsReading
<1>8. OneRecord'
  BY <1>5 DEF Dating, OneRecord
<1>9. DatedKeepDate'
  <2>1. \A i \in 1..Len(feed') :
          IsReading(feed'[i]) /\ feed'[i].dated => OwnDate(feed'[i].node, feed'[i].taken)
    BY <1>4, <1>6 DEF Dating, DatedKeepDate
  <2>2. QED
    BY <1>5, <2>1 DEF Dating, DatedKeepDate, OwnDate, IsReading
<1>10. HandledOnce'
  <2>1. ASSUME NEW i \in 1..Len(feed'), LiveUndated(feed'[i])
        PROVE  /\ \A r \in Known : r.node = feed'[i].node => r.taken # feed'[i].taken
               /\ \A j \in 1..Len(feed') :
                    j # i /\ IsReading(feed'[j]) /\ feed'[j].node = feed'[i].node
                      /\ feed'[j].taken = feed'[i].taken => Undatable(feed'[j])
               /\ LET h == reading[feed'[i].node] IN
                    h # Nothing /\ h.taken = feed'[i].taken => ~h.dated
    <3>1. i \in 1..Len(feed) /\ feed'[i] = feed[i]
      BY <1>4, <1>6, <2>1 DEF LiveUndated
    <3>2. LET h == reading[feed[i].node] IN h # Nothing /\ h.taken = feed[i].taken => ~h.dated
      BY <2>1, <3>1 DEF Dating, HandledOnce
    <3>3. \A r \in Known : r.node = feed[i].node => r.taken # feed[i].taken
      BY <2>1, <3>1 DEF Dating, HandledOnce
    <3>4. ASSUME NEW j \in 1..Len(feed'), j # i, IsReading(feed'[j]),
                 feed'[j].node = feed[i].node, feed'[j].taken = feed[i].taken
          PROVE  Undatable(feed'[j])
      <4>1. CASE j \in 1..Len(feed) /\ feed'[j] = feed[j]
        BY <2>1, <3>1, <3>4, <4>1 DEF Dating, HandledOnce
      <4>2. CASE feed'[j] \in Retained
        <5>1. /\ reading[feed[i].node] # Nothing /\ feed[i].taken = reading[feed[i].node].taken
              /\ feed'[j].dated = reading[feed[i].node].dated /\ feed'[j].retained = TRUE
          BY <1>6, <3>4, <4>2
        <5>2. QED
          BY <3>2, <5>1 DEF Undatable
      <4>3. QED
        BY <1>4, <4>1, <4>2
    <3>5. QED
      BY <3>1, <3>2, <3>3, <3>4
  <2>2. QED
    BY <1>5, <2>1 DEF HandledOnce, LiveUndated, IsReading, Undatable
<1>11. QED
  BY <1>7, <1>8, <1>9, <1>10 DEF Dating

\* What HandledOnce says of the feed holds of the rest of it.
LEMMA HandledOnceTail ==
  ASSUME TypeOK, HandledOnce, reading' = reading,
         \A i \in 1..Len(feed') : i + 1 \in 1..Len(feed) /\ feed'[i] = feed[i + 1],
         \A i \in 1..Len(feed') : LiveUndated(feed'[i]) =>
           \A q \in Known' : q.node = feed'[i].node => q.taken # feed'[i].taken
  PROVE  HandledOnce'
<1>1. \A i \in 1..Len(feed') : LiveUndated(feed'[i]) =>
        /\ \A j \in 1..Len(feed') :
             j # i /\ IsReading(feed'[j]) /\ feed'[j].node = feed'[i].node
               /\ feed'[j].taken = feed'[i].taken => Undatable(feed'[j])
        /\ LET h == reading[feed'[i].node] IN
             h # Nothing /\ h.taken = feed'[i].taken => ~h.dated
  <2>1. ASSUME NEW i \in 1..Len(feed'), LiveUndated(feed'[i])
        PROVE  LET h == reading[feed'[i].node] IN h # Nothing /\ h.taken = feed'[i].taken => ~h.dated
    BY <2>1 DEF HandledOnce
  <2>2. ASSUME NEW i \in 1..Len(feed'), LiveUndated(feed'[i]), NEW j \in 1..Len(feed'), j # i,
               IsReading(feed'[j]), feed'[j].node = feed'[i].node, feed'[j].taken = feed'[i].taken
        PROVE  Undatable(feed'[j])
    <3>1. j + 1 # i + 1
      BY <2>2
    <3>2. QED
      BY <2>2, <3>1 DEF HandledOnce
  <2>3. QED
    BY <2>1, <2>2
<1>2. QED
  BY <1>1 DEF HandledOnce, LiveUndated, IsReading, Undatable

\* The one step that makes a record of a reading.
LEMMA HandleReadingKeeps ==
  ASSUME TypeOK, WriterOrder, Dating, HandleReading PROVE Dating'
<1> DEFINE m == feed[1]
<1>1. /\ Head(feed) = m /\ m \in Messages /\ IsReading(m) /\ Len(feed) \in Nat /\ Len(feed) >= 1
      /\ Len(feed') \in Nat /\ Len(feed') + 1 <= Len(feed)
      /\ \A i \in 1..Len(feed') : i + 1 \in 1..Len(feed) /\ feed'[i] = feed[i + 1]
  BY TailSet DEF HandleReading, Polls, IsReading, TypeOK
<1>2. 1 \in 1..Len(feed) /\ m.node \in Nodes /\ m.taken \in Nat /\ m.dated \in BOOLEAN /\ m.retained \in BOOLEAN
  BY <1>1, FeedType
<1>3. /\ hand = <<>> /\ reading' = reading /\ readings' = readings /\ Waiting' = Waiting /\ now \in Nat
  BY DEF HandleReading, Polls, broker, buffer, tables, Waiting, TypeOK
<1>4. CASE Undatable(m)
  <2>1. hand' = hand /\ now' = now
    BY <1>1, <1>4 DEF HandleReading
  <2>2. Known' \subseteq Known
    BY <1>3, <2>1 DEF Known
  <2>3. QED
    BY <1>1, <1>3, <2>1, <2>2, QuietKeeps
<1>5. CASE ~Undatable(m)
  <2> DEFINE at == IF m.dated THEN m.taken ELSE now + 1
             r == [kind |-> "reading", node |-> m.node, taken |-> m.taken, at |-> at]
  <2>1. now' = (IF m.dated THEN now ELSE now + 1) /\ hand' = <<r>>
    BY <1>1, <1>2, <1>5 DEF HandleReading
  <2>2. r \in ReadingRecords /\ r.node = m.node /\ r.taken = m.taken /\ r.at = at
    BY <1>2, <1>3 DEF ReadingRecords
  <2> HIDE DEF r
  <2>3. Known' \subseteq Known \cup {r}
    BY <1>3, <2>1, <2>2, SingleSet DEF Known
  <2>4. \A q \in Known : q \in ReadingRecords /\ q.taken \in Nat /\ q.at \in Nat /\ q.taken <= q.at /\ q.at <= now
    BY KnownType, RecordKinds DEF Dating, Dates
  <2>5. \A i \in 1..Len(feed) : IsReading(feed[i]) => feed[i].taken \in Nat /\ feed[i].taken <= now
    BY FeedType DEF Dating, Dates
  <2>6. Dates'
    <3>1. now' >= now /\ m.taken <= at /\ at <= now'
      BY <1>1, <1>2, <1>3, <2>1, <2>5
    <3>2. now' \in Nat
      BY <1>3, <2>1
    <3> HIDE DEF at, m
    <3>3. \A q \in Known' : q.taken <= q.at /\ q.at <= now'
      BY <1>3, <2>2, <2>3, <2>4, <3>1, <3>2
    <3>4. \A i \in 1..Len(feed') : IsReading(feed'[i]) => feed'[i].taken <= now'
      BY <1>1, <1>3, <2>5, <3>1, <3>2
    <3>5. \A n \in Nodes : reading[n] # Nothing => reading[n].taken <= now'
      BY <1>3, HeadValue, <3>1, <3>2 DEF Dating, Dates
    <3>6. QED
      BY <1>3, <3>3, <3>4, <3>5 DEF Dates, IsReading
  <2>7. OneRecord' /\ DatedKeepDate' /\ HandledOnce'
    <3>1. CASE m.dated
      <4>1. at = m.taken /\ now' = now /\ OwnDate(m.node, m.taken)
        BY <1>1, <1>2, <2>1, <3>1 DEF Dating, DatedKeepDate
      <4>2. r.at = m.taken
        BY <2>2, <4>1
      <4> HIDE DEF at, m
      <4>3. OneRecord'
        <5>1. ASSUME NEW q \in Known, q.node = r.node, q.at = r.at \/ q.taken = r.taken PROVE q = r
          <6>1. q.at = q.taken /\ q.taken = m.taken
            BY <2>2, <4>1, <4>2, <5>1 DEF OwnDate
          <6>2. QED
            BY <2>2, <2>4, <4>2, <5>1, <6>1 DEF ReadingRecords
        <5>2. QED
          BY <2>3, <5>1 DEF Dating, OneRecord
      <4>4. DatedKeepDate'
        <5>1. ASSUME NEW n, NEW t, OwnDate(n, t)
              PROVE \A q \in Known' : q.node = n /\ (q.at = t \/ q.taken = t) => q.at = q.taken
          BY <2>2, <2>3, <4>2, <5>1 DEF OwnDate
        <5>2. \A i \in 1..Len(feed') : IsReading(feed'[i]) /\ feed'[i].dated =>
                OwnDate(feed'[i].node, feed'[i].taken)
          BY <1>1 DEF Dating, DatedKeepDate
        <5>3. \A i \in 1..Len(feed') : IsReading(feed'[i]) /\ feed'[i].dated =>
                \A q \in Known' : q.node = feed'[i].node /\ (q.at = feed'[i].taken \/ q.taken = feed'[i].taken)
                  => q.at = q.taken
          BY <5>1, <5>2
        <5>4. \A n \in Nodes : reading[n] # Nothing /\ reading[n].dated =>
                \A q \in Known' : q.node = n /\ (q.at = reading[n].taken \/ q.taken = reading[n].taken)
                  => q.at = q.taken
          BY <5>1 DEF Dating, DatedKeepDate
        <5>5. QED
          BY <1>3, <5>3, <5>4 DEF DatedKeepDate, OwnDate, IsReading
      <4>5. HandledOnce'
        <5>1. ASSUME NEW i \in 1..Len(feed'), LiveUndated(feed'[i])
              PROVE  \A q \in Known' : q.node = feed'[i].node => q.taken # feed'[i].taken
          <6>1. i + 1 \in 1..Len(feed) /\ feed'[i] = feed[i + 1] /\ i + 1 # 1
            BY <1>1
          <6>2. ~(feed[1].node = feed[i + 1].node /\ feed[1].taken = feed[i + 1].taken)
            BY <1>1, <1>2, <1>5, <5>1, <6>1 DEF Dating, HandledOnce, m
          <6>3. QED
            BY <2>2, <2>3, <5>1, <6>1, <6>2 DEF Dating, HandledOnce, m
        <5>2. QED
          BY <1>1, <1>3, <5>1, HandledOnceTail DEF Dating
      <4>6. QED
        BY <4>3, <4>4, <4>5
    <3>2. CASE ~m.dated
      <4>1. at = now + 1 /\ now' = now + 1 /\ LiveUndated(m)
        BY <1>1, <1>2, <1>5, <2>1, <3>2 DEF LiveUndated, Undatable
      <4>2. r.at = now + 1
        BY <2>2, <4>1
      <4>3. /\ \A q \in Known : q.node = m.node => q.taken # m.taken
            /\ \A j \in 1..Len(feed) :
                 j # 1 /\ IsReading(feed[j]) /\ feed[j].node = m.node
                   /\ feed[j].taken = m.taken => Undatable(feed[j])
            /\ reading[m.node] # Nothing /\ reading[m.node].taken = m.taken => ~reading[m.node].dated
        BY <1>2, <4>1 DEF Dating, HandledOnce
      <4> HIDE DEF at, m
      <4>4. OneRecord'
        <5>1. ASSUME NEW q \in Known, q.node = r.node PROVE q.at # r.at /\ q.taken # r.taken
          BY <1>3, <2>2, <2>4, <4>2, <4>3, <5>1
        <5>2. QED
          BY <2>3, <5>1 DEF Dating, OneRecord
      <4>5. DatedKeepDate'
        <5>1. ASSUME NEW n, NEW t \in Nat, t <= now, OwnDate(n, t), ~(n = m.node /\ t = m.taken)
              PROVE \A q \in Known' : q.node = n /\ (q.at = t \/ q.taken = t) => q.at = q.taken
          <6>1. r.node = n => r.at # t /\ r.taken # t
            BY <1>3, <2>2, <4>2, <5>1
          <6>2. QED
            BY <2>3, <5>1, <6>1 DEF OwnDate
        <5>2. \A i \in 1..Len(feed') : IsReading(feed'[i]) /\ feed'[i].dated =>
                \A q \in Known' : q.node = feed'[i].node /\ (q.at = feed'[i].taken \/ q.taken = feed'[i].taken)
                  => q.at = q.taken
          <6>1. ASSUME NEW i \in 1..Len(feed'), IsReading(feed'[i]), feed'[i].dated
                PROVE  /\ feed'[i].taken \in Nat /\ feed'[i].taken <= now
                       /\ OwnDate(feed'[i].node, feed'[i].taken)
                       /\ ~(feed'[i].node = m.node /\ feed'[i].taken = m.taken)
            <7>1. i + 1 \in 1..Len(feed) /\ feed'[i] = feed[i + 1] /\ i + 1 # 1
              BY <1>1
            <7>2. QED
              BY <2>5, <4>3, <6>1, <7>1 DEF Dating, DatedKeepDate, Undatable
          <6>2. QED
            BY <5>1, <6>1
        <5>3. \A n \in Nodes : reading[n] # Nothing /\ reading[n].dated =>
                \A q \in Known' : q.node = n /\ (q.at = reading[n].taken \/ q.taken = reading[n].taken)
                  => q.at = q.taken
          <6>1. ASSUME NEW n \in Nodes, reading[n] # Nothing, reading[n].dated
                PROVE  /\ reading[n].taken \in Nat /\ reading[n].taken <= now
                       /\ OwnDate(n, reading[n].taken)
                       /\ ~(n = m.node /\ reading[n].taken = m.taken)
            BY <4>3, <6>1, HeadValue DEF Dating, Dates, DatedKeepDate
          <6>2. QED
            BY <5>1, <6>1
        <5>4. QED
          BY <1>3, <5>2, <5>3 DEF DatedKeepDate, OwnDate, IsReading
      <4>6. HandledOnce'
        <5>1. ASSUME NEW i \in 1..Len(feed'), LiveUndated(feed'[i])
              PROVE  \A q \in Known' : q.node = feed'[i].node => q.taken # feed'[i].taken
          <6>1. i + 1 \in 1..Len(feed) /\ feed'[i] = feed[i + 1] /\ i + 1 # 1
            BY <1>1
          <6>2. ~(feed[i + 1].node = m.node /\ feed[i + 1].taken = m.taken)
            BY <4>3, <5>1, <6>1 DEF LiveUndated, Undatable
          <6>3. QED
            BY <2>2, <2>3, <5>1, <6>1, <6>2 DEF Dating, HandledOnce
        <5>2. QED
          BY <1>1, <1>3, <5>1, HandledOnceTail DEF Dating
      <4>7. QED
        BY <4>4, <4>5, <4>6
    <3>3. QED
      BY <1>2, <3>1, <3>2
  <2>8. QED
    BY <2>6, <2>7 DEF Dating
<1>6. QED
  BY <1>4, <1>5

LEMMA DatingKept ==
  ASSUME TypeOK, TypeOK', WriterOrder, Dating, Next PROVE Dating'
<1>1. CASE LinkBreaks \/ ConnAck \/ HandleStatus \/ Send \/ Writer \/ Main
  <2>1. reading' = reading /\ now' \in Nat /\ now' >= now /\ Len(feed') \in Nat
    <3>1. reading' = reading /\ (now' = now \/ now' = now + 1)
      BY <1>1 DEF LinkBreaks, ConnAck, HandleStatus, Send, Writer, Receive, Tick, ChannelCloses,
                  Written, NotWritten, Main, Start, Stop, Exit, GivesUp, Killed, Down, broker
    <3>2. Len(feed') \in Nat
      BY LenProperties DEF TypeOK
    <3>3. QED
      BY <3>1, <3>2 DEF TypeOK
  <2>2. Known' \subseteq Known
    BY <1>1, NothingNew DEF World
  <2>3. CASE LinkBreaks
    <3>1. PICK k \in 0..Len(feed) : feed' = SubSeq(feed, 1, k)
      BY <2>3 DEF LinkBreaks
    <3>2. k \in Nat /\ Len(feed') = k /\ Len(feed') <= Len(feed) /\ \A i \in 1..Len(feed') : feed'[i] = feed[i]
      <4>1. feed \in Seq(Messages)
        BY DEF TypeOK
      <4>2. Len(feed') = k /\ \A i \in 1..k : feed'[i] = feed[i]
        BY <3>1, <4>1, PrefixSeq
      <4>3. k \in Nat /\ k <= Len(feed)
        BY FeedType
      <4> QED BY <4>2, <4>3
    <3>3. 0 \in 0..1 /\ Len(feed') + 0 <= Len(feed) /\ \A i \in 1..Len(feed') : feed'[i] = feed[i + 0]
      BY <3>2
    <3>4. QED
      BY <2>1, <2>2, <3>3, QuietKeeps
  <2>4. CASE HandleStatus
    <3>1. feed # <<>> /\ feed' = Tail(feed)
      BY <2>4 DEF HandleStatus
    <3>2. 1 \in 0..1 /\ Len(feed') + 1 <= Len(feed) /\ \A i \in 1..Len(feed') : feed'[i] = feed[i + 1]
      BY <3>1, TailSet DEF TypeOK
    <3>3. QED
      BY <2>1, <2>2, <3>2, QuietKeeps
  <2>5. CASE Stop \/ Exit \/ GivesUp \/ Killed
    <3>1. feed' = <<>>
      BY <2>5 DEF Stop, Exit, GivesUp, Killed, Down
    <3>2. Len(feed') = 0
      BY <3>1
    <3>3. 0 \in 0..1 /\ Len(feed') + 0 <= Len(feed) /\ \A i \in 1..Len(feed') : feed'[i] = feed[i + 0]
      BY <3>2, FeedType, LenProperties DEF TypeOK
    <3>4. QED
      BY <2>1, <2>2, <3>3, QuietKeeps
  <2>6. CASE ConnAck \/ Send \/ Writer \/ Start
    <3>1. feed' = feed
      BY <2>6 DEF ConnAck, Send, Writer, Receive, Tick, ChannelCloses, Written, NotWritten, Start, bridge
    <3>2. 0 \in 0..1 /\ Len(feed') + 0 <= Len(feed) /\ \A i \in 1..Len(feed') : feed'[i] = feed[i + 0]
      BY <3>1, FeedType
    <3>3. QED
      BY <2>1, <2>2, <3>2, QuietKeeps
  <2>7. QED
    BY <1>1, <2>3, <2>4, <2>5, <2>6 DEF Main
<1>2. QED
  BY <1>1, MeasuresKeeps, SaysKeeps, SubscribeKeeps, HandleReadingKeeps DEF Next, World, Bridge

-----------------------------------------------------------------------------
(* What was sent. *)

LEMMA InTablesGrows ==
  ASSUME readings \subseteq readings', DOMAIN statuses \subseteq DOMAIN statuses', NEW r, InTables(r)
  PROVE  InTables(r)'
  BY DEF InTables, BagIn, BagToSet

LEMMA KeptKept ==
  ASSUME TypeOK, WriterOrder, BacklogBounded, OneRecord, Kept, Next
  PROVE  Kept'
<1>1. CASE World \/ ConnAck \/ Subscribe \/ HandleReading \/ HandleStatus \/ Start \/ Stop
  <2>1. UNCHANGED <<given, shed, readings, statuses, chan, pending, body, writer, refused>>
    BY <1>1 DEF World, Measures, Says, LinkBreaks, ConnAck, Subscribe, HandleReading, HandleStatus,
                Start, Stop, buffer, tables, history
  <2>2. QED
    BY <2>1 DEF Kept, InTables
<1>2. CASE Send
  <2>1. writer # "gone"
    BY <1>2 DEF Send, SendOnly, WriterOrder
  <2>2. QED
    BY <1>2, <2>1, SendMoves DEF Kept, InTables, Waiting
<1>3. CASE Receive
  <2>1. UNCHANGED <<given, shed, readings, statuses>> /\ writer' # "gone"
    BY <1>3 DEF Receive, Flush, tables, history
  <2>2. QED
    BY <1>3, <2>1, ReceiveMoves DEF Kept, InTables, Waiting
<1>4. CASE Tick \/ ChannelCloses
  <2>1. UNCHANGED <<given, shed, readings, statuses>> /\ writer = "waits"
    BY <1>4 DEF Tick, ChannelCloses, tables, history
  <2>2. CASE writer' # "gone"
    BY <1>4, <2>1, <2>2, FlushMoves DEF Kept, InTables, Waiting
  <2>3. CASE writer' = "gone"
    <3>1. ChannelCloses /\ chan = <<>> /\ lines = 0 /\ body = <<>>
      BY <1>4, <2>1, <2>3 DEF Tick, ChannelCloses, Flush, WriterOrder, TypeOK
    <3>2. pending = <<>>
      <4>1. Len(pending) = 0
        BY <3>1, LenProperties DEF BacklogBounded, TypeOK
      <4>2. QED
        BY <4>1, EmptySeq DEF TypeOK
    <3>3. \A r \in given : InTables(r) \/ r \in shed
      BY <3>1, <3>2, EmptySet DEF Kept
    <3>4. QED
      BY <2>1, <3>3 DEF Kept, InTables
  <2>4. QED
    BY <2>2, <2>3
<1>5. CASE Written
  <2>1. /\ Stores(BothTables) /\ UNCHANGED <<given, shed, chan, pending>> /\ body' = <<>>
        /\ pending = <<>> /\ (writer' = "gone" => chan = <<>>)
    BY <1>5 DEF Written, Writing, Answered, WriterOrder, history
  <2>2. /\ readings \subseteq readings' /\ DOMAIN statuses \subseteq DOMAIN statuses'
        /\ \A r \in ToSet(body) : InTables(r)'
    BY <2>1, StoresKeeps
  <2>3. writer' = "gone" => Waiting = ToSet(body)
    BY <2>1, EmptySet DEF Waiting
  <2>4. ASSUME NEW r \in given
        PROVE  InTables(r)' \/ r \in shed \/ (r \in Waiting' /\ writer' # "gone")
    <3>1. CASE InTables(r)
      BY <2>2, <3>1, InTablesGrows
    <3>2. CASE r \in Waiting
      BY <1>5, <2>2, <2>3, <3>2, WrittenMoves
    <3>3. QED
      BY <2>4, <3>1, <3>2 DEF Kept, Waiting
  <2>5. QED
    BY <2>1, <2>4 DEF Kept, Waiting
<1>6. CASE NotWritten
  <2>1. given' = given /\ (writer' = "gone" => refused')
    BY <1>6 DEF NotWritten, Answered, TypeOK
  <2>2. readings \subseteq readings' /\ DOMAIN statuses \subseteq DOMAIN statuses'
    BY <1>6, StoresKeeps DEF NotWritten, tables
  <2>3. ASSUME NEW r \in given
        PROVE  InTables(r)' \/ r \in shed' \/ r \in Waiting'
    <3>1. CASE InTables(r)
      BY <2>2, <3>1, InTablesGrows
    <3>2. CASE r \in shed \/ r \in Waiting
      BY <1>6, <3>2, NotWrittenMoves
    <3>3. QED
      BY <2>3, <3>1, <3>2 DEF Kept, Waiting
  <2>4. QED
    BY <2>1, <2>3 DEF Kept, Waiting
<1>7. CASE Exit \/ GivesUp \/ Killed
  BY <1>7 DEF Exit, GivesUp, Killed, Down, Kept
<1>8. QED
  BY <1>1, <1>2, <1>3, <1>4, <1>5, <1>6, <1>7 DEF Next, Bridge, Writer, Main

-----------------------------------------------------------------------------
(* Statuses. *)

\* The statuses of a node: in the table, buffered, in the channel, in the hand.
Of(n, X) == {r \in X : r.kind = "status" /\ r.node = n}
Stored(n) == Of(n, DOMAIN statuses)
Buffered(n) == Of(n, ToSet(body) \cup ToSet(pending))
Queued(n) == Of(n, ToSet(chan))
Held(n) == Of(n, ToSet(hand))

\* They are dated in the order they go this way.
Ordered(T, B, C, H, t) ==
  /\ T \cup B \cup C \cup H \subseteq StatusRecords
  /\ \A r \in T \cup B \cup C \cup H : r.at <= t
  /\ \A r, q \in T \cup B \cup C \cup H : r.at = q.at => r = q
  /\ \A r \in T \cup B, q \in C \cup H : r.at < q.at
  /\ \A r \in C, q \in H : r.at < q.at

Alternate(X) ==
  \A r, q \in X : r.at < q.at /\ r.online = q.online =>
    \E between \in X : r.at < between.at /\ between.at < q.at

LastIs(X, s) == \A r \in X : (\A q \in X : q.at <= r.at) => r.online = s

\* What is stored of a batch that will be sent again is the beginning of it.
Good(T, B, C, H) ==
  /\ \A r \in T, q \in B : q.at < r.at => q \in T
  /\ Alternate(T \cup B \cup C \cup H)

ChanSorted ==
  \A i, j \in 1..Len(chan) :
    i < j /\ chan[i].kind = "status" /\ chan[j].kind = "status" /\ chan[i].node = chan[j].node =>
      chan[i].at < chan[j].at

AllOf(n) == Stored(n) \cup Buffered(n) \cup Queued(n) \cup Held(n)
OrderedOf(n) == Ordered(Stored(n), Buffered(n), Queued(n), Held(n), now)
GoodOf(n) == Good(Stored(n), Buffered(n), Queued(n), Held(n))

StatusInv ==
  /\ ChanSorted
  /\ \A n \in Nodes : OrderedOf(n)
  /\ \A n \in Nodes :
       \/ blind \/ DroppedStatus(n)
       \/ /\ GoodOf(n)
          /\ phase = "up" => LastIs(AllOf(n), online[n])

LEMMA OfUnion ==
  ASSUME NEW n, NEW X, NEW Y
  PROVE  Of(n, X \cup Y) = Of(n, X) \cup Of(n, Y) /\ Of(n, {}) = {}
  BY DEF Of

LEMMA DatesAreNumbers == \A r \in StatusRecords : r.at \in Nat /\ r.online \in Statuses
  BY DEF StatusRecords

-----------------------------------------------------------------------------
(* What the steps do to four sets of statuses. *)

LEMMA AlternateCut ==
  ASSUME NEW X, NEW Y, Y \subseteq X, Alternate(X),
         \A r \in Y, q \in X : q.at < r.at => q \in Y
  PROVE  Alternate(Y)
  BY DEF Alternate

LEMMA SentSets ==
  ASSUME NEW T, NEW B, NEW C, NEW H, NEW t, Ordered(T, B, C, H, t)
  PROVE  /\ Ordered(T, B, C \cup H, {}, t)
         /\ Good(T, B, C, H) => Good(T, B, C \cup H, {})
<1>1. Ordered(T, B, C \cup H, {}, t)  BY DEF Ordered
<1>2. T \cup B \cup (C \cup H) \cup {} = T \cup B \cup C \cup H  OBVIOUS
<1> QED  BY <1>1, <1>2 DEF Good

LEMMA ReceivedSets ==
  ASSUME NEW T, NEW B, NEW C, NEW H, NEW t, NEW X, Ordered(T, B, X \cup C, H, t),
         \A x \in X, q \in C : x.at < q.at
  PROVE  /\ Ordered(T, B \cup X, C, H, t)
         /\ Good(T, B, X \cup C, H) => Good(T, B \cup X, C, H)
<1>1. T \cup (B \cup X) \cup C \cup H = T \cup B \cup (X \cup C) \cup H  OBVIOUS
<1>2. Ordered(T, B \cup X, C, H, t)  BY DEF Ordered
<1>3. ASSUME Good(T, B, X \cup C, H) PROVE Good(T, B \cup X, C, H)
  <2>1. ASSUME NEW r \in T, NEW q \in B \cup X, q.at < r.at PROVE q \in T
    <3>1. r \in StatusRecords /\ q \in StatusRecords  BY DEF Ordered
    <3>2. r.at \in Nat /\ q.at \in Nat  BY <3>1, DatesAreNumbers
    <3>3. q \in X => r.at < q.at  BY DEF Ordered
    <3> QED  BY <1>3, <2>1, <3>2, <3>3 DEF Good
  <2> QED  BY <1>1, <1>3, <2>1 DEF Good
<1> QED  BY <1>2, <1>3

LEMMA StoredSets ==
  ASSUME NEW T, NEW B, NEW C, NEW H, NEW t, Ordered(T, B, C, H, t)
  PROVE  /\ Ordered(T \cup B, B, C, H, t) /\ Ordered(T \cup B, {}, C, H, t)
         /\ Good(T, B, C, H) => Good(T \cup B, B, C, H) /\ Good(T \cup B, {}, C, H)
<1>1. /\ (T \cup B) \cup B \cup C \cup H = T \cup B \cup C \cup H
      /\ (T \cup B) \cup {} \cup C \cup H = T \cup B \cup C \cup H
  OBVIOUS
<1>2. Ordered(T \cup B, B, C, H, t) /\ Ordered(T \cup B, {}, C, H, t)  BY DEF Ordered
<1> QED  BY <1>1, <1>2 DEF Good

\* The process ends, with the batch stored or not.
LEMMA EndedSets ==
  ASSUME NEW T, NEW B, NEW C, NEW H, NEW t, Ordered(T, B, C, H, t), NEW Z, Z \in {T, T \cup B}
  PROVE  /\ Ordered(Z, {}, {}, {}, t)
         /\ Good(T, B, C, H) => Good(Z, {}, {}, {})
<1>1. Ordered(Z, {}, {}, {}, t)  BY DEF Ordered
<1>2. ASSUME Good(T, B, C, H) PROVE Alternate(Z)
  <2>1. ASSUME NEW r \in Z, NEW q \in T \cup B \cup C \cup H, q.at < r.at PROVE q \in Z
    <3>1. r \in StatusRecords /\ q \in StatusRecords  BY DEF Ordered
    <3>2. r.at \in Nat /\ q.at \in Nat  BY <3>1, DatesAreNumbers
    <3>3. q \notin C \cup H  BY <2>1, <3>2 DEF Ordered
    <3> QED  BY <1>2, <2>1, <3>3 DEF Good
  <2> QED  BY <1>2, <2>1, AlternateCut DEF Good
<1> QED  BY <1>1, <1>2 DEF Good

\* The record in the bridge's hand is forgotten.
LEMMA ForgottenSets ==
  ASSUME NEW T, NEW B, NEW C, NEW H, NEW t, Ordered(T, B, C, H, t)
  PROVE  /\ Ordered(T, B, C, {}, t)
         /\ Good(T, B, C, H) => Good(T, B, C, {})
<1>1. Ordered(T, B, C, {}, t)  BY DEF Ordered
<1>2. ASSUME Good(T, B, C, H) PROVE Alternate(T \cup B \cup C \cup {})
  <2>1. ASSUME NEW r \in T \cup B \cup C, NEW q \in T \cup B \cup C \cup H, q.at < r.at
        PROVE  q \in T \cup B \cup C
    <3>1. r \in StatusRecords /\ q \in StatusRecords  BY DEF Ordered
    <3>2. r.at \in Nat /\ q.at \in Nat  BY <3>1, DatesAreNumbers
    <3>3. q \notin H  BY <2>1, <3>2 DEF Ordered
    <3> QED  BY <3>3
  <2> QED  BY <1>2, <2>1, AlternateCut DEF Good
<1> QED  BY <1>1, <1>2 DEF Good

\* What is buffered is dropped.
LEMMA DroppedSets ==
  ASSUME NEW T, NEW B, NEW C, NEW H, NEW t, Ordered(T, B, C, H, t), NEW Z, Z \in {T, T \cup B}
  PROVE  Ordered(Z, {}, C, H, t)
  BY DEF Ordered

\* A change of the status is taken in hand.
LEMMA HandledSets ==
  ASSUME NEW T, NEW B, NEW C, NEW t \in Nat, Ordered(T, B, C, {}, t),
         NEW h \in StatusRecords, h.at = t + 1
  PROVE  /\ Ordered(T, B, C, {h}, t + 1)
         /\ \A s : Good(T, B, C, {}) /\ LastIs(T \cup B \cup C \cup {}, s) /\ h.online # s =>
              Good(T, B, C, {h}) /\ LastIs(T \cup B \cup C \cup {h}, h.online)
<1> DEFINE X == T \cup B \cup C
<1>1. \A r \in X : r \in StatusRecords /\ r.at \in Nat /\ r.at <= t /\ r.at < h.at
  BY DatesAreNumbers DEF Ordered
<1>2. Ordered(T, B, C, {h}, t + 1)  BY <1>1 DEF Ordered
<1>3. ASSUME NEW s, Good(T, B, C, {}), LastIs(T \cup B \cup C \cup {}, s), h.online # s
      PROVE  Good(T, B, C, {h}) /\ LastIs(T \cup B \cup C \cup {h}, h.online)
  <2>1. Alternate(X) /\ LastIs(X, s)
    <3>1. T \cup B \cup C \cup {} = X  OBVIOUS
    <3> HIDE DEF X
    <3> QED  BY <1>3, <3>1 DEF Good
  <2> HIDE DEF X
  <2>2. ASSUME NEW r \in X \cup {h}, NEW q \in X \cup {h}, r.at < q.at, r.online = q.online
        PROVE  \E between \in X \cup {h} : r.at < between.at /\ between.at < q.at
    <3>1. r \in X  BY <1>1, <2>2
    <3>2. CASE q \in X  BY <2>1, <2>2, <3>1, <3>2 DEF Alternate
    <3>3. CASE q = h
      <4>1. PICK p \in X : ~(p.at <= r.at)  BY <1>3, <2>1, <2>2, <3>1, <3>3 DEF LastIs
      <4> QED  BY <1>1, <3>1, <3>3, <4>1
    <3> QED  BY <3>2, <3>3
  <2>3. Alternate(X \cup {h})  BY <2>2 DEF Alternate
  <2>4. LastIs(X \cup {h}, h.online)  BY <1>1 DEF LastIs
  <2>5. T \cup B \cup C \cup {h} = X \cup {h}  BY DEF X
  <2> QED  BY <1>3, <2>3, <2>4, <2>5 DEF Good
<1> QED  BY <1>2, <1>3

LEMMA LaterSets ==
  ASSUME NEW T, NEW B, NEW C, NEW H, NEW t \in Nat, NEW u \in Nat, t <= u, Ordered(T, B, C, H, t)
  PROVE  Ordered(T, B, C, H, u)
<1>1. \A r \in T \cup B \cup C \cup H : r.at \in Nat /\ r.at <= t  BY DatesAreNumbers DEF Ordered
<1> QED  BY <1>1 DEF Ordered

-----------------------------------------------------------------------------
(* The steps and the statuses. *)

LEMMA StatusesType ==
  ASSUME TypeOK
  PROVE  /\ ToSet(chan) \subseteq Records /\ ToSet(body) \subseteq Records
         /\ ToSet(pending) \subseteq Records /\ ToSet(hand) \subseteq Records
         /\ now \in Nat /\ Len(chan) \in Nat /\ Len(hand) \in Nat
  BY ElementOfSeq, LenProperties DEF ToSet, TypeOK

LEMMA QuietStatus ==
  ASSUME TypeOK, TypeOK', StatusInv, now' >= now, chan' = chan,
         blind => blind', shed \subseteq shed', phase' = "up" => phase = "up", online' = online,
         \A n \in Nodes :
           Stored(n)' = Stored(n) /\ Buffered(n)' = Buffered(n) /\ Held(n)' = Held(n)
  PROVE  StatusInv'
<1>1. \A n \in Nodes : Queued(n)' = Queued(n)  BY DEF Queued
<1>2. now \in Nat /\ now' \in Nat /\ now <= now'  BY DEF TypeOK
<1>3. ChanSorted'  BY DEF StatusInv, ChanSorted
<1>4. ASSUME NEW n \in Nodes PROVE OrderedOf(n)'
  BY <1>1, <1>2, LaterSets DEF StatusInv, OrderedOf
<1>5. ASSUME NEW n \in Nodes
      PROVE  \/ blind' \/ DroppedStatus(n)'
             \/ GoodOf(n)' /\ (phase' = "up" => LastIs(AllOf(n)', online'[n]))
  <2>1. DroppedStatus(n) => DroppedStatus(n)'  BY DEF DroppedStatus
  <2>2. GoodOf(n) => GoodOf(n)'  BY <1>1 DEF GoodOf
  <2>3. AllOf(n)' = AllOf(n)  BY <1>1 DEF AllOf
  <2> QED  BY <2>1, <2>2, <2>3 DEF StatusInv
<1> QED  BY <1>3, <1>4, <1>5 DEF StatusInv

LEMMA SendStatus ==
  ASSUME TypeOK, StatusInv, Send PROVE StatusInv'
<1>1. /\ chan' = chan \o hand /\ hand' = <<>>
      /\ UNCHANGED <<statuses, body, pending, now, blind, shed, phase, online>>
  BY DEF Send, SendOnly, tables
<1>2. hand \in Seq(Records) /\ chan \in Seq(Records) /\ Len(hand) <= 1  BY DEF TypeOK
<1>3. ToSet(chan') = ToSet(chan) \cup ToSet(hand) /\ ToSet(hand') = {}
  BY <1>1, <1>2, ConcatSet, EmptySet
<1>4. ASSUME NEW n \in Nodes
      PROVE  /\ Stored(n)' = Stored(n) /\ Buffered(n)' = Buffered(n)
             /\ Queued(n)' = Queued(n) \cup Held(n) /\ Held(n)' = {}
  <2>1. Stored(n)' = Stored(n) /\ Buffered(n)' = Buffered(n)  BY <1>1 DEF Stored, Buffered
  <2>2. Of(n, ToSet(chan')) = Of(n, ToSet(chan)) \cup Of(n, ToSet(hand)) /\ Of(n, ToSet(hand')) = {}
    BY <1>3, OfUnion
  <2> QED  BY <2>1, <2>2 DEF Queued, Held
<1>5. ChanSorted'
  <2>1. /\ Len(chan) \in Nat /\ Len(hand) \in 0..1 /\ Len(chan') = Len(chan) + Len(hand)
        /\ \A i \in 1..Len(chan) + Len(hand) :
             chan'[i] = IF i <= Len(chan) THEN chan[i] ELSE hand[i - Len(chan)]
    <3>1. Len(chan) \in Nat /\ Len(hand) \in Nat  BY <1>2, LenProperties
    <3>2. /\ Len(chan \o hand) = Len(chan) + Len(hand)
          /\ \A i \in 1..Len(chan) + Len(hand) :
               (chan \o hand)[i] = IF i <= Len(chan) THEN chan[i] ELSE hand[i - Len(chan)]
      BY <1>2, ConcatProperties
    <3>3. chan' = chan \o hand  BY <1>1
    <3>4. /\ Len(chan') = Len(chan) + Len(hand)
          /\ \A i \in 1..Len(chan) + Len(hand) :
               chan'[i] = IF i <= Len(chan) THEN chan[i] ELSE hand[i - Len(chan)]
      BY <3>2, <3>3, Zenon
    <3>5. Len(hand) \in 0..1
      <4>1. Len(hand) <= 1  BY <1>2
      <4> QED  BY <3>1, <4>1
    <3> QED  BY <3>1, <3>4, <3>5
  <2>2. DOMAIN chan = 1..Len(chan) /\ DOMAIN hand = 1..Len(hand)  BY <1>2, LenProperties
  <2>3. ASSUME NEW i \in 1..Len(chan'), NEW j \in 1..Len(chan'), i < j,
               chan'[i].kind = "status", chan'[j].kind = "status", chan'[i].node = chan'[j].node
        PROVE  chan'[i].at < chan'[j].at
    <3>1. CASE j <= Len(chan)
      BY <2>1, <2>3, <3>1 DEF StatusInv, ChanSorted
    <3>2. CASE j > Len(chan)
      <4>1. i \in 1..Len(chan) /\ chan'[i] = chan[i] /\ j - Len(chan) \in 1..Len(hand)
            /\ chan'[j] = hand[j - Len(chan)]
        BY <2>1, <2>3, <3>2
      <4>2. chan[i] \in ToSet(chan) /\ hand[j - Len(chan)] \in ToSet(hand)
        BY <2>2, <4>1 DEF ToSet
      <4>3. chan[i].node \in Nodes
        BY <2>3, <4>1, <4>2, StatusesType, RecordKinds DEF StatusRecords
      <4>4. chan'[i] \in Queued(chan[i].node) /\ chan'[j] \in Held(chan[i].node)
        BY <2>3, <4>1, <4>2 DEF Queued, Held, Of
      <4> QED  BY <4>1, <4>3, <4>4 DEF StatusInv, OrderedOf, Ordered
    <3> QED  BY <2>1, <2>3, <3>1, <3>2
  <2> QED  BY <2>3 DEF ChanSorted
<1>6. ASSUME NEW n \in Nodes
      PROVE  /\ OrderedOf(n)' /\ (GoodOf(n) => GoodOf(n)') /\ AllOf(n)' = AllOf(n)
  <2>1. OrderedOf(n)  BY DEF StatusInv
  <2>2. OrderedOf(n)' /\ (GoodOf(n) => GoodOf(n)')
    <3>1. Ordered(Stored(n), Buffered(n), Queued(n), Held(n), now)  BY <2>1 DEF OrderedOf
    <3>2. /\ Ordered(Stored(n), Buffered(n), Queued(n) \cup Held(n), {}, now)
          /\ Good(Stored(n), Buffered(n), Queued(n), Held(n)) =>
               Good(Stored(n), Buffered(n), Queued(n) \cup Held(n), {})
      BY <3>1, SentSets
    <3> QED  BY <1>1, <1>4, <3>2 DEF OrderedOf, GoodOf
  <2>3. AllOf(n)' = AllOf(n)  BY <1>4 DEF AllOf
  <2> QED  BY <2>2, <2>3
<1> QED  BY <1>1, <1>5, <1>6 DEF StatusInv, DroppedStatus

LEMMA ReceiveStatus ==
  ASSUME TypeOK, WriterOrder, StatusInv, Receive PROVE StatusInv'
<1>1. /\ chan # <<>> /\ chan' = Tail(chan) /\ body = <<>>
      /\ \/ body' = Append(pending, Head(chan)) /\ pending' = <<>>
         \/ body' = <<>> /\ pending' = Append(pending, Head(chan))
      /\ UNCHANGED <<statuses, hand, now, blind, shed, phase, online>>
  BY DEF Receive, Flush, WriterOrder, tables, bridge, history
<1>2. chan \in Seq(Records) /\ pending \in Seq(Records)  BY DEF TypeOK
<1>3. /\ Len(chan) \in Nat /\ Len(chan) >= 1 /\ Len(chan') = Len(chan) - 1 /\ Head(chan) = chan[1]
      /\ Head(chan) \in Records
      /\ \A i \in 1..Len(chan') : i + 1 \in 1..Len(chan) /\ chan'[i] = chan[i + 1]
      /\ ToSet(chan) = {Head(chan)} \cup ToSet(chan') /\ chan' \in Seq(Records)
  BY <1>1, <1>2, TailSet
<1>4. ToSet(body') \cup ToSet(pending') = ToSet(body) \cup ToSet(pending) \cup {Head(chan)}
  <2>1. ToSet(Append(pending, Head(chan))) = ToSet(pending) \cup {Head(chan)}
    BY <1>2, <1>3, AppendSet
  <2> QED  BY <1>1, <2>1, EmptySet
<1>5. ASSUME NEW n \in Nodes
      PROVE  /\ Stored(n)' = Stored(n) /\ Held(n)' = Held(n)
             /\ Buffered(n)' = Buffered(n) \cup Of(n, {Head(chan)})
             /\ Queued(n) = Of(n, {Head(chan)}) \cup Queued(n)'
  BY <1>1, <1>3, <1>4, OfUnion DEF Stored, Buffered, Queued, Held
<1>6. ChanSorted'
  <2>1. ASSUME NEW i \in 1..Len(chan'), NEW j \in 1..Len(chan'), i < j,
               chan'[i].kind = "status", chan'[j].kind = "status", chan'[i].node = chan'[j].node
        PROVE  chan'[i].at < chan'[j].at
    <3>1. /\ i + 1 \in 1..Len(chan) /\ j + 1 \in 1..Len(chan) /\ i + 1 < j + 1
          /\ chan'[i] = chan[i + 1] /\ chan'[j] = chan[j + 1]
      BY <1>3, <2>1
    <3> QED  BY <2>1, <3>1 DEF StatusInv, ChanSorted
  <2> QED  BY <2>1 DEF ChanSorted
<1>7. ASSUME NEW n \in Nodes, NEW x \in Of(n, {Head(chan)}), NEW q \in Queued(n)'
      PROVE  x.at < q.at
  <2>1. PICK i \in 1..Len(chan') : q = chan'[i]
    BY <1>3, <1>7, LenProperties DEF Queued, Of, ToSet
  <2>2. i + 1 \in 1..Len(chan) /\ q = chan[i + 1] /\ x = chan[1] /\ 1 \in 1..Len(chan) /\ 1 < i + 1
    BY <1>3, <1>7, <2>1 DEF Of
  <2>3. q.kind = "status" /\ q.node = n /\ x.kind = "status" /\ x.node = n
    BY <1>7 DEF Of, Queued
  <2> QED  BY <2>2, <2>3 DEF StatusInv, ChanSorted
<1>8. ASSUME NEW n \in Nodes
      PROVE  /\ OrderedOf(n)' /\ (GoodOf(n) => GoodOf(n)') /\ AllOf(n)' = AllOf(n)
  <2>1. OrderedOf(n)  BY DEF StatusInv
  <2>2. OrderedOf(n)' /\ (GoodOf(n) => GoodOf(n)')
    <3>1. Ordered(Stored(n), Buffered(n), Of(n, {Head(chan)}) \cup Queued(n)', Held(n), now)
      BY <1>5, <2>1 DEF OrderedOf
    <3>2. /\ Ordered(Stored(n), Buffered(n) \cup Of(n, {Head(chan)}), Queued(n)', Held(n), now)
          /\ Good(Stored(n), Buffered(n), Of(n, {Head(chan)}) \cup Queued(n)', Held(n)) =>
               Good(Stored(n), Buffered(n) \cup Of(n, {Head(chan)}), Queued(n)', Held(n))
      BY <1>7, <3>1, ReceivedSets
    <3> QED  BY <1>1, <1>5, <3>2 DEF OrderedOf, GoodOf
  <2>3. AllOf(n)' = AllOf(n)  BY <1>5 DEF AllOf
  <2> QED  BY <2>2, <2>3
<1> QED  BY <1>1, <1>6, <1>8 DEF StatusInv, DroppedStatus

LEMMA FlushStatus ==
  ASSUME TypeOK, TypeOK', WriterOrder, StatusInv, Tick \/ ChannelCloses PROVE StatusInv'
<1>1. /\ ToSet(body') \cup ToSet(pending') = ToSet(body) \cup ToSet(pending)
      /\ UNCHANGED <<statuses, chan, hand, now, blind, shed, phase, online>>
  BY EmptySet DEF Tick, ChannelCloses, Flush, WriterOrder, tables, bridge, history
<1>2. now' >= now
  <2>1. now' = now /\ now \in Nat  BY <1>1, StatusesType
  <2> QED  BY <2>1
<1>3. ASSUME NEW n \in Nodes
      PROVE  Stored(n)' = Stored(n) /\ Buffered(n)' = Buffered(n) /\ Held(n)' = Held(n)
  BY <1>1 DEF Stored, Buffered, Held
<1> QED  BY <1>1, <1>2, <1>3, QuietStatus

\* What the request in flight stores: every status of the batch, or none.
LEMMA StoredStatuses ==
  ASSUME TypeOK, WriterOrder, NEW which \in SUBSET BothTables, Stores(which), NEW n \in Nodes
  PROVE  /\ Stored(n)' \in {Stored(n), Stored(n) \cup Buffered(n)}
         /\ which = BothTables /\ Writing => Stored(n)' = Stored(n) \cup Buffered(n)
<1>1. Of(n, Rows(body, "status")) = Of(n, ToSet(body))
  BY DEF Of, Rows
<1>2. Writing => Of(n, ToSet(body)) = Buffered(n)
  <2>1. ASSUME Writing PROVE ToSet(body) \cup ToSet(pending) = ToSet(body)
    BY <2>1, EmptySet DEF WriterOrder
  <2> QED  BY <2>1 DEF Buffered
<1>3. ~Writing => Of(n, ToSet(body)) = {}
  <2>1. ~Writing => body = <<>>  BY DEF WriterOrder, Writing, TypeOK
  <2> QED  BY <2>1, EmptySet, OfUnion
<1>4. CASE "status" \in which
  <2>1. DOMAIN statuses' = DOMAIN statuses \cup Rows(body, "status")
    BY <1>4, BagGrows DEF Stores, TypeOK
  <2>2. Stored(n)' = Stored(n) \cup Of(n, ToSet(body))
    BY <1>1, <2>1, OfUnion DEF Stored
  <2>3. CASE Writing  BY <1>2, <2>2, <2>3
  <2>4. CASE ~Writing
    <3>1. Stored(n)' = Stored(n)  BY <1>3, <2>2, <2>4
    <3> QED  BY <2>4, <3>1
  <2> QED  BY <2>3, <2>4
<1>5. CASE "status" \notin which
  <2>1. statuses' = statuses  BY <1>5 DEF Stores
  <2>2. which # BothTables  BY <1>5 DEF BothTables
  <2> QED  BY <2>1, <2>2 DEF Stored
<1> QED  BY <1>4, <1>5

LEMMA WrittenStatus ==
  ASSUME TypeOK, WriterOrder, StatusInv, Written PROVE StatusInv'
<1>1. /\ Writing /\ Stores(BothTables) /\ body' = <<>> /\ pending' = <<>>
      /\ UNCHANGED <<chan, hand, now, blind, shed, phase, online>>
  BY DEF Written, Answered, WriterOrder, bridge, history
<1>2. ASSUME NEW n \in Nodes
      PROVE  /\ Stored(n)' = Stored(n) \cup Buffered(n) /\ Buffered(n)' = {}
             /\ Queued(n)' = Queued(n) /\ Held(n)' = Held(n)
  <2>1. BothTables \in SUBSET BothTables  OBVIOUS
  <2>2. Stored(n)' = Stored(n) \cup Buffered(n)  BY <1>1, <2>1, StoredStatuses
  <2>3. Buffered(n)' = {}  BY <1>1, EmptySet DEF Buffered, Of
  <2>4. Queued(n)' = Queued(n) /\ Held(n)' = Held(n)  BY <1>1 DEF Queued, Held
  <2> QED  BY <2>2, <2>3, <2>4
<1>3. ASSUME NEW n \in Nodes
      PROVE  OrderedOf(n)' /\ (GoodOf(n) => GoodOf(n)') /\ AllOf(n)' = AllOf(n)
  <2>1. Ordered(Stored(n), Buffered(n), Queued(n), Held(n), now)  BY DEF StatusInv, OrderedOf
  <2>2. OrderedOf(n)' /\ (GoodOf(n) => GoodOf(n)')
    <3>1. /\ Ordered(Stored(n) \cup Buffered(n), {}, Queued(n), Held(n), now)
          /\ Good(Stored(n), Buffered(n), Queued(n), Held(n)) =>
               Good(Stored(n) \cup Buffered(n), {}, Queued(n), Held(n))
      BY <2>1, StoredSets
    <3> QED  BY <1>1, <1>2, <3>1 DEF OrderedOf, GoodOf
  <2>3. AllOf(n)' = AllOf(n)  BY <1>2 DEF AllOf
  <2> QED  BY <2>2, <2>3
<1> QED  BY <1>1, <1>3 DEF StatusInv, ChanSorted, DroppedStatus

LEMMA NotWrittenStatus ==
  ASSUME TypeOK, WriterOrder, StatusInv, NotWritten PROVE StatusInv'
<1>1. /\ body' = <<>> /\ pending = <<>> /\ shed \subseteq shed'
      /\ UNCHANGED <<chan, hand, now, blind, phase, online>>
  BY DEF NotWritten, Answered, WriterOrder, Drop, PutBack, bridge
<1>2. ASSUME NEW n \in Nodes
      PROVE  /\ Stored(n)' \in {Stored(n), Stored(n) \cup Buffered(n)}
             /\ Queued(n)' = Queued(n) /\ Held(n)' = Held(n)
             /\ \/ Buffered(n)' = Buffered(n)
                \/ Buffered(n)' = {} /\ DroppedStatus(n)'
  <2>1. Queued(n)' = Queued(n) /\ Held(n)' = Held(n)  BY <1>1 DEF Queued, Held
  <2>2. Stored(n)' \in {Stored(n), Stored(n) \cup Buffered(n)}
    <3>1. CASE UNCHANGED tables  BY <3>1 DEF Stored, tables
    <3>2. CASE \E which \in SUBSET BothTables : Stores(which)  BY <3>2, StoredStatuses
    <3> QED  BY <3>1, <3>2 DEF NotWritten
  <2>3. CASE PutBack
    <3>1. body \in Seq(Records) /\ pending \in Seq(Records)  BY DEF TypeOK
    <3>2. ToSet(pending') = ToSet(body) \cup ToSet(pending)  BY <2>3, <3>1, ConcatSet DEF PutBack
    <3>3. ToSet(body') \cup ToSet(pending') = ToSet(body) \cup ToSet(pending)
      BY <1>1, <3>2, EmptySet
    <3>4. Buffered(n)' = Buffered(n)  BY <3>3 DEF Buffered
    <3> QED  BY <2>1, <2>2, <3>4
  <2>4. CASE Drop
    <3>1. pending' = <<>> /\ shed' = shed \cup ToSet(body)  BY <1>1, <2>4 DEF Drop
    <3>2. Buffered(n)' = {}  BY <1>1, <3>1, EmptySet DEF Buffered, Of
    <3>3. Buffered(n) # {} => DroppedStatus(n)'
      BY <1>1, <3>1, EmptySet DEF Buffered, Of, DroppedStatus
    <3>4. CASE Buffered(n) = {}  BY <2>1, <2>2, <3>2, <3>4
    <3>5. CASE Buffered(n) # {}  BY <2>1, <2>2, <3>2, <3>3, <3>5
    <3> QED  BY <3>4, <3>5
  <2> QED  BY <2>3, <2>4 DEF NotWritten
<1>3. ASSUME NEW n \in Nodes
      PROVE  /\ OrderedOf(n)'
             /\ ~DroppedStatus(n)' => (GoodOf(n) => GoodOf(n)') /\ AllOf(n)' = AllOf(n)
  <2>1. Ordered(Stored(n), Buffered(n), Queued(n), Held(n), now)  BY DEF StatusInv, OrderedOf
  <2>2. /\ Ordered(Stored(n) \cup Buffered(n), Buffered(n), Queued(n), Held(n), now)
        /\ Good(Stored(n), Buffered(n), Queued(n), Held(n)) =>
             Good(Stored(n) \cup Buffered(n), Buffered(n), Queued(n), Held(n))
    BY <2>1, StoredSets
  <2>3. Ordered(Stored(n)', {}, Queued(n), Held(n), now)
    BY <1>2, <2>1, DroppedSets
  <2>4. OrderedOf(n)'  BY <1>1, <1>2, <2>1, <2>2, <2>3 DEF OrderedOf
  <2>5. ASSUME ~DroppedStatus(n)' PROVE (GoodOf(n) => GoodOf(n)') /\ AllOf(n)' = AllOf(n)
    <3>1. Buffered(n)' = Buffered(n)  BY <1>2, <2>5
    <3>2. AllOf(n)' = AllOf(n)  BY <1>2, <3>1 DEF AllOf
    <3>3. GoodOf(n) => GoodOf(n)'  BY <1>2, <2>2, <3>1 DEF GoodOf
    <3> QED  BY <3>2, <3>3
  <2> QED  BY <2>4, <2>5
<1>4. \A n \in Nodes : DroppedStatus(n) => DroppedStatus(n)'  BY <1>1 DEF DroppedStatus
<1> QED  BY <1>1, <1>3, <1>4 DEF StatusInv, ChanSorted

LEMMA StopStatus ==
  ASSUME TypeOK, StatusInv, Stop PROVE StatusInv'
<1>1. /\ hand' = <<>> /\ phase' = "stopping"
      /\ UNCHANGED <<statuses, chan, body, pending, now, blind, shed>>
  BY DEF Stop, buffer, tables, history
<1>2. ASSUME NEW n \in Nodes
      PROVE  /\ Stored(n)' = Stored(n) /\ Buffered(n)' = Buffered(n)
             /\ Queued(n)' = Queued(n) /\ Held(n)' = {}
  BY <1>1, EmptySet DEF Stored, Buffered, Queued, Held, Of
<1>3. ASSUME NEW n \in Nodes PROVE OrderedOf(n)' /\ (GoodOf(n) => GoodOf(n)')
  <2>1. Ordered(Stored(n), Buffered(n), Queued(n), Held(n), now)  BY DEF StatusInv, OrderedOf
  <2>2. /\ Ordered(Stored(n), Buffered(n), Queued(n), {}, now)
        /\ Good(Stored(n), Buffered(n), Queued(n), Held(n)) =>
             Good(Stored(n), Buffered(n), Queued(n), {})
    BY <2>1, ForgottenSets
  <2> QED  BY <1>1, <1>2, <2>2 DEF OrderedOf, GoodOf
<1> QED  BY <1>1, <1>3 DEF StatusInv, ChanSorted, DroppedStatus

LEMMA DownStatus ==
  ASSUME TypeOK, WriterOrder, StatusInv, Exit \/ GivesUp \/ Killed PROVE StatusInv'
<1>1. /\ phase' = "down" /\ hand' = <<>> /\ chan' = <<>> /\ pending' = <<>> /\ body' = <<>>
      /\ UNCHANGED <<now, blind, shed>>
  BY DEF Exit, GivesUp, Killed, Down
<1>2. ASSUME NEW n \in Nodes
      PROVE  /\ Stored(n)' \in {Stored(n), Stored(n) \cup Buffered(n)}
             /\ Buffered(n)' = {} /\ Queued(n)' = {} /\ Held(n)' = {}
  <2>1. Buffered(n)' = {} /\ Queued(n)' = {} /\ Held(n)' = {}
    BY <1>1, EmptySet DEF Buffered, Queued, Held, Of
  <2>2. CASE Exit  BY <2>1, <2>2 DEF Exit, tables, Stored
  <2>3. CASE GivesUp \/ Killed
    <3>1. \E which \in SUBSET BothTables : Stores(which)  BY <2>3 DEF GivesUp, Killed
    <3> QED  BY <2>1, <3>1, StoredStatuses
  <2> QED  BY <2>2, <2>3
<1>3. ASSUME NEW n \in Nodes PROVE OrderedOf(n)' /\ (GoodOf(n) => GoodOf(n)')
  <2>1. Ordered(Stored(n), Buffered(n), Queued(n), Held(n), now)  BY DEF StatusInv, OrderedOf
  <2>2. /\ Ordered(Stored(n)', {}, {}, {}, now)
        /\ Good(Stored(n), Buffered(n), Queued(n), Held(n)) => Good(Stored(n)', {}, {}, {})
    BY <1>2, <2>1, EndedSets
  <2> QED  BY <1>1, <1>2, <2>2 DEF OrderedOf, GoodOf
<1>4. ChanSorted'
  <2>1. Len(chan') = 0  BY <1>1
  <2> QED  BY <2>1 DEF ChanSorted
<1> QED  BY <1>1, <1>3, <1>4 DEF StatusInv, DroppedStatus

\* The last of a node's rows says what the next start takes its status to be.
LEMMA LatestIsLast ==
  ASSUME TypeOK, NEW n \in Nodes, OrderedOf(n)
  PROVE  LastIs(Stored(n), Latest(n))
<1>1. StatusRows(n) = Stored(n)
  BY RecordKinds DEF StatusRows, Stored, Of, BagToSet, TypeOK
<1>2. \A r, q \in Stored(n) : r.at = q.at => r = q
  BY DEF OrderedOf, Ordered
<1>3. ASSUME NEW r \in Stored(n), \A q \in Stored(n) : q.at <= r.at PROVE r.online = Latest(n)
  <2>1. r \in StatusRecords /\ \A q \in Stored(n) : q.at \in Nat /\ q.online \in Statuses
    BY DatesAreNumbers DEF OrderedOf, Ordered
  <2>2. IsLatest(n, r) /\ \A q \in Stored(n) : IsLatest(n, q) => q = r
    BY <1>1, <1>2, <1>3, <2>1 DEF IsLatest
  <2> QED  BY <1>1, <2>1, <2>2 DEF Latest, Statuses
<1> QED  BY <1>3 DEF LastIs

LEMMA StartStatus ==
  ASSUME TypeOK, WriterOrder, BacklogBounded, StatusInv, Start PROVE StatusInv'
<1>1. /\ UNCHANGED <<statuses, chan, hand, body, pending, now, shed>>
      /\ \/ blind'
         \/ blind' = blind /\ online' = [n \in Nodes |-> Latest(n)]
  BY DEF Start, Seeds, SeedsFail, buffer, tables
<1>2. chan = <<>> /\ hand = <<>> /\ body = <<>> /\ pending = <<>>
  <2>1. chan = <<>> /\ hand = <<>> /\ body = <<>> /\ lines = 0
    BY DEF Start, WriterOrder
  <2>2. Len(pending) = 0
    <3>1. Len(pending) \in Nat /\ Len(body) \in Nat  BY LenProperties DEF TypeOK
    <3> QED  BY <2>1, <3>1 DEF BacklogBounded
  <2> QED  BY <2>1, <2>2, EmptySeq DEF TypeOK
<1>3. ASSUME NEW n \in Nodes
      PROVE  /\ Stored(n)' = Stored(n) /\ Buffered(n)' = {} /\ Queued(n)' = {} /\ Held(n)' = {}
             /\ Buffered(n) = {} /\ Queued(n) = {} /\ Held(n) = {}
  BY <1>1, <1>2, EmptySet DEF Stored, Buffered, Queued, Held, Of
<1>4. ASSUME NEW n \in Nodes
      PROVE  OrderedOf(n)' /\ (GoodOf(n) => GoodOf(n)') /\ AllOf(n)' = Stored(n)
  <2>1. OrderedOf(n)  BY DEF StatusInv
  <2> QED  BY <1>1, <1>3, <2>1 DEF OrderedOf, GoodOf, AllOf
<1>5. ASSUME NEW n \in Nodes
      PROVE  \/ blind' \/ DroppedStatus(n)'
             \/ GoodOf(n)' /\ (phase' = "up" => LastIs(AllOf(n)', online'[n]))
  <2>1. SUFFICES ASSUME ~blind', ~DroppedStatus(n)'
                 PROVE  GoodOf(n)' /\ LastIs(AllOf(n)', online'[n])
    OBVIOUS
  <2>2. ~blind /\ ~DroppedStatus(n) /\ online'[n] = Latest(n)  BY <1>1, <2>1 DEF DroppedStatus
  <2>3. GoodOf(n) /\ OrderedOf(n)  BY <2>2 DEF StatusInv
  <2> QED  BY <1>4, <2>2, <2>3, LatestIsLast
<1>6. ChanSorted'  BY <1>1 DEF StatusInv, ChanSorted
<1> QED  BY <1>4, <1>5, <1>6 DEF StatusInv

LEMMA HandleStatusStatus ==
  ASSUME TypeOK, TypeOK', StatusInv, HandleStatus PROVE StatusInv'
<1>1. /\ phase = "up" /\ hand = <<>>
      /\ UNCHANGED <<statuses, chan, body, pending, blind, shed, phase>>
  BY DEF HandleStatus, Polls, buffer, tables, history
<1>2. PICK k \in Nodes, s \in Statuses :
        IF online[k] = s THEN UNCHANGED <<online, hand, now>>
        ELSE /\ online' = [online EXCEPT ![k] = s]
             /\ now' = now + 1
             /\ hand' = <<[kind |-> "status", node |-> k, online |-> s, at |-> now']>>
  <2>1. Head(feed) \in Messages /\ Head(feed).kind = "status"  BY TailSet DEF HandleStatus, TypeOK
  <2>2. Head(feed).node \in Nodes /\ Head(feed).online \in Statuses  BY <2>1, MessageKinds
  <2> QED  BY <2>2 DEF HandleStatus
<1>3. now \in Nat /\ now' \in Nat  BY DEF TypeOK
<1>4. ASSUME NEW n \in Nodes
      PROVE  /\ Stored(n)' = Stored(n) /\ Buffered(n)' = Buffered(n)
             /\ Queued(n)' = Queued(n) /\ Held(n) = {}
  BY <1>1, EmptySet DEF Stored, Buffered, Queued, Held, Of
<1>5. CASE online[k] = s
  <2>1. UNCHANGED <<online, hand, now>>  BY <1>2, <1>5
  <2>2. now' >= now  BY <1>3, <2>1
  <2>3. \A n \in Nodes : Held(n)' = Held(n)  BY <2>1 DEF Held
  <2> QED  BY <1>1, <1>4, <2>1, <2>2, <2>3, QuietStatus
<1>6. CASE online[k] # s
  <2> DEFINE h == [kind |-> "status", node |-> k, online |-> s, at |-> now']
  <2>1. /\ online' = [online EXCEPT ![k] = s] /\ now' = now + 1 /\ hand' = <<h>>
    BY <1>2, <1>6
  <2>2. h \in StatusRecords /\ h.at = now + 1 /\ h.online = s /\ h.node = k
        /\ h.kind = "status"
    BY <1>2, <1>3, <2>1 DEF StatusRecords
  <2>3. ToSet(hand') = {h}
    <3>1. ToSet(<<h>>) = {h}  BY <2>2, SingleSet
    <3> HIDE DEF h
    <3> QED  BY <2>1, <3>1
  <2>4. online'[k] = s /\ \A n \in Nodes : n # k => online'[n] = online[n]
    BY <1>2, <2>1 DEF TypeOK
  <2>5. Held(k)' = {h} /\ \A n \in Nodes : n # k => Held(n)' = {}
    <3> HIDE DEF h
    <3>1. \A n : Of(n, {h}) = IF n = k THEN {h} ELSE {}  BY <2>2 DEF Of
    <3> QED  BY <2>3, <3>1 DEF Held
  <2> HIDE DEF h
  <2>6. ASSUME NEW n \in Nodes, n # k
        PROVE  OrderedOf(n)' /\ (GoodOf(n) => GoodOf(n)') /\ AllOf(n)' = AllOf(n)
    <3>1. Ordered(Stored(n), Buffered(n), Queued(n), Held(n), now)  BY DEF StatusInv, OrderedOf
    <3>2. now <= now'  BY <1>3, <2>1
    <3>3. Ordered(Stored(n), Buffered(n), Queued(n), Held(n), now')
      BY <1>3, <3>1, <3>2, LaterSets
    <3>4. Held(n)' = Held(n)  BY <1>4, <2>5, <2>6
    <3> QED  BY <1>4, <3>3, <3>4 DEF OrderedOf, GoodOf, AllOf
  <2>7. /\ OrderedOf(k)'
        /\ GoodOf(k) /\ LastIs(AllOf(k), online[k]) =>
             GoodOf(k)' /\ LastIs(AllOf(k)', s)
    <3> DEFINE T == Stored(k)  B == Buffered(k)  C == Queued(k)
    <3>1. Ordered(T, B, C, {}, now)  BY <1>2, <1>4 DEF StatusInv, OrderedOf
    <3>2. /\ T' = T /\ B' = B /\ C' = C /\ Held(k) = {} /\ Held(k)' = {h}
          /\ now' = now + 1
      BY <1>2, <1>4, <2>1, <2>5
    <3>3. /\ Ordered(T, B, C, {h}, now + 1)
          /\ \A u : Good(T, B, C, {}) /\ LastIs(T \cup B \cup C \cup {}, u) /\ h.online # u =>
               Good(T, B, C, {h}) /\ LastIs(T \cup B \cup C \cup {h}, h.online)
      <4> HIDE DEF T, B, C
      <4> QED  BY <1>3, <2>2, <3>1, HandledSets
    <3>4. h.online # online[k]  BY <1>6, <2>2
    <3> QED  BY <2>2, <3>2, <3>3, <3>4 DEF OrderedOf, GoodOf, AllOf
  <2>8. \A n \in Nodes : DroppedStatus(n) => DroppedStatus(n)'  BY <1>1 DEF DroppedStatus
  <2>9. ChanSorted'  BY <1>1 DEF StatusInv, ChanSorted
  <2>10. ASSUME NEW n \in Nodes
         PROVE  /\ OrderedOf(n)'
                /\ \/ blind' \/ DroppedStatus(n)'
                   \/ GoodOf(n)' /\ (phase' = "up" => LastIs(AllOf(n)', online'[n]))
    <3>1. \/ blind \/ DroppedStatus(n)
          \/ GoodOf(n) /\ LastIs(AllOf(n), online[n])
      BY <1>1 DEF StatusInv
    <3>2. CASE n = k  BY <1>1, <2>4, <2>7, <2>8, <3>1, <3>2
    <3>3. CASE n # k  BY <1>1, <2>4, <2>6, <2>8, <3>1, <3>3
    <3> QED  BY <3>2, <3>3
  <2> QED  BY <2>9, <2>10 DEF StatusInv
<1> QED  BY <1>5, <1>6

LEMMA StatusKept ==
  ASSUME TypeOK, TypeOK', WriterOrder, BacklogBounded, StatusInv, Next PROVE StatusInv'
<1>1. CASE World \/ ConnAck \/ Subscribe \/ HandleReading
  <2>1. /\ UNCHANGED <<statuses, body, pending, chan, blind, shed, phase, online>>
        /\ now' = now \/ now' = now + 1
    BY <1>1 DEF World, Measures, Says, LinkBreaks, ConnAck, Subscribe, HandleReading,
                buffer, tables, history
  <2>2. now' >= now
    <3>1. now \in Nat  BY DEF TypeOK
    <3> QED  BY <2>1, <3>1
  <2>3. \/ hand' = hand
        \/ hand = <<>> /\ \E r : hand' = <<r>> /\ r.kind = "reading"
    <3>1. CASE World \/ ConnAck \/ Subscribe
      BY <3>1 DEF World, Measures, Says, LinkBreaks, ConnAck, Subscribe
    <3>2. CASE HandleReading
      <4>1. hand = <<>>  BY <3>2 DEF HandleReading, Polls
      <4>2. CASE Undatable(Head(feed))  BY <3>2, <4>2 DEF HandleReading
      <4>3. CASE ~Undatable(Head(feed))
        <5> DEFINE r == [kind |-> "reading", node |-> Head(feed).node, taken |-> Head(feed).taken,
                         at |-> IF Head(feed).dated THEN Head(feed).taken ELSE now']
        <5>1. hand' = <<r>> /\ r.kind = "reading"  BY <3>2, <4>3 DEF HandleReading
        <5> QED  BY <4>1, <5>1
      <4> QED  BY <4>2, <4>3
    <3> QED  BY <1>1, <3>1, <3>2
  <2>4. ASSUME NEW n \in Nodes
        PROVE  Stored(n)' = Stored(n) /\ Buffered(n)' = Buffered(n) /\ Held(n)' = Held(n)
    <3>1. Stored(n)' = Stored(n) /\ Buffered(n)' = Buffered(n)  BY <2>1 DEF Stored, Buffered
    <3>2. Held(n)' = Held(n)
      <4>1. CASE hand' = hand  BY <4>1 DEF Held
      <4>2. CASE hand # hand'
        <5>1. PICK r : hand' = <<r>> /\ r.kind = "reading"  BY <2>3, <4>2
        <5>2. ToSet(<<r>>) = {r}  BY SingleSet
        <5>3. ToSet(hand) = {}  BY <2>3, <4>2, EmptySet
        <5>4. ToSet(hand') = {r}  BY <5>1, <5>2
        <5> QED  BY <5>1, <5>3, <5>4 DEF Held, Of
      <4> QED  BY <4>1, <4>2
    <3> QED  BY <3>1, <3>2
  <2> QED  BY <2>1, <2>2, <2>4, QuietStatus
<1>2. CASE HandleStatus \/ Send  BY <1>2, HandleStatusStatus, SendStatus
<1>3. CASE Writer  BY <1>3, ReceiveStatus, FlushStatus, WrittenStatus, NotWrittenStatus DEF Writer
<1>4. CASE Main  BY <1>4, StartStatus, StopStatus, DownStatus DEF Main
<1> QED  BY <1>1, <1>2, <1>3, <1>4 DEF Next, Bridge

-----------------------------------------------------------------------------
(* The theorems. *)

LEMMA InitInductive ==
  ASSUME Init PROVE IInv
<1>1. TypeOK
  BY InitType
<1>2. Len(pending) = 0 /\ Len(body) = 0 /\ lines = 0
  BY DEF Init
<1>3. Known = {} /\ Len(feed) = 0
  BY EmptySet DEF Init, Known, Waiting
<1>4. Dating
  BY <1>3 DEF Init, Dating, Dates, OneRecord, DatedKeepDate, HandledOnce
<1>5. WriterOrder /\ RoomForOne /\ BacklogBounded /\ Kept
  BY <1>2, BoundsType DEF Init, WriterOrder, Writing, RoomForOne, BacklogBounded, Kept
<1>6. QED
  BY <1>1, <1>4, <1>5 DEF IInv

LEMMA StutterInductive ==
  ASSUME IInv, UNCHANGED vars PROVE IInv'
<1>1. TypeOK'
  BY DEF IInv, TypeOK, vars, broker, bridge, buffer, tables, history
<1>2. Dating'
  BY DEF IInv, Dating, Dates, OneRecord, DatedKeepDate, OwnDate, HandledOnce, LiveUndated, Known,
         Waiting, IsReading, Undatable, vars, broker, bridge, buffer, tables, history
<1>3. WriterOrder' /\ RoomForOne' /\ BacklogBounded' /\ Kept'
  BY DEF IInv, WriterOrder, Writing, RoomForOne, BacklogBounded, Kept, InTables,
         vars, broker, bridge, buffer, tables, history
<1>4. QED
  BY <1>1, <1>2, <1>3 DEF IInv

LEMMA NextInductive ==
  ASSUME IInv, Next PROVE IInv'
<1>1. TypeOK'
  BY WorldType, BridgeType, WriterType, MainType DEF IInv, Next
<1>2. WriterOrder' /\ RoomForOne' /\ BacklogBounded'
  BY WriterOrderKept, BacklogKept DEF IInv
<1>3. Dating'
  BY <1>1, DatingKept DEF IInv
<1>4. Kept'
  BY KeptKept DEF IInv, Dating
<1>5. QED
  BY <1>1, <1>2, <1>3, <1>4 DEF IInv

LEMMA Inductive == Spec => []IInv
  BY InitInductive, StutterInductive, NextInductive, PTL DEF Spec

\* questdb/writer.rs: whatever the database does, what waits to be written stays
\* within MAX_PENDING_LINES, or within one batch where that is more.
THEOREM BacklogHolds == Spec => []BacklogBounded
<1>1. IInv => BacklogBounded
  BY DEF IInv
<1>2. QED
  BY <1>1, Inductive, PTL

\* mqtt.rs, handle and record_reading, with the deduplication keys of schema.rs:
\* replays, restarts and repeated writes never make two rows of one reading.
THEOREM ReadingsOnce == Spec => []OncePerReading
<1>1. IInv => OncePerReading
  <2>1. ASSUME IInv, NEW r \in readings PROVE r \in Known
    BY <2>1, RecordKinds DEF IInv, TypeOK, Known, IsReading
  <2>2. QED
    BY <2>1 DEF IInv, Dating, OneRecord, OncePerReading
<1>2. QED
  BY <1>1, Inductive, PTL

\* writer.rs, run and flush: what the bridge has sent is stored, waits, or was
\* dropped with a backlog over the limit; the final write alone may leave some.
THEOREM NothingVanishes == Spec => []Kept
<1>1. IInv => Kept
  BY DEF IInv
<1>2. QED
  BY <1>1, Inductive, PTL

LEMMA InitStatus ==
  ASSUME Init PROVE StatusInv
<1>1. chan = <<>> /\ hand = <<>> /\ body = <<>> /\ pending = <<>> /\ phase = "down" /\ now = 0
  BY DEF Init
<1>2. DOMAIN statuses = {}  BY DEF Init, EmptyBag, SetToBag
<1>3. ASSUME NEW n \in Nodes
      PROVE  Stored(n) = {} /\ Buffered(n) = {} /\ Queued(n) = {} /\ Held(n) = {}
  BY <1>1, <1>2, EmptySet DEF Stored, Buffered, Queued, Held, Of
<1>4. ASSUME NEW n \in Nodes PROVE OrderedOf(n) /\ GoodOf(n)
  BY <1>3 DEF OrderedOf, GoodOf, Ordered, Good, Alternate
<1>5. ChanSorted
  <2>1. Len(chan) = 0  BY <1>1
  <2> QED  BY <2>1 DEF ChanSorted
<1> QED  BY <1>1, <1>4, <1>5 DEF StatusInv

LEMMA StatusStutter ==
  ASSUME StatusInv, UNCHANGED vars PROVE StatusInv'
BY DEF StatusInv, ChanSorted, OrderedOf, GoodOf, AllOf, Stored, Buffered, Queued, Held, DroppedStatus,
       vars, buffer, tables, bridge, history

-----------------------------------------------------------------------------
(* Copies of a row. *)

\* A stored status is there once and no longer buffered, unless the request that
\* stored it was not answered.
StoredOnce ==
  \A r \in DOMAIN statuses :
    r \in unheard \/ (statuses[r] = 1 /\ r \notin ToSet(body) \cup ToSet(pending))

LEMMA BagCopies ==
  ASSUME NEW B, IsABag(B), NEW S
  PROVE  \A r \in DOMAIN (B (+) SetToBag(S)) :
           /\ r \in DOMAIN B /\ r \notin S => (B (+) SetToBag(S))[r] = B[r]
           /\ r \notin DOMAIN B => r \in S /\ (B (+) SetToBag(S))[r] = 1
  BY DEF IsABag, SetToBag, (+)

\* What a request adds to what was stored, while it was in flight.
LEMMA StoresCopies ==
  ASSUME TypeOK, StoredOnce, NEW which \in SUBSET BothTables, Stores(which), NEW r \in DOMAIN statuses'
  PROVE  \/ r \in unheard
         \/ /\ r \in DOMAIN statuses /\ statuses'[r] = 1
            /\ r \notin ToSet(body) \cup ToSet(pending)
         \/ "status" \in which /\ r \in Rows(body, "status") /\ statuses'[r] = 1
<1>1. IsABag(statuses)
  BY DEF TypeOK
<1>2. CASE "status" \in which
  <2>1. statuses' = statuses (+) SetToBag(Rows(body, "status"))
    BY <1>2 DEF Stores
  <2>2. CASE r \in DOMAIN statuses /\ r \in Rows(body, "status")
    BY <2>2 DEF StoredOnce, Rows
  <2>3. CASE r \in DOMAIN statuses /\ r \notin Rows(body, "status")
    BY <1>1, <2>1, <2>3, BagCopies DEF StoredOnce
  <2>4. CASE r \notin DOMAIN statuses
    BY <1>1, <1>2, <2>1, <2>4, BagCopies
  <2> QED BY <2>2, <2>3, <2>4
<1>3. CASE "status" \notin which
  BY <1>3 DEF Stores, StoredOnce
<1> QED BY <1>2, <1>3

\* A status that comes from the channel is later than any that is stored.
LEMMA QueuedIsNew ==
  ASSUME TypeOK, StatusInv, NEW r \in DOMAIN statuses
  PROVE  r \notin ToSet(chan)
<1> SUFFICES ASSUME r \in ToSet(chan) PROVE FALSE
  OBVIOUS
<1>1. r \in StatusRecords /\ r.kind = "status" /\ r.node \in Nodes /\ r.at \in Nat
  BY DEF TypeOK, StatusRecords
<1>2. r \in Stored(r.node) /\ r \in Queued(r.node)
  BY <1>1 DEF Stored, Queued, Of
<1>3. r.at < r.at
  BY <1>1, <1>2 DEF StatusInv, OrderedOf, Ordered
<1> QED BY <1>1, <1>3

LEMMA CopiesKept ==
  ASSUME TypeOK, WriterOrder, StatusInv, StoredOnce, Next
  PROVE  StoredOnce'
<1>1. CASE World \/ Bridge \/ Start \/ Stop
  <2>1. UNCHANGED <<statuses, unheard, body, pending>>
    BY <1>1 DEF World, Measures, Says, LinkBreaks, Bridge, ConnAck, Subscribe, HandleReading,
                HandleStatus, Send, Start, Stop, buffer, tables, history
  <2> QED BY <2>1 DEF StoredOnce
<1>2. CASE Receive
  <2>1. /\ chan # <<>> /\ body = <<>> /\ UNCHANGED <<statuses, unheard>>
        /\ \/ body' = Append(pending, Head(chan)) /\ pending' = <<>>
           \/ body' = <<>> /\ pending' = Append(pending, Head(chan))
    BY <1>2 DEF Receive, Flush, WriterOrder, tables, history
  <2>2. chan \in Seq(Records) /\ pending \in Seq(Records)
    BY DEF TypeOK
  <2>3. Head(chan) \in Records /\ Head(chan) \in ToSet(chan)
    BY <2>1, <2>2, TailSet
  <2>4. ToSet(Append(pending, Head(chan))) = ToSet(pending) \cup {Head(chan)}
    BY <2>2, <2>3, AppendSet
  <2>5. ToSet(body') \cup ToSet(pending') = ToSet(body) \cup ToSet(pending) \cup {Head(chan)}
    BY <2>1, <2>4, EmptySet
  <2>6. \A r \in DOMAIN statuses : r # Head(chan)
    BY <2>3, QueuedIsNew
  <2> QED BY <2>1, <2>5, <2>6 DEF StoredOnce
<1>3. CASE Tick \/ ChannelCloses
  <2>1. /\ ToSet(body') \cup ToSet(pending') = ToSet(body) \cup ToSet(pending)
        /\ UNCHANGED <<statuses, unheard>>
    BY <1>3, EmptySet DEF Tick, ChannelCloses, Flush, WriterOrder, tables, history
  <2> QED BY <2>1 DEF StoredOnce
<1>4. CASE Written \/ Exit \/ GivesUp \/ Killed
  <2>1. /\ ToSet(body') = {} /\ ToSet(pending') = {} /\ unheard' = unheard
        /\ statuses' = statuses \/ \E which \in SUBSET BothTables : Stores(which)
    BY <1>4, EmptySet DEF Written, Answered, Exit, GivesUp, Killed, Down, WriterOrder, tables, history
  <2>2. ASSUME NEW r \in DOMAIN statuses' PROVE r \in unheard \/ statuses'[r] = 1
    BY <2>1, StoresCopies DEF StoredOnce
  <2> QED BY <2>1, <2>2 DEF StoredOnce
<1>5. CASE NotWritten
  <2>1. pending = <<>> /\ body' = <<>>
    BY <1>5 DEF NotWritten, Answered, WriterOrder
  <2>2. ToSet(body') \cup ToSet(pending') \subseteq ToSet(body) \cup ToSet(pending)
    <3>1. body \in Seq(Records) /\ pending \in Seq(Records)
      BY DEF TypeOK
    <3>2. ToSet(body \o pending) = ToSet(body) \cup ToSet(pending)
      BY <3>1, ConcatSet
    <3> QED BY <1>5, <2>1, <3>2, EmptySet DEF NotWritten, Drop, PutBack
  <2>3. CASE UNCHANGED <<tables, unheard>>
    BY <2>2, <2>3 DEF StoredOnce, tables
  <2>4. CASE \E which \in SUBSET BothTables : Stores(which) /\ Unheard(which)
    <3>1. PICK which \in SUBSET BothTables : Stores(which) /\ Unheard(which)
      BY <2>4
    <3>2. unheard \subseteq unheard' /\ ("status" \in which => Rows(body, "status") \subseteq unheard')
      BY <3>1 DEF Unheard
    <3>3. ASSUME NEW r \in DOMAIN statuses'
          PROVE  \/ r \in unheard'
                 \/ statuses'[r] = 1 /\ r \notin ToSet(body) \cup ToSet(pending)
      BY <3>1, <3>2, StoresCopies
    <3> QED BY <2>2, <3>3 DEF StoredOnce
  <2> QED BY <1>5, <2>3, <2>4 DEF NotWritten
<1> QED BY <1>1, <1>2, <1>3, <1>4, <1>5 DEF Next, Writer, Main

\* mqtt.rs, handle, and what main.rs reads at a start: where every start could read the
\* statuses and none was dropped, two rows of a node with different times that
\* follow each other differ; and a row is there more than once only if a request
\* stored it without being answered (client.rs:164).
THEOREM ChangesOnly == Spec => []TransitionsOnly
<1>1. IInv /\ IInv' /\ StatusInv /\ [Next]_vars => StatusInv'
  BY StatusKept, StatusStutter DEF IInv
<1>2. Init => StoredOnce
  BY DEF Init, StoredOnce, EmptyBag, SetToBag
<1>3. IInv /\ StatusInv /\ StoredOnce /\ [Next]_vars => StoredOnce'
  <2>1. StoredOnce /\ UNCHANGED vars => StoredOnce'
    BY DEF StoredOnce, vars, tables, buffer, history
  <2> QED BY <2>1, CopiesKept DEF IInv
<1>4. ASSUME StatusInv, TypeOK, NEW n \in Nodes, ~blind, ~DroppedStatus(n)
      PROVE  Changes(n)
  <2>1. StatusRows(n) = Stored(n)
    BY <1>4, RecordKinds DEF StatusRows, Stored, Of, BagToSet, TypeOK
  <2>2. /\ Ordered(Stored(n), Buffered(n), Queued(n), Held(n), now)
        /\ Good(Stored(n), Buffered(n), Queued(n), Held(n))
    BY <1>4 DEF StatusInv, OrderedOf, GoodOf
  <2>3. Good(Stored(n), {}, {}, {})  BY <2>2, EndedSets
  <2>4. Stored(n) \cup {} \cup {} \cup {} = Stored(n)  OBVIOUS
  <2> QED  BY <2>1, <2>3, <2>4 DEF Good, Alternate, Changes
<1>5. ASSUME StoredOnce, TypeOK, NEW n \in Nodes, NEW r \in StatusRows(n), statuses[r] > 1
      PROVE  r \in unheard
  BY <1>5 DEF StoredOnce, StatusRows, BagToSet
<1>6. StatusInv /\ StoredOnce /\ TypeOK => TransitionsOnly
  BY <1>4, <1>5 DEF TransitionsOnly
<1>7. IInv => TypeOK  BY DEF IInv
<1> QED  BY <1>1, <1>2, <1>3, <1>6, <1>7, InitStatus, Inductive, PTL DEF Spec

=============================================================================
