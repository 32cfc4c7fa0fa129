----------------------------- MODULE MCRollups ------------------------------
(***************************************************************************)
(* Rollups with a channel that fell silent long ago and one that has just  *)
(* begun, and the pure functions of Charts against what the archiver's     *)
(* comments and tests say of them.                                         *)
(***************************************************************************)
EXTENDS Rollups

OldAndNew == <<[ch |-> "retired", recent |-> FALSE], [ch |-> "fresh", recent |-> TRUE]>>
AnyDay == {DAY}
OneRetention == {"3 YEARS"}

Days == 20000 * DAY

\* "The finest ladder step that still keeps the result under points rows"
\* (series.rs): short of the widest rung, and but for the bucket the window is
\* widened by.
ASSUME BucketsFit ==
  \A span \in {1, 59, 3600, 86399, 86400, 86401, 7 * DAY, 365 * DAY}, points \in {2, 60, 400, 600},
     from \in {Days, Days + 1, Days + 7777} :
    LET width == ChooseBucket(from, from + span, points)
        w == Snap(from, from + span, width)
    IN  width = LADDER[Len(LADDER)] \/ (w[2] - w[1]) \div width <= points + 1

\* snap() covers the window with whole buckets of the calendar, and wastes less
\* than one at either end.
ASSUME SnapCovers ==
  \A from \in {-7777, 0, 1, Days + 1}, span \in {1, 59, 60, 61, 86400}, i \in DOMAIN LADDER :
    LET width == LADDER[i]
        w == Snap(from, from + span, width)
    IN  /\ w[1] <= from /\ from + span <= w[2] /\ w[1] < w[2]
        /\ from - w[1] < width /\ w[2] - (from + span) < width
        /\ w[1] % width = 0 /\ w[2] % width = 0

\* Every bucket a chart may ask for is made of whole buckets of the tier that
\* answers it, so that no row of a view belongs to two.
ASSUME TiersDivide ==
  \A i \in DOMAIN LADDER, available \in SUBSET Tiers :
    LET t == Pick(LADDER[i], available)
    IN  t # BASE => t \in available /\ LADDER[i] % Grain[t] = 0

\* "The exact mean of the underlying readings" (series.rs): hours of any
\* occupancy reduced to a day are what the raw day is reduced to.
Readings == UNION {[1..n -> {-1, 0, 3}] : n \in 1..2}
ASSUME CascadeExact ==
  \A a \in Readings, b \in Readings, c \in Readings :
    ReduceAgain(<<Reduce(a), ReduceAgain(<<Reduce(b), Reduce(c)>>)>>) = Reduce(a \o b \o c)

\* "Summed over any run of periods they come to the last reading minus the
\* first, whatever happened in between" (periods.rs), given a predecessor.
Meter == [lo : 0..1, last : 0..2]
ASSUME MetersTelescope ==
  \A rows \in [1..4 -> Meter], keep \in 1..3 :
    LET shown == Buckets(rows, keep)
    IN  /\ Len(shown) = keep
        /\ FoldFunctionOnSet(LAMBDA x, y : x.delta + y, 0, shown, DOMAIN shown)
             = rows[4].last - rows[4 - keep].last

\* The window of periods has room for one more than shown, wherever in a
\* period it begins (periods.rs fetch_rows).
ASSUME WindowLongEnough ==
  \A count \in {1, 12, 120} :
    Days - PeriodsFrom(Days, count, "month") >= (count + 1) * 31 * DAY + Longest("month")
=============================================================================
