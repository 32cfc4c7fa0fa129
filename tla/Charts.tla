------------------------------- MODULE Charts -------------------------------
(***************************************************************************)
(* The pure half of the archiver's read side: which bucket a chart is      *)
(* drawn in (series.rs), which rollup can answer it (rollup.rs), what a    *)
(* rollup row keeps of the readings (schema.rs), and what a meter used in  *)
(* a period (periods.rs).  Times are in seconds, the code's microseconds   *)
(* being a matter of scale.                                                *)
(***************************************************************************)
EXTENDS Integers, Sequences, FiniteSetsExt, Functions

MINUTE == 60
HOUR == 60 * MINUTE
DAY == 24 * HOUR

LADDER ==
  << 1, 5, 10, 30, MINUTE, 2 * MINUTE, 5 * MINUTE, 10 * MINUTE, 15 * MINUTE,
     30 * MINUTE, HOUR, 2 * HOUR, 3 * HOUR, 6 * HOUR, 12 * HOUR, DAY, 2 * DAY,
     7 * DAY, 30 * DAY >>

\* choose_bucket(): the finest rung no narrower than span / points.  The code
\* rounds the quotient down to a microsecond, which for whole seconds and less
\* than a million points is to round it up to a second.
ChooseBucket(from, to, points) ==
  LET span == Max({to - from, 1})
      n == Max({points, 1})
      wanted == (span + n - 1) \div n
      wide == {i \in DOMAIN LADDER : LADDER[i] >= wanted}
  IN  LADDER[IF wide = {} THEN Len(LADDER) ELSE Min(wide)]

\* snap(): a window widened to whole buckets, and to one at least.
Snap(from, to, width) ==
  LET floor == (from \div width) * width
      ceil == (to \div width) * width + IF to % width = 0 THEN 0 ELSE width
  IN  <<floor, Max({ceil, floor + width})>>

-----------------------------------------------------------------------------
(* TIERS, finest first: each reads the one before it, the first the base. *)

Grain == <<MINUTE, HOUR, DAY>>
Tiers == DOMAIN Grain
BASE == 0

\* pick(): the coarsest tier there is whose buckets are no wider than a chart's.
Pick(interval, available) ==
  LET fit == {t \in available : Grain[t] <= interval}
  IN  IF fit = {} THEN BASE ELSE Max(fit)

\* sum() of a column.
SumOf(column) ==
  LET upto[i \in 0..Len(column)] == IF i = 0 THEN 0 ELSE upto[i - 1] + column[i]
  IN  upto[Len(column)]

\* create_view_ddl(): what the first tier keeps of the values in a bucket, ...
Reduce(values) ==
  [lo |-> Min(Range(values)), hi |-> Max(Range(values)),
   sv |-> SumOf(values), n |-> Len(values)]

\* ... and what every coarser one keeps of the finer one's rows.
ReduceAgain(rows) ==
  [lo |-> Min({r.lo : r \in Range(rows)}), hi |-> Max({r.hi : r \in Range(rows)}),
   sv |-> SumOf([i \in DOMAIN rows |-> rows[i].sv]),
   n |-> SumOf([i \in DOMAIN rows |-> rows[i].n])]

-----------------------------------------------------------------------------
(* Periods.  A row is the lowest and the last reading of a period. *)

Longest(period) ==
  CASE period = "day" -> DAY + HOUR
    [] period = "week" -> 7 * DAY + HOUR
    [] period = "month" -> 31 * DAY + HOUR

\* fetch_rows(): where the window for count periods begins.
PeriodsFrom(now, count, period) == now - (count + 2) * Longest(period)

\* buckets(), of a meter: the last keep periods with what each consumed.
Buckets(rows, keep) ==
  LET shown == Max({0, Len(rows) - keep})
      Used(i) ==
        IF i = 1
        THEN [delta |-> rows[i].last - rows[i].lo, approx |-> TRUE]
        ELSE [delta |-> rows[i].last - rows[i - 1].last,
              approx |-> rows[i].last < rows[i - 1].last]
  IN  [k \in 1..(Len(rows) - shown) |-> Used(shown + k)]
=============================================================================
