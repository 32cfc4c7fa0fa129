------------------------------ MODULE Rollups -------------------------------
(***************************************************************************)
(* The archiver's readings in QuestDB: the base table, the rollup views    *)
(* that cascade from it, what a start of the service does to them          *)
(* (schema.rs), the task that asks every minute which views still may be   *)
(* read (main.rs), and the charts answered from them (series.rs,           *)
(* periods.rs, web.rs).                                                    *)
(*                                                                         *)
(* QuestDB is external: a view refreshes from its source while it is       *)
(* valid, keeps answering when it is not, and a power loss may take a row  *)
(* from the base table, leave views invalid, and damage the table so that  *)
(* the next change of its structure suspends ingestion.  The readings are  *)
(* the rows 1, 2, ... of Feed in the order they arrive, so that a table is *)
(* a number of rows.  The service runs on the database's server and loses  *)
(* power with it.  Batches, retries and the bridge are Archiver's; the     *)
(* views' own TTLs touch nothing here.                                     *)
(***************************************************************************)
EXTENDS Charts

CONSTANTS
  Feed,               \* the readings to come: [ch, recent]; recent is within two days
  Intervals,          \* the bucket widths charts are drawn in
  Retentions, Unset,  \* what `retention` may be set to, or not set
  MaxMishaps          \* bound: failures, restarts and views dropped by hand

ASSUME RollupsAssumption ==
  /\ Feed \in Seq([ch : {f.ch : f \in Range(Feed)}, recent : BOOLEAN]) /\ Len(Feed) > 0
  /\ Intervals \subseteq Range(LADDER) /\ Unset \notin Retentions
  /\ MaxMishaps \in Nat

VARIABLES
  base,               \* rows in the base table
  status,             \* of each tier's view: absent, valid, invalid
  held,               \* the rows each view has aggregated
  keys,               \* the base table has its deduplication keys
  ttl,                \* its TTL
  damaged,            \* it can no longer apply a change of its structure
  suspended,          \* such a change has stopped its ingestion
  setting,            \* the settings file: retention, rollups
  pc,                 \* the service: down, keys, ttl, views, list, up
  making,             \* the tier whose view is made next
  unheard,            \* the SHOW CREATE just sent went unanswered
  views,              \* Shared.views
  req,                \* one request for a chart
  mishaps

table == <<base, keys, ttl, damaged, suspended>>
rollup == <<status, held>>
service == <<pc, making, unheard, views>>
vars == <<table, rollup, setting, service, req, mishaps>>

Channels == {f.ch : f \in Range(Feed)}
ALL == "all"
Row == DOMAIN Feed
NoReq == [pc |-> "idle", kind |-> "series", ch |-> ALL, tier |-> BASE, rows |-> {}]

TypeOK ==
  /\ base \in 0..Len(Feed)
  /\ status \in [Tiers -> {"absent", "valid", "invalid"}] /\ held \in [Tiers -> 0..Len(Feed)]
  /\ keys \in BOOLEAN /\ ttl \in Retentions \cup {Unset}
  /\ damaged \in BOOLEAN /\ suspended \in BOOLEAN
  /\ setting \in [retention : Retentions \cup {Unset}, rollups : BOOLEAN]
  /\ pc \in {"down", "keys", "ttl", "views", "list", "up"}
  /\ making \in Tiers /\ unheard \in BOOLEAN /\ views \subseteq Tiers
  /\ req \in [pc : {"idle", "first", "second", "answered"},
              kind : {"series", "overview", "periods", "channels"}, ch : Channels \cup {ALL},
              tier : Tiers \cup {BASE}, rows : SUBSET Row]
  /\ mishaps \in 0..MaxMishaps

\* A database of an earlier release: a row, no keys, no TTL, no views.
Init ==
  /\ base = 1
  /\ status = [t \in Tiers |-> "absent"] /\ held = [t \in Tiers |-> 0]
  /\ keys = FALSE /\ ttl = Unset /\ damaged = FALSE /\ suspended = FALSE
  /\ setting \in [retention : Retentions \cup {Unset}, rollups : {TRUE}]
  /\ pc = "down" /\ making = 1 /\ unheard = FALSE /\ views = {} /\ req = NoReq
  /\ mishaps = 0

Mishap == mishaps < MaxMishaps /\ mishaps' = mishaps + 1

-----------------------------------------------------------------------------
(* The views a read may use. *)

\* list_views(): those QuestDB says it keeps up to date.
Valid == {t \in Tiers : status[t] = "valid"}

UsableUnchained == Valid                                         \* slip

\* usable_views(): valid, over a source that may be used itself.
Usable ==
  LET ok[t \in Tiers] == t \in Valid /\ (t = 1 \/ ok[t - 1])
  IN  {t \in Tiers : ok[t]}

ListedDrops(task) == views' = views \cap Usable                  \* slip

\* The views a listing leaves in use: at a start, or in the task of every
\* minute, which keeps what it had when the database does not answer.
Listed(task) == views' = Usable
Unlisted(task) == Mishap /\ views' = IF task THEN views ELSE {}

-----------------------------------------------------------------------------
(* A start of the service: schema::ensure. *)

\* An ALTER of the base table, which a damaged one takes without applying it.
Alter(changes) ==
  /\ suspended' = (suspended \/ damaged)
  /\ IF damaged THEN UNCHANGED <<keys, ttl>> ELSE changes

\* The CREATEs and the notes' new column come first; if one fails the process
\* ends, and is started again.
Start ==
  /\ pc = "down" /\ pc' = "keys"
  /\ UNCHANGED <<table, rollup, setting, making, unheard, views, req, mishaps>>

\* show_create() comes back with nothing when the database does not answer.
Shows == unheard' = FALSE /\ UNCHANGED mishaps
Silent == Mishap /\ unheard' = TRUE

EnsureKeysAlways ==                                              \* slip
  /\ pc = "keys" /\ pc' = "ttl" /\ Alter(keys' = TRUE /\ UNCHANGED ttl) /\ unheard' = FALSE
  /\ UNCHANGED <<base, damaged, rollup, setting, making, views, req, mishaps>>

EnsureKeys ==
  /\ pc = "keys" /\ pc' = "ttl"
  /\ \/ Shows /\ keys /\ UNCHANGED <<keys, ttl, suspended>>
     \/ /\ (Shows /\ ~keys) \/ Silent
        /\ Alter(keys' = TRUE /\ UNCHANGED ttl)
     \/ ~keys /\ Mishap /\ unheard' = FALSE /\ UNCHANGED <<keys, ttl, suspended>>
  /\ UNCHANGED <<base, damaged, rollup, setting, making, views, req>>

\* needs_ttl() and alter_ttl_ddl(): a retention that is not set asks for
\* nothing, and clears nothing.
NeedsTtl == setting.retention # Unset /\ ttl # setting.retention

EnsureTtl ==
  /\ pc = "ttl" /\ pc' = IF setting.rollups THEN "views" ELSE "up"
  /\ views' = {}
  /\ \/ Shows /\ ~NeedsTtl /\ UNCHANGED <<keys, ttl, suspended>>
     \/ /\ (Shows /\ NeedsTtl) \/ (Silent /\ setting.retention # Unset)
        /\ Alter(ttl' = setting.retention /\ UNCHANGED keys)
     \/ Silent /\ setting.retention = Unset /\ UNCHANGED <<keys, ttl, suspended>>
     \/ NeedsTtl /\ Mishap /\ unheard' = FALSE /\ UNCHANGED <<keys, ttl, suspended>>
  /\ UNCHANGED <<base, damaged, rollup, setting, making, req>>

\* CREATE MATERIALIZED VIEW IF NOT EXISTS, finest first; a refusal is a warning.
MakeView ==
  /\ pc = "views"
  /\ \/ /\ status[making] = "absent" /\ (making > 1 => status[making - 1] # "absent")
        /\ status' = [status EXCEPT ![making] = "valid"] /\ held' = [held EXCEPT ![making] = 0]
        /\ UNCHANGED mishaps
     \/ /\ status[making] # "absent" \/ (making > 1 /\ status[making - 1] = "absent")
        /\ UNCHANGED <<rollup, mishaps>>
     \/ status[making] = "absent" /\ Mishap /\ UNCHANGED rollup
  /\ IF making = Len(Grain) THEN pc' = "list" /\ making' = 1
     ELSE making' = making + 1 /\ UNCHANGED pc
  /\ unheard' = FALSE
  /\ UNCHANGED <<table, setting, views, req>>

ListViews ==
  /\ pc = "list" /\ pc' = "up"
  /\ \/ Listed(FALSE) /\ UNCHANGED mishaps
     \/ Unlisted(FALSE)
  /\ UNCHANGED <<table, rollup, setting, making, unheard, req>>

\* The task of main(): every minute while the service is up.
Recheck ==
  /\ pc = "up" /\ Listed(TRUE)
  /\ UNCHANGED <<table, rollup, setting, pc, making, unheard, req, mishaps>>
RecheckFails ==
  /\ pc = "up" /\ Unlisted(TRUE)
  /\ UNCHANGED <<table, rollup, setting, pc, making, unheard, req>>

-----------------------------------------------------------------------------
(* A request.  The views are read once, before the first query is sent. *)

Asks(kind, ch, tier) ==
  req' = [pc |-> "first", kind |-> kind, ch |-> ch, tier |-> tier, rows |-> {}]

AskSeries ==
  \E ch \in Channels, i \in Intervals : Asks("series", ch, Pick(i, views))

AskOverview == \E i \in Intervals : Asks("overview", ALL, Pick(i, views))

\* The hourly view, or the base table.
AskPeriods == Asks("periods", ALL, IF 2 \in views THEN 2 ELSE BASE)

\* The coarsest view there is.
AskChannels == Asks("channels", ALL, IF views = {} THEN BASE ELSE Max(views))

Ask ==
  /\ pc = "up" /\ req.pc = "idle"
  /\ AskSeries \/ AskOverview \/ AskPeriods \/ AskChannels
  /\ UNCHANGED <<table, rollup, setting, service, mishaps>>

\* Rows of a request's channel among the first n.
Of(ch, n) == {r \in 1..n : ch \in {ALL, Feed[r].ch}}

\* A view that answers with nothing is no proof that there is nothing; the
\* list of channels asks the base table's last days in any case.
AsksBaseForCharts(kind, tier, rows) ==                           \* slip
  tier # BASE /\ (kind = "channels" \/ (kind = "series" /\ rows = {}))
AsksBase(kind, tier, rows) == tier # BASE /\ (kind = "channels" \/ rows = {})

First ==
  /\ req.pc = "first"
  /\ LET n == IF req.tier = BASE THEN base ELSE held[req.tier]
         rows == Of(req.ch, n)
     IN  IF req.tier # BASE /\ status[req.tier] = "absent"
         THEN req' = NoReq
         ELSE req' = [req EXCEPT !.rows = rows,
                        !.pc = IF AsksBase(req.kind, req.tier, rows) THEN "second" ELSE "answered"]
  /\ UNCHANGED <<table, rollup, setting, service, mishaps>>

Second ==
  /\ req.pc = "second"
  /\ req' = [req EXCEPT !.pc = "answered",
               !.rows = IF req.kind = "channels"
                        THEN @ \cup {r \in 1..base : Feed[r].recent}
                        ELSE Of(req.ch, base)]
  /\ UNCHANGED <<table, rollup, setting, service, mishaps>>

Unanswered ==
  /\ req.pc \in {"first", "second"} /\ Mishap /\ req' = NoReq
  /\ UNCHANGED <<table, rollup, setting, service>>

Drawn ==
  /\ req.pc = "answered" /\ req' = NoReq
  /\ UNCHANGED <<table, rollup, setting, service, mishaps>>

-----------------------------------------------------------------------------
(* QuestDB, the server and its keeper. *)

Ingest ==
  /\ pc = "up" /\ ~suspended /\ base < Len(Feed) /\ base' = base + 1
  /\ UNCHANGED <<keys, ttl, damaged, suspended, rollup, setting, service, req, mishaps>>

Source(t) == IF t = 1 THEN base ELSE held[t - 1]

Refresh(t) ==
  /\ status[t] = "valid" /\ (t > 1 => status[t - 1] # "absent") /\ held[t] # Source(t)
  /\ held' = [held EXCEPT ![t] = Source(t)]
  /\ UNCHANGED <<table, status, setting, service, req, mishaps>>

GoesDown == pc' = "down" /\ making' = 1 /\ unheard' = FALSE /\ views' = {} /\ req' = NoReq

PowerLoss ==
  /\ Mishap /\ GoesDown
  /\ base' \in {base, base - 1} \cap Nat
  /\ \E broken \in SUBSET {t \in Tiers : status[t] # "absent"} :
       /\ (status[1] # "absent" /\ held[1] > base') => 1 \in broken
       /\ status' = [t \in Tiers |-> IF t \in broken THEN "invalid" ELSE status[t]]
  /\ damaged' \in {damaged, TRUE}
  /\ UNCHANGED <<keys, ttl, suspended, held, setting>>

Invalidate(t) ==
  /\ status[t] = "valid" /\ Mishap /\ status' = [status EXCEPT ![t] = "invalid"]
  /\ UNCHANGED <<table, held, setting, service, req>>

Rebuild(t) ==
  /\ status[t] = "invalid"
  /\ status' = [status EXCEPT ![t] = "valid"] /\ held' = [held EXCEPT ![t] = 0]
  /\ UNCHANGED <<table, setting, service, req, mishaps>>

DropView(t) ==
  /\ status[t] # "absent" /\ Mishap
  /\ status' = [status EXCEPT ![t] = "absent"] /\ held' = [held EXCEPT ![t] = 0]
  /\ UNCHANGED <<table, setting, service, req>>

\* Skipping the transaction a damaged table could not apply.
Skip ==
  /\ suspended /\ suspended' = FALSE
  /\ UNCHANGED <<base, keys, ttl, damaged, rollup, setting, service, req, mishaps>>

Restart ==
  /\ pc = "up" /\ Mishap /\ GoesDown
  /\ setting' \in [retention : Retentions \cup {Unset}, rollups : BOOLEAN]
  /\ UNCHANGED <<table, rollup>>

Others ==
  \/ Start \/ EnsureKeys \/ EnsureTtl \/ MakeView \/ ListViews
  \/ Recheck \/ RecheckFails
  \/ Ask \/ First \/ Second \/ Unanswered
  \/ Ingest \/ PowerLoss \/ Skip \/ Restart
  \/ \E t \in Tiers : Refresh(t) \/ Invalidate(t) \/ Rebuild(t) \/ DropView(t)

\* What an answer is compared with is the database it came from: an answer is
\* drawn before anything else happens.
Next == Drawn \/ (req.pc # "answered" /\ Others)

Spec == Init /\ [][Next]_vars

\* The service is started again by its supervisor, its statements are answered
\* or fail, the minute tick and the database's refreshes come round.
FairSpec ==
  /\ Spec
  /\ WF_vars(Start) /\ WF_vars(EnsureKeys) /\ WF_vars(EnsureTtl)
  /\ WF_vars(MakeView) /\ WF_vars(ListViews) /\ WF_vars(Recheck)
  /\ WF_vars(First) /\ WF_vars(Second) /\ WF_vars(Drawn)
  /\ \A t \in Tiers : WF_vars(Refresh(t))

-----------------------------------------------------------------------------
(* Properties *)

Answered == req.pc = "answered"
Shown == {Feed[r].ch : r \in req.rows}
Stored(n) == {Feed[r].ch : r \in 1..n}

\* An answer that shows nothing means that the base table holds nothing of the
\* kind, however far the views are behind; and a channel
\* whose readings are recent is in the list of channels, as every channel is
\* when no view is in use (series.rs fetch_series, fetch_overview,
\* fetch_channels, periods.rs fetch_rows).
NothingHidden ==
  Answered =>
    IF req.kind = "channels"
    THEN /\ {Feed[r].ch : r \in {q \in 1..base : Feed[q].recent}} \subseteq Shown
         /\ req.tier = BASE => Stored(base) \subseteq Shown
    ELSE req.rows = {} => Of(req.ch, base) = {}

\* Once nothing breaks any more, charts and the list of channels come to show
\* everything the base table holds, although broken views that nobody has
\* repaired go on answering with what they stopped at, and views over them
\* call themselves valid (schema.rs list_views, usable_views, main.rs).
ChartsWhole ==
  <>[](Answered => IF req.kind = "channels" THEN Shown = Stored(base)
                   ELSE req.rows = Of(req.ch, base))

\* While rollups are switched on, a view whose whole chain has become valid for
\* good is read again, without a restart and whatever became of single listings
\* (main.rs).
RepairedServeAgain ==
  \A t \in Tiers :
    <>[](setting.rollups /\ \A s \in 1..t : status[s] = "valid") => <>[](pc = "up" /\ t \in views)

\* "rollup views disabled; every chart will read the base table" (schema.rs): it
\* does not, once views of an earlier setting are there, for the task of every
\* minute lists them whatever the setting is (main.rs).
OffReadsBase == pc = "up" /\ ~setting.rollups => views = {}

\* A start stops the ingestion of a damaged table only if the settings ask for
\* a change of it, or if the database would not say what the table looks like
\* (schema.rs needs_dedup, needs_ttl).
StaysOpen ==
  [][suspended' /\ ~suspended =>
       unheard' \/ ~keys \/ (setting.retention # Unset /\ ttl # setting.retention)]_vars
=============================================================================
