---------------------------- MODULE RollupsProofs ----------------------------
(***************************************************************************)
(* For any feed of readings, any settings and any number of mishaps: an    *)
(* answer hides no channel and no reading behind a view, and a start stops *)
(* the ingestion of a damaged table only when it had something to change   *)
(* or could not see that it had not.  Then the arithmetic of Charts, for   *)
(* every window and for rows and readings of any number.                   *)
(***************************************************************************)
EXTENDS Rollups, TLAPS, WellFoundedInduction, SequenceTheorems

-----------------------------------------------------------------------------
(* What a chart is routed to is a tier. *)

LEMMA TiersAre == Tiers = {1, 2, 3} /\ Len(Grain) = 3 /\ BASE = 0
  BY DEF Tiers, Grain, BASE, MINUTE, HOUR, DAY

\* The greatest of some tiers is one of them.
LEMMA MaxIsTier ==
  ASSUME NEW S, S \subseteq Tiers, S # {}
  PROVE  Max(S) \in S
<1>1. \E x \in S : \A y \in S : x >= y
  <2>1. CASE 3 \in S  BY <2>1, TiersAre
  <2>2. CASE 3 \notin S /\ 2 \in S  BY <2>2, TiersAre
  <2>3. CASE 3 \notin S /\ 2 \notin S
    <3>1. \A y \in S : y = 1  BY <2>3, TiersAre
    <3>2. PICK x \in S : TRUE  OBVIOUS
    <3> QED  BY <3>1, <3>2
  <2> QED  BY <2>1, <2>2, <2>3
<1> QED  BY <1>1 DEF Max

\* A request asks the base table or a view in use.
LEMMA AskedOfTier ==
  ASSUME TypeOK, Ask
  PROVE  \E kind \in {"series", "overview", "periods", "channels"},
            ch \in Channels \cup {ALL}, t \in Tiers \cup {BASE} :
           /\ req' = [pc |-> "first", kind |-> kind, ch |-> ch, tier |-> t, rows |-> {}]
           /\ kind = "channels" => ch = ALL
<1>1. views \subseteq Tiers  BY DEF TypeOK
<1>2. ASSUME NEW i PROVE Pick(i, views) \in Tiers \cup {BASE}
  <2> DEFINE fit == {t \in views : Grain[t] <= i}
  <2>1. fit \subseteq Tiers  BY <1>1
  <2>2. fit # {} => Max(fit) \in Tiers  BY <2>1, MaxIsTier
  <2> QED  BY <2>2 DEF Pick
<1>3. views # {} => Max(views) \in Tiers  BY <1>1, MaxIsTier
<1>4. 2 \in Tiers  BY TiersAre
<1> QED
  BY <1>2, <1>3, <1>4 DEF Ask, AskSeries, AskOverview, AskPeriods, AskChannels, Asks

LEMMA UsableAreTiers == Usable \subseteq Tiers
  BY DEF Usable

-----------------------------------------------------------------------------
(* The actions, sorted by what they do to a request. *)

Schema == EnsureKeys \/ EnsureTtl \/ MakeView \/ ListViews \/ Start
Quest(t) == Refresh(t) \/ Invalidate(t) \/ Rebuild(t) \/ DropView(t)
Aside == Schema \/ Recheck \/ RecheckFails \/ Ingest \/ Skip \/ \E t \in Tiers : Quest(t)

LEMMA Steps ==
  ASSUME Next
  PROVE  \/ Drawn
         \/ /\ req.pc # "answered"
            /\ Aside \/ Ask \/ First \/ Second \/ Unanswered \/ PowerLoss \/ Restart
  BY DEF Next, Others, Aside, Schema, Quest

LEMMA AsideLeavesRequest ==
  ASSUME Aside
  PROVE  req' = req
<1>1. CASE Schema
  BY <1>1 DEF Schema, EnsureKeys, EnsureTtl, MakeView, ListViews, Start
<1>2. CASE Recheck \/ RecheckFails \/ Ingest \/ Skip
  BY <1>2 DEF Recheck, RecheckFails, Ingest, Skip
<1>3. ASSUME NEW t \in Tiers, Quest(t) PROVE req' = req
  BY <1>3 DEF Quest, Refresh, Invalidate, Rebuild, DropView
<1> QED  BY <1>1, <1>2, <1>3 DEF Aside

-----------------------------------------------------------------------------
(* Types *)

Kinds == {"series", "overview", "periods", "channels"}
Request == [pc : {"idle", "first", "second", "answered"}, kind : Kinds,
            ch : Channels \cup {ALL}, tier : Tiers \cup {BASE}, rows : SUBSET Row]

LEMMA FeedIs ==
  /\ Len(Feed) \in Nat \ {0} /\ Row = 1..Len(Feed)
  /\ \A n \in 0..Len(Feed) : 1..n \subseteq Row
  BY RollupsAssumption DEF Row

LEMMA NoReqIs == NoReq \in Request /\ NoReq.pc = "idle" /\ NoReq.kind = "series"
  BY TiersAre DEF NoReq, Request, Kinds

LEMMA OfAreRows ==
  ASSUME NEW n \in 0..Len(Feed), NEW ch
  PROVE  Of(ch, n) \subseteq Row
  BY FeedIs DEF Of

LEMMA RequestTyped ==
  ASSUME TypeOK, Next
  PROVE  req' \in Request
<1>1. req \in Request  BY DEF TypeOK, Request, Kinds
<1>2. CASE Aside  BY <1>1, <1>2, AsideLeavesRequest
<1>3. CASE Drawn \/ Unanswered \/ PowerLoss \/ Restart
  BY <1>3, NoReqIs DEF Drawn, Unanswered, PowerLoss, Restart, GoesDown
<1>4. CASE Ask
  <2>1. PICK kind \in Kinds, ch \in Channels \cup {ALL}, t \in Tiers \cup {BASE} :
          req' = [pc |-> "first", kind |-> kind, ch |-> ch, tier |-> t, rows |-> {}]
    BY <1>4, AskedOfTier DEF Kinds
  <2> QED  BY <2>1 DEF Request
<1>5. CASE First
  <2> DEFINE n == IF req.tier = BASE THEN base ELSE held[req.tier]
             answer == [req EXCEPT !.rows = Of(req.ch, n),
                          !.pc = IF AsksBase(req.kind, req.tier, Of(req.ch, n))
                                 THEN "second" ELSE "answered"]
  <2>1. n \in 0..Len(Feed)  BY <1>1 DEF TypeOK, Request
  <2>2. Of(req.ch, n) \subseteq Row  BY <2>1, OfAreRows
  <2>3. req' = NoReq \/ req' = answer  BY <1>5 DEF First
  <2>4. answer \in Request  BY <1>1, <2>2 DEF Request
  <2> QED  BY <2>3, <2>4, NoReqIs
<1>6. CASE Second
  <2>1. base \in 0..Len(Feed)  BY DEF TypeOK
  <2>2. Of(req.ch, base) \subseteq Row /\ {r \in 1..base : Feed[r].recent} \subseteq Row
    BY <2>1, OfAreRows, FeedIs
  <2>3. req' = [req EXCEPT !.pc = "answered",
                  !.rows = IF req.kind = "channels"
                           THEN @ \cup {r \in 1..base : Feed[r].recent}
                           ELSE Of(req.ch, base)]
    BY <1>6 DEF Second
  <2> QED  BY <1>1, <2>2, <2>3 DEF Request
<1> QED  BY <1>2, <1>3, <1>4, <1>5, <1>6, Steps

LEMMA ServiceTyped ==
  ASSUME TypeOK, Next
  PROVE  /\ pc' \in {"down", "keys", "ttl", "views", "list", "up"}
         /\ making' \in Tiers /\ unheard' \in BOOLEAN /\ views' \subseteq Tiers
<1> USE DEF TypeOK, service, table, rollup
<1>1. CASE Start  BY <1>1 DEF Start
<1>2. CASE EnsureKeys  BY <1>2 DEF EnsureKeys, Shows, Silent
<1>3. CASE EnsureTtl  BY <1>3 DEF EnsureTtl, Shows, Silent
<1>4. CASE MakeView
  <2>1. making # Len(Grain) => making + 1 \in Tiers  BY TiersAre
  <2>2. 1 \in Tiers  BY TiersAre
  <2> QED  BY <1>4, <2>1, <2>2 DEF MakeView
<1>5. CASE ListViews  BY <1>5, UsableAreTiers DEF ListViews, Listed, Unlisted
<1>6. CASE Recheck \/ RecheckFails
  BY <1>6, UsableAreTiers DEF Recheck, RecheckFails, Listed, Unlisted
<1>7. CASE PowerLoss \/ Restart  BY <1>7, TiersAre DEF PowerLoss, Restart, GoesDown
<1>8. CASE Drawn \/ Ask \/ First \/ Second \/ Unanswered \/ Ingest \/ Skip
  BY <1>8 DEF Drawn, Ask, First, Second, Unanswered, Ingest, Skip
<1>9. ASSUME NEW t \in Tiers, Quest(t)
      PROVE  UNCHANGED service
  BY <1>9 DEF Quest, Refresh, Invalidate, Rebuild, DropView
<1> QED
  BY <1>1, <1>2, <1>3, <1>4, <1>5, <1>6, <1>7, <1>8, <1>9, Steps DEF Aside, Schema

LEMMA TableTyped ==
  ASSUME TypeOK, Next
  PROVE  /\ base' \in 0..Len(Feed) /\ keys' \in BOOLEAN /\ ttl' \in Retentions \cup {Unset}
         /\ damaged' \in BOOLEAN /\ suspended' \in BOOLEAN
<1> USE DEF TypeOK, table, service
<1>1. CASE EnsureKeys  BY <1>1 DEF EnsureKeys, Alter
<1>2. CASE EnsureTtl
  <2>1. setting.retention \in Retentions \cup {Unset}  OBVIOUS
  <2> QED  BY <1>2, <2>1 DEF EnsureTtl, Alter
<1>3. CASE Ingest  BY <1>3, FeedIs DEF Ingest
<1>4. CASE PowerLoss
  <2>1. base' \in {base, base - 1} \cap Nat  BY <1>4 DEF PowerLoss
  <2>2. base' \in 0..Len(Feed)  BY <2>1, FeedIs
  <2> QED  BY <1>4, <2>2 DEF PowerLoss
<1>5. CASE Skip  BY <1>5 DEF Skip
<1>6. CASE \/ Start \/ MakeView \/ ListViews \/ Recheck \/ RecheckFails
           \/ Drawn \/ Ask \/ First \/ Second \/ Unanswered \/ Restart
  BY <1>6 DEF Start, MakeView, ListViews, Recheck, RecheckFails, Drawn, Ask, First, Second,
       Unanswered, Restart
<1>7. ASSUME NEW t \in Tiers, Quest(t)
      PROVE  UNCHANGED table
  BY <1>7 DEF Quest, Refresh, Invalidate, Rebuild, DropView
<1> QED
  BY <1>1, <1>2, <1>3, <1>4, <1>5, <1>6, <1>7, Steps DEF Aside, Schema

Status == [Tiers -> {"absent", "valid", "invalid"}]
Held == [Tiers -> 0..Len(Feed)]

LEMMA SourceTyped ==
  ASSUME TypeOK, NEW t \in Tiers
  PROVE  Source(t) \in 0..Len(Feed)
<1>1. t # 1 => t - 1 \in Tiers  BY TiersAre
<1> QED  BY <1>1 DEF Source, TypeOK

LEMMA RollupTyped ==
  ASSUME TypeOK, Next
  PROVE  status' \in Status /\ held' \in Held
<1> USE DEF TypeOK, rollup, Status, Held
<1>1. status \in Status /\ held \in Held /\ making \in Tiers /\ 0 \in 0..Len(Feed)
  BY FeedIs
<1>2. CASE MakeView  BY <1>1, <1>2 DEF MakeView
<1>3. CASE PowerLoss  BY <1>1, <1>3 DEF PowerLoss
<1>4. ASSUME NEW t \in Tiers, Quest(t)
      PROVE  status' \in Status /\ held' \in Held
  <2>1. Source(t) \in 0..Len(Feed)  BY SourceTyped
  <2>2. CASE Refresh(t)  BY <1>1, <2>1, <2>2 DEF Refresh
  <2>3. CASE Invalidate(t)  BY <1>1, <2>3 DEF Invalidate
  <2>4. CASE Rebuild(t)  BY <1>1, <2>4 DEF Rebuild
  <2>5. CASE DropView(t)  BY <1>1, <2>5 DEF DropView
  <2> QED  BY <1>4, <2>2, <2>3, <2>4, <2>5 DEF Quest
<1>5. CASE \/ Start \/ EnsureKeys \/ EnsureTtl \/ ListViews \/ Recheck \/ RecheckFails
           \/ Drawn \/ Ask \/ First \/ Second \/ Unanswered \/ Ingest \/ Skip \/ Restart
  BY <1>1, <1>5 DEF Start, EnsureKeys, EnsureTtl, ListViews, Recheck, RecheckFails, Drawn,
       Ask, First, Second, Unanswered, Ingest, Skip, Restart
<1> QED  BY <1>2, <1>3, <1>4, <1>5, Steps DEF Aside, Schema

LEMMA RestTyped ==
  ASSUME TypeOK, Next
  PROVE  /\ setting' \in [retention : Retentions \cup {Unset}, rollups : BOOLEAN]
         /\ mishaps' \in 0..MaxMishaps
<1> USE DEF TypeOK
<1>1. MaxMishaps \in Nat  BY RollupsAssumption
<1>2. setting' = setting \/ Restart
  <2>1. ASSUME NEW t \in Tiers, Quest(t) PROVE setting' = setting
    BY <2>1 DEF Quest, Refresh, Invalidate, Rebuild, DropView
  <2>2. ASSUME Schema \/ Recheck \/ RecheckFails \/ Ingest \/ Skip PROVE setting' = setting
    BY <2>2 DEF Schema, Start, EnsureKeys, EnsureTtl, MakeView, ListViews, Recheck,
         RecheckFails, Ingest, Skip
  <2>3. ASSUME Drawn \/ Ask \/ First \/ Second \/ Unanswered \/ PowerLoss
        PROVE  setting' = setting
    BY <2>3 DEF Drawn, Ask, First, Second, Unanswered, PowerLoss
  <2> QED  BY <2>1, <2>2, <2>3, Steps DEF Aside
<1>3. mishaps' = mishaps \/ Mishap
  <2>1. ASSUME NEW t \in Tiers, Quest(t) PROVE mishaps' = mishaps \/ Mishap
    BY <2>1 DEF Quest, Refresh, Invalidate, Rebuild, DropView
  <2>2. ASSUME Schema \/ Recheck \/ RecheckFails \/ Ingest \/ Skip
        PROVE  mishaps' = mishaps \/ Mishap
    BY <2>2 DEF Schema, Start, EnsureKeys, EnsureTtl, MakeView, ListViews, Recheck,
         RecheckFails, Ingest, Skip, Shows, Silent, Unlisted
  <2>3. ASSUME Drawn \/ Ask \/ First \/ Second \/ Unanswered \/ PowerLoss \/ Restart
        PROVE  mishaps' = mishaps \/ Mishap
    BY <2>3 DEF Drawn, Ask, First, Second, Unanswered, PowerLoss, Restart
  <2> QED  BY <2>1, <2>2, <2>3, Steps DEF Aside
<1>4. mishaps' \in 0..MaxMishaps  BY <1>1, <1>3 DEF Mishap
<1> QED  BY <1>2, <1>4 DEF Restart

\* Every variable keeps its type.
THEOREM TypeCorrect == Spec => []TypeOK
<1>1. Init => TypeOK
  <2> SUFFICES ASSUME Init PROVE TypeOK  OBVIOUS
  <2>1. base \in 0..Len(Feed) /\ 0 \in 0..Len(Feed) /\ mishaps \in 0..MaxMishaps
    BY FeedIs, RollupsAssumption DEF Init
  <2>2. status \in Status /\ held \in Held  BY <2>1 DEF Init, Status, Held
  <2>3. making \in Tiers  BY TiersAre DEF Init
  <2>4. req \in Request  BY NoReqIs DEF Init
  <2>5. setting \in [retention : Retentions \cup {Unset}, rollups : BOOLEAN]  BY DEF Init
  <2> QED  BY <2>1, <2>2, <2>3, <2>4, <2>5 DEF Init, TypeOK, Status, Held, Request, Kinds
<1>2. TypeOK /\ [Next]_vars => TypeOK'
  <2> SUFFICES ASSUME TypeOK, [Next]_vars PROVE TypeOK'  OBVIOUS
  <2>1. CASE UNCHANGED vars
    BY <2>1 DEF vars, table, rollup, service, TypeOK
  <2>2. CASE Next
    BY <2>2, RequestTyped, ServiceTyped, TableTyped, RollupTyped, RestTyped
       DEF TypeOK, Request, Kinds, Status, Held
  <2> QED  BY <2>1, <2>2
<1> QED  BY <1>1, <1>2, PTL DEF Spec

-----------------------------------------------------------------------------
(* A chart hides nothing. *)

\* A list of channels is of all of them, and asks the base table a second time
\* only when it was answered by a view.
Listing ==
  /\ req.kind = "channels" => req.ch = ALL
  /\ req.pc = "second" => req.tier # BASE

LEMMA FirstHidesNothing ==
  ASSUME TypeOK, Listing, First
  PROVE  Listing' /\ NothingHidden'
<1> DEFINE n == IF req.tier = BASE THEN base ELSE held[req.tier]
           rows == Of(req.ch, n)
           answer == [req EXCEPT !.rows = rows,
                        !.pc = IF AsksBase(req.kind, req.tier, rows)
                               THEN "second" ELSE "answered"]
<1>1. CASE req' = NoReq
  BY <1>1, NoReqIs DEF Listing, NothingHidden, Answered
<1>2. CASE req' = answer
  <2>1. /\ req'.kind = req.kind /\ req'.ch = req.ch /\ req'.tier = req.tier
        /\ req'.rows = rows
        /\ req'.pc = IF AsksBase(req.kind, req.tier, rows) THEN "second" ELSE "answered"
    BY <1>2 DEF TypeOK
  <2>2. base' = base  BY DEF First, table
  <2> HIDE DEF answer, rows
  <2>3. Listing'  BY <2>1 DEF Listing, AsksBase
  <2>4. CASE ~Answered'  BY <2>3, <2>4 DEF NothingHidden
  <2>5. CASE Answered' /\ req.kind = "channels"
    <3>1. req.tier = BASE  BY <2>1, <2>5 DEF Answered, AsksBase
    <3>2. rows = 1..base  BY <2>5, <3>1 DEF rows, Listing, Of
    <3> QED  BY <2>1, <2>2, <2>3, <2>5, <3>2 DEF NothingHidden, Shown, Stored
  <2>6. CASE Answered' /\ req.kind # "channels"
    <3>1. req.tier = BASE => rows = Of(req.ch, base)  BY DEF rows
    <3>2. req.tier # BASE => rows # {}  BY <2>1, <2>6 DEF Answered, AsksBase
    <3>3. rows = {} => Of(req'.ch, base') = {}  BY <2>1, <2>2, <3>1, <3>2
    <3> QED  BY <2>1, <2>3, <2>6, <3>3 DEF NothingHidden, Of
  <2> QED  BY <2>4, <2>5, <2>6
<1> QED  BY <1>1, <1>2 DEF First

LEMMA SecondHidesNothing ==
  ASSUME TypeOK, Listing, Second
  PROVE  Listing' /\ NothingHidden'
<1>1. /\ req'.kind = req.kind /\ req'.ch = req.ch /\ req'.tier = req.tier
      /\ req'.pc = "answered" /\ base' = base
      /\ req.kind = "channels" =>
           req'.rows = req.rows \cup {r \in 1..base : Feed[r].recent}
      /\ req.kind # "channels" => req'.rows = Of(req.ch, base)
  BY DEF Second, TypeOK, table
<1>2. Listing'  BY <1>1 DEF Listing
<1>3. CASE req.kind = "channels"
  <2>1. req'.tier # BASE  BY <1>1 DEF Listing, Second
  <2>2. {r \in 1..base : Feed[r].recent} \subseteq req'.rows  BY <1>1, <1>3
  <2> QED  BY <1>1, <1>2, <1>3, <2>1, <2>2 DEF NothingHidden, Shown
<1>4. CASE req.kind # "channels"
  <2>1. req'.rows = Of(req'.ch, base')  BY <1>1, <1>4
  <2> QED  BY <1>1, <1>2, <1>4, <2>1 DEF NothingHidden, Of
<1> QED  BY <1>3, <1>4

\* A request not yet answered, or none at all, shows nothing that could be wrong.
LEMMA OthersHideNothing ==
  ASSUME TypeOK, Listing, NothingHidden, Next, ~First, ~Second
  PROVE  Listing' /\ NothingHidden'
<1>1. CASE Aside /\ req.pc # "answered"
  BY <1>1, AsideLeavesRequest DEF Listing, NothingHidden, Answered
<1>2. CASE Drawn \/ Unanswered \/ PowerLoss \/ Restart
  <2>1. req' = NoReq  BY <1>2 DEF Drawn, Unanswered, PowerLoss, Restart, GoesDown
  <2> QED  BY <2>1, NoReqIs DEF Listing, NothingHidden, Answered
<1>3. CASE Ask  BY <1>3, AskedOfTier DEF Listing, NothingHidden, Answered
<1> QED  BY <1>1, <1>2, <1>3, Steps

\* An answer that shows nothing means that the base table holds nothing of the
\* kind, and the list of channels has every channel whose readings are recent
\* (series.rs fetch_series, fetch_overview, fetch_channels).
THEOREM NothingIsHidden == Spec => []NothingHidden
<1> DEFINE IInv == Listing /\ NothingHidden
<1>1. Init => IInv
  BY NoReqIs DEF Init, Listing, NothingHidden, Answered
<1>2. TypeOK /\ IInv /\ [Next]_vars => IInv'
  <2> SUFFICES ASSUME TypeOK, IInv, [Next]_vars PROVE IInv'  OBVIOUS
  <2>1. CASE UNCHANGED vars
    <3>1. req' = req /\ base' = base  BY <2>1 DEF vars, table
    <3> QED  BY <3>1 DEF Listing, NothingHidden, Answered, Shown, Stored, Of
  <2>2. CASE Next
    BY <2>2, FirstHidesNothing, SecondHidesNothing, OthersHideNothing
  <2> QED  BY <2>1, <2>2
<1>3. IInv => NothingHidden  OBVIOUS
<1> QED  BY <1>1, <1>2, <1>3, TypeCorrect, PTL DEF Spec

-----------------------------------------------------------------------------
(* A damaged table is left alone. *)

Excused ==
  unheard' \/ ~keys \/ (setting.retention # Unset /\ ttl # setting.retention)

\* A start stops the ingestion of a damaged table only if the settings ask for
\* a change of it, or if the database would not say what the table looks like
\* (schema.rs needs_dedup, needs_ttl).
THEOREM TableStaysOpen == Spec => StaysOpen
<1>1. Next => (suspended' /\ ~suspended => Excused)
  <2> SUFFICES ASSUME Next, suspended', ~suspended PROVE Excused  OBVIOUS
  <2>1. CASE EnsureKeys  BY <2>1 DEF EnsureKeys, Alter, Shows, Silent, Excused
  <2>2. CASE EnsureTtl  BY <2>2 DEF EnsureTtl, Alter, Shows, Silent, NeedsTtl, Excused
  <2>3. CASE \/ Start \/ MakeView \/ ListViews \/ Recheck \/ RecheckFails
             \/ Drawn \/ Ask \/ First \/ Second \/ Unanswered
             \/ Ingest \/ PowerLoss \/ Skip \/ Restart
    BY <2>3 DEF Start, MakeView, ListViews, Recheck, RecheckFails, Drawn, Ask, First,
         Second, Unanswered, Ingest, PowerLoss, Skip, Restart, table
  <2>4. ASSUME NEW t \in Tiers, Quest(t) PROVE FALSE
    BY <2>4 DEF Quest, Refresh, Invalidate, Rebuild, DropView, table
  <2> QED  BY <2>1, <2>2, <2>3, <2>4, Steps DEF Aside, Schema
<1>2. [Next]_vars => [suspended' /\ ~suspended => Excused]_vars  BY <1>1
<1> QED  BY <1>2, PTL DEF Spec, StaysOpen, Excused

-----------------------------------------------------------------------------
(* Charts.  What follows holds of every window, every row and every reading,  *)
(* not of the ones MCRollups enumerates: where something is to be shown for  *)
(* sequences of any length, the shortest counterexample is refuted.          *)

Below == {ss \in Nat \X Nat : ss[1] < ss[2]}

\* Any set of numbers has a least one.
LEMMA LeastNumber ==
  ASSUME NEW S, S \subseteq Nat, S # {}
  PROVE  \E x \in S : \A y \in S : x <= y
<1>1. IsWellFoundedOn({ss \in Nat \X Nat : ss[1] < ss[2]}, Nat)
  BY NatLessThanWellFounded DEF OpToRel
<1>2. PICK x \in S : \A y \in S : ~(<<y, x>> \in Below)
  BY <1>1, WFMin DEF Below
<1>3. ASSUME NEW y \in S PROVE x <= y
  <2>1. x \in Nat /\ y \in Nat
    OBVIOUS
  <2>2. ~(<<y, x>> \in Below)
    BY <1>2
  <2>3. ~(y < x)
    BY <2>1, <2>2 DEF Below
  <2> QED BY <2>1, <2>3
<1> QED BY <1>3

LEMMA MinOf ==
  ASSUME NEW S, S \subseteq Nat, S # {}
  PROVE  Min(S) \in S /\ \A y \in S : Min(S) <= y
  BY LeastNumber DEF Min

LEMMA LadderIs == /\ Len(LADDER) = 19 /\ DOMAIN LADDER = 1..19
                  /\ \A i \in 1..19 : LADDER[i] \in Nat \ {0}
  BY DEF LADDER, MINUTE, HOUR, DAY

LEMMA MaxOfTwo ==
  ASSUME NEW x \in Int, NEW y \in Int, x >= y
  PROVE  Max({x, y}) = x
<1>1. \E m \in {x, y} : \A n \in {x, y} : m >= n
  OBVIOUS
<1> QED BY <1>1 DEF Max

\* A snapped window is made of whole buckets and reaches less than one past either end.
LEMMA SnapIs ==
  ASSUME NEW from \in Int, NEW to \in Int, from < to, NEW width \in Nat \ {0}
  PROVE  \E a \in Int, b \in Int :
           /\ Snap(from, to, width) = <<a * width, b * width>>
           /\ a * width <= from /\ from - a * width < width
           /\ to <= b * width /\ b * width - to < width
           /\ a < b
<1>1. PICK q \in Int, r \in 0..(width - 1) :
        q = from \div width /\ from = q * width + r
  OBVIOUS
<1>2. PICK p \in Int, s \in 0..(width - 1) :
        p = to \div width /\ s = to % width /\ to = p * width + s
  OBVIOUS
<1>3. PICK c \in Int : c = IF s = 0 THEN p ELSE p + 1
  OBVIOUS
<1>4. PICK low \in Int, high \in Int : low = q * width /\ high = p * width
  OBVIOUS
<1>5. c * width = high + IF s = 0 THEN 0 ELSE width
  BY <1>3, <1>4
<1>6. q < c
  <2>1. CASE s = 0
    <3>1. low < high
      BY <2>1, <1>1, <1>2, <1>4
    <3>2. q < p
      BY <3>1, <1>4
    <3> QED BY <2>1, <1>3, <3>2
  <2>2. CASE s # 0
    <3>1. low < high + width
      BY <1>1, <1>2, <1>4
    <3>2. q < p + 1
      BY <3>1, <1>4
    <3> QED BY <2>2, <1>3, <3>2
  <2> QED BY <2>1, <2>2
<1>7. low + width <= c * width
  BY <1>6, <1>4
<1>8. Snap(from, to, width) = <<low, c * width>>
  <2>1. PICK ceil \in Int : ceil = high + (IF s = 0 THEN 0 ELSE width) /\ ceil = c * width
    BY <1>5
  <2>2. Max({ceil, low + width}) = ceil
    BY <2>1, <1>7, MaxOfTwo
  <2>3. /\ (from \div width) * width = low /\ (to \div width) * width = high
        /\ to % width = s
    BY <1>1, <1>2, <1>4
  <2> QED BY <2>1, <2>2, <2>3 DEF Snap
<1>9. /\ low <= from /\ from - low < width
      /\ to <= c * width /\ c * width - to < width
  BY <1>1, <1>2, <1>4, <1>5
<1> QED BY <1>4, <1>6, <1>8, <1>9

\* snap() (series.rs): whatever the window and the width of a bucket, the window
\* it is widened to covers it with whole buckets of the calendar and wastes less
\* than one at either end.
THEOREM WindowIsCovered ==
  ASSUME NEW from \in Int, NEW to \in Int, from < to, NEW width \in Nat \ {0}
  PROVE  LET w == Snap(from, to, width)
         IN  /\ w[1] <= from /\ from - w[1] < width
             /\ to <= w[2] /\ w[2] - to < width
             /\ w[1] % width = 0 /\ w[2] % width = 0
<1>1. ASSUME NEW a \in Int PROVE (a * width) % width = 0
  OBVIOUS
<1>2. PICK a \in Int, b \in Int :
        /\ Snap(from, to, width) = <<a * width, b * width>>
        /\ a * width <= from /\ from - a * width < width
        /\ to <= b * width /\ b * width - to < width
  BY SnapIs
<1> DEFINE w == Snap(from, to, width)
<1>3. w[1] = a * width /\ w[2] = b * width
  BY <1>2
<1> HIDE DEF w
<1>4. /\ w[1] <= from /\ from - w[1] < width
      /\ to <= w[2] /\ w[2] - to < width
      /\ w[1] % width = 0 /\ w[2] % width = 0
  BY <1>1, <1>2, <1>3
<1> QED BY <1>4 DEF w

\* A width that gives a window enough points gives it but one bucket more.
LEMMA WideEnough ==
  ASSUME NEW from \in Int, NEW to \in Int, from < to, NEW points \in Nat \ {0},
         NEW width \in Nat \ {0}
  PROVE  to - from <= points * width =>
           (Snap(from, to, width)[2] - Snap(from, to, width)[1]) \div width <= points + 1
<1>1. PICK a \in Int, b \in Int :
           /\ Snap(from, to, width) = <<a * width, b * width>>
           /\ a * width <= from /\ from - a * width < width
           /\ to <= b * width /\ b * width - to < width
  BY SnapIs
<1> HAVE to - from <= points * width
<1>2. PICK n \in Int : n = b - a /\ n * width = b * width - a * width
  OBVIOUS
<1>3. n < points + 2
  <2>1. n * width < (points + 2) * width
    BY <1>1, <1>2
  <2> QED BY <2>1
<1>4. (n * width) \div width = n
  OBVIOUS
<1>5. (b * width - a * width) \div width <= points + 1
  BY <1>2, <1>3, <1>4
<1> QED BY <1>1, <1>5

\* choose_bucket() (series.rs): a chart of any window has no more buckets than the
\* points it was asked for, and the one that widening the window adds, unless the
\* window is too wide for the widest rung there is.
THEOREM BucketsAlwaysFit ==
  ASSUME NEW from \in Int, NEW to \in Int, from < to, NEW points \in Nat \ {0}
  PROVE  LET width == ChooseBucket(from, to, points)
             w == Snap(from, to, width)
         IN  width # LADDER[Len(LADDER)] => (w[2] - w[1]) \div width <= points + 1
<1>1. PICK wanted \in Nat : /\ wanted = (to - from + points - 1) \div points
                            /\ to - from <= wanted * points
  <2>1. PICK q \in Int, r \in 0..(points - 1) :
          q = (to - from + points - 1) \div points /\ to - from + points - 1 = q * points + r
    OBVIOUS
  <2>2. to - from <= q * points
    BY <2>1
  <2>3. q >= 0
    BY <2>2
  <2> QED BY <2>1, <2>2, <2>3
<1>2. PICK wide : wide = {i \in DOMAIN LADDER : LADDER[i] >= wanted}
  OBVIOUS
<1>3. ChooseBucket(from, to, points) = LADDER[IF wide = {} THEN Len(LADDER) ELSE Min(wide)]
  <2>1. Max({to - from, 1}) = to - from /\ Max({points, 1}) = points
    BY MaxOfTwo
  <2> QED BY <1>1, <1>2, <2>1 DEF ChooseBucket
<1>4. CASE wide = {}
  BY <1>3, <1>4
<1>5. CASE wide # {}
  <2>1. Min(wide) \in wide
    BY <1>2, <1>5, MinOf, LadderIs
  <2>2. PICK width \in Nat \ {0} : width = ChooseBucket(from, to, points) /\ width >= wanted
    BY <1>2, <1>3, <1>5, <2>1, LadderIs
  <2>3. to - from <= points * width
    <3>1. wanted * points <= width * points
      BY <1>1, <2>2
    <3> QED BY <1>1, <2>2, <3>1
  <2>4. (Snap(from, to, width)[2] - Snap(from, to, width)[1]) \div width <= points + 1
    BY <2>2, <2>3, WideEnough
  <2> QED BY <2>2, <2>4
<1> QED BY <1>4, <1>5

-----------------------------------------------------------------------------
(* Periods: what a meter used. *)

\* Differences add up to a difference.
LEMMA Telescope ==
  ASSUME NEW n \in Nat, NEW a \in [0..n -> Int], NEW sum \in [0..n -> Int], sum[0] = 0,
         \A k \in 1..n : sum[k] = sum[k - 1] + (a[k] - a[k - 1])
  PROVE  \A k \in 0..n : sum[k] = a[k] - a[0]
<1> DEFINE wrong == {k \in 0..n : sum[k] # a[k] - a[0]}
<1>1. wrong \subseteq Nat /\ \A k : k \in wrong <=> k \in 0..n /\ sum[k] # a[k] - a[0]
  OBVIOUS
<1> HIDE DEF wrong
<1> SUFFICES ASSUME wrong # {} PROVE FALSE
  BY <1>1
<1>2. PICK k \in wrong : \A j \in wrong : k <= j
  BY <1>1, LeastNumber
<1>3. k \in 1..n
  <2>1. k # 0
    BY <1>1
  <2> QED BY <1>1, <2>1
<1>4. k - 1 \in 0..n /\ k - 1 \notin wrong
  BY <1>1, <1>2, <1>3
<1>5. sum[k - 1] = a[k - 1] - a[0] /\ sum[k] = sum[k - 1] + (a[k] - a[k - 1])
  BY <1>1, <1>3, <1>4
<1> QED BY <1>1, <1>3, <1>4, <1>5

\* What the last `keep` of the rows' meters used, each against the row before.
LEMMA UsedInPeriod ==
  ASSUME NEW Meter, NEW rows \in Seq(Meter), NEW keep \in Nat \ {0}, keep < Len(rows),
         NEW k \in 1..keep
  PROVE  Buckets(rows, keep)[k].delta
           = rows[Len(rows) - keep + k].last - rows[Len(rows) - keep + k - 1].last
<1>1. PICK before \in Nat \ {0} : before = Len(rows) - keep
  OBVIOUS
<1>2. Max({0, Len(rows) - keep}) = before
  BY <1>1, MaxOfTwo, {0, before} = {before, 0}
<1>3. before + k # 1 /\ k \in 1..(Len(rows) - before)
  BY <1>1
<1> QED BY <1>1, <1>2, <1>3 DEF Buckets

\* buckets() (periods.rs): over any rows of a meter, replaced and reset as often as
\* you like, what the periods shown are said to have used adds up to the last
\* reading minus the one the first of them began from, after each of them.
THEOREM ConsumptionTelescopes ==
  ASSUME NEW Meter, \A r \in Meter : r.last \in Int, NEW rows \in Seq(Meter),
         NEW keep \in Nat \ {0}, keep < Len(rows),
         NEW sum \in [0..keep -> Int], sum[0] = 0,
         \A k \in 1..keep : sum[k] = sum[k - 1] + Buckets(rows, keep)[k].delta
  PROVE  \A k \in 0..keep :
           sum[k] = rows[Len(rows) - keep + k].last - rows[Len(rows) - keep].last
<1> DEFINE a == [k \in 0..keep |-> rows[Len(rows) - keep + k].last]
<1>1. a \in [0..keep -> Int]
  <2> SUFFICES ASSUME NEW k \in 0..keep PROVE rows[Len(rows) - keep + k].last \in Int
    OBVIOUS
  <2>1. Len(rows) - keep + k \in 1..Len(rows)
    OBVIOUS
  <2> QED BY <2>1
<1>2. ASSUME NEW k \in 1..keep PROVE sum[k] = sum[k - 1] + (a[k] - a[k - 1])
  <2>1. k \in 0..keep /\ k - 1 \in 0..keep /\ Len(rows) - keep + (k - 1) = Len(rows) - keep + k - 1
    OBVIOUS
  <2> QED BY <2>1, UsedInPeriod
<1>3. 0 \in 0..keep /\ a[0] = rows[Len(rows) - keep].last
  OBVIOUS
<1>4. \A k \in 0..keep : sum[k] = a[k] - a[0]
  <2> HIDE DEF a
  <2> QED BY <1>1, <1>2, Telescope
<1> QED BY <1>3, <1>4

-----------------------------------------------------------------------------
(* sum() of a column, whatever its length. *)

\* Partial sums add up to the sum, and there are partial sums.
IsPartial(up, s, n) ==
  up \in [0..n -> Int] /\ up[0] = 0 /\ \A i \in 1..n : up[i] = up[i - 1] + s[i]

LEMMA PartialSumsExist ==
  ASSUME NEW s \in Seq(Int)
  PROVE  \E up : IsPartial(up, s, Len(s))
<1> DEFINE Has(n) == \E up : IsPartial(up, s, n)
           wrong == {n \in 0..Len(s) : ~Has(n)}
<1>1. Has(0)
  <2>1. IsPartial([i \in 0..0 |-> 0], s, 0)
    BY DEF IsPartial
  <2> QED BY <2>1
<1>2. ASSUME NEW n \in 1..Len(s), Has(n - 1) PROVE Has(n)
  <2>1. PICK up : IsPartial(up, s, n - 1)
    BY <1>2
  <2> DEFINE more == [i \in 0..n |-> IF i = n THEN up[n - 1] + s[n] ELSE up[i]]
  <2>2. s[n] \in Int /\ up[n - 1] \in Int
    BY <2>1 DEF IsPartial
  <2>3. more \in [0..n -> Int] /\ more[0] = 0
    BY <2>1, <2>2 DEF IsPartial
  <2>4. ASSUME NEW i \in 1..n PROVE more[i] = more[i - 1] + s[i]
    <3>1. CASE i = n
      BY <2>2, <3>1
    <3>2. CASE i \in 1..(n - 1)
      BY <2>1, <3>2 DEF IsPartial
    <3> QED BY <3>1, <3>2
  <2>5. IsPartial(more, s, n)
    BY <2>3, <2>4 DEF IsPartial
  <2> QED BY <2>5
<1> HIDE DEF Has
<1>3. wrong \subseteq Nat /\ \A n : n \in wrong <=> n \in 0..Len(s) /\ ~Has(n)
  OBVIOUS
<1> HIDE DEF wrong
<1>4. wrong = {}
  <2> SUFFICES ASSUME wrong # {} PROVE FALSE
    OBVIOUS
  <2>1. PICK n \in wrong : \A m \in wrong : n <= m
    BY <1>3, LeastNumber
  <2>2. n \in 1..Len(s) /\ n - 1 \in 0..Len(s)
    BY <1>1, <1>3, <2>1
  <2>3. n - 1 \notin wrong
    BY <1>3, <2>1, <2>2
  <2> QED BY <1>2, <1>3, <2>1, <2>2, <2>3
<1>5. Has(Len(s))
  BY <1>3, <1>4
<1> QED BY <1>5 DEF Has

\* sum() is the last of the partial sums.
LEMMA SumIs ==
  ASSUME NEW s \in Seq(Int), NEW up, IsPartial(up, s, Len(s))
  PROVE  SumOf(s) = up[Len(s)]
<1> DEFINE Upto(f) == [i \in 0..Len(s) |-> IF i = 0 THEN 0 ELSE f[i - 1] + s[i]]
           upto == CHOOSE f : f = Upto(f)
           wrong == {i \in 0..Len(s) : upto[i] # up[i]}
<1>1. SumOf(s) = upto[Len(s)]
  BY DEF SumOf
<1>2. up = Upto(up)
  BY DEF IsPartial
<1>3. upto = Upto(upto)
  BY <1>2
<1> HIDE DEF upto
<1>4. /\ upto[0] = up[0]
      /\ \A i \in 1..Len(s) : upto[i] = upto[i - 1] + s[i] /\ up[i] = up[i - 1] + s[i]
  <2>1. \A f : /\ Upto(f)[0] = 0
               /\ \A i \in 1..Len(s) : Upto(f)[i] = f[i - 1] + s[i]
    OBVIOUS
  <2> HIDE DEF Upto
  <2>2. upto[0] = 0 /\ \A i \in 1..Len(s) : upto[i] = upto[i - 1] + s[i]
    BY <1>3, <2>1
  <2> QED BY <2>2 DEF IsPartial
<1>5. wrong \subseteq Nat /\ \A i : i \in wrong <=> i \in 0..Len(s) /\ upto[i] # up[i]
  OBVIOUS
<1> HIDE DEF wrong
<1>6. wrong = {}
  <2> SUFFICES ASSUME wrong # {} PROVE FALSE
    OBVIOUS
  <2>1. PICK i \in wrong : \A j \in wrong : i <= j
    BY <1>5, LeastNumber
  <2>2. i \in 1..Len(s) /\ i - 1 \in 0..Len(s)
    BY <1>4, <1>5, <2>1
  <2>3. i - 1 \notin wrong
    BY <1>5, <2>1, <2>2
  <2> QED BY <1>4, <1>5, <2>1, <2>2, <2>3
<1> QED BY <1>1, <1>5, <1>6

-----------------------------------------------------------------------------
(* What lies between two cuts. *)

\* A cut of n rows into k pieces, none empty; piece i is cut[i - 1] + 1 .. cut[i].
IsCut(cut, k, n) ==
  /\ k \in Nat \ {0} /\ n \in Nat
  /\ cut \in [0..k -> 0..n] /\ cut[0] = 0 /\ cut[k] = n
  /\ \A i \in 1..k : cut[i - 1] < cut[i]

Piece(cut, i) == (cut[i - 1] + 1)..cut[i]

\* Every row lies in a piece, ...
LEMMA PieceOfRow ==
  ASSUME NEW cut, NEW k, NEW n, IsCut(cut, k, n), NEW j \in 1..n
  PROVE  \E i \in 1..k : j \in Piece(cut, i)
<1> DEFINE reached == {i \in 0..k : j <= cut[i]}
<1>1. reached \subseteq Nat /\ \A i : i \in reached <=> i \in 0..k /\ j <= cut[i]
  BY DEF IsCut
<1> HIDE DEF reached
<1>2. k \in reached /\ 0 \notin reached
  <2>1. k \in 0..k /\ cut[k] = n /\ cut[0] = 0 /\ ~(j <= 0) /\ j <= n
    BY DEF IsCut
  <2> QED BY <1>1, <2>1
<1>3. PICK i \in reached : \A m \in reached : i <= m
  BY <1>1, <1>2, LeastNumber
<1>4. i \in 1..k /\ i - 1 \in 0..k /\ i - 1 \notin reached
  BY <1>1, <1>2, <1>3 DEF IsCut
<1>5. j <= cut[i] /\ cut[i - 1] < j
  BY <1>1, <1>4 DEF IsCut
<1> QED BY <1>4, <1>5 DEF Piece, IsCut

\* ... and every piece among the rows.
LEMMA PieceIsInside ==
  ASSUME NEW cut, NEW k, NEW n, IsCut(cut, k, n), NEW i \in 1..k
  PROVE  /\ cut[i - 1] \in 0..n /\ cut[i] \in 0..n /\ cut[i - 1] < cut[i]
         /\ Piece(cut, i) \subseteq 1..n
<1>1. i - 1 \in 0..k /\ i \in 0..k
  BY DEF IsCut
<1> QED BY <1>1 DEF IsCut, Piece

-----------------------------------------------------------------------------
(* The least of some numbers (d = 1), or the greatest of them (d = -1). *)

Among(f, S) == {f[i] : i \in S}

Extreme(m, S, d) == m \in S /\ \A x \in S : d * m <= d * x

LEMMA MinIsExtreme ==
  ASSUME NEW S \in SUBSET Int, NEW m, Extreme(m, S, 1)
  PROVE  Min(S) = m
<1>1. m \in S /\ \A x \in S : m <= x
  BY DEF Extreme
<1>2. Min(S) \in S /\ \A x \in S : Min(S) <= x
  BY <1>1 DEF Min
<1>3. Min(S) <= m /\ m <= Min(S) /\ m \in Int /\ Min(S) \in Int
  BY <1>1, <1>2
<1> QED BY <1>3

LEMMA MaxIsExtreme ==
  ASSUME NEW S \in SUBSET Int, NEW m, Extreme(m, S, -1)
  PROVE  Max(S) = m
<1>1. m \in S /\ \A x \in S : m >= x
  BY DEF Extreme
<1>2. Max(S) \in S /\ \A x \in S : Max(S) >= x
  BY <1>1 DEF Max
<1>3. Max(S) <= m /\ m <= Max(S) /\ m \in Int /\ Max(S) \in Int
  BY <1>1, <1>2
<1> QED BY <1>3

LEMMA ExtremeExists ==
  ASSUME NEW a \in Int, NEW b \in Int, a <= b, NEW f \in [a..b -> Int], NEW d \in {1, -1}
  PROVE  \E m \in Int : Extreme(m, Among(f, a..b), d)
<1> DEFINE Has(c) == \E m \in Int : Extreme(m, {f[i] : i \in a..c}, d)
           wrong == {n \in Nat : a + n <= b /\ ~Has(a + n)}
<1>1. Has(a)
  BY DEF Extreme
<1>2. ASSUME NEW c \in (a + 1)..b, Has(c - 1) PROVE Has(c)
  <2>1. PICK m \in Int : Extreme(m, {f[i] : i \in a..(c - 1)}, d)
    BY <1>2
  <2>2. f[c] \in Int /\ {f[i] : i \in a..c} = {f[i] : i \in a..(c - 1)} \cup {f[c]}
    OBVIOUS
  <2>3. \A x \in {f[i] : i \in a..(c - 1)} : x \in Int
    OBVIOUS
  <2>4. CASE d * m <= d * f[c]
    BY <2>1, <2>2, <2>4 DEF Extreme
  <2>5. CASE ~(d * m <= d * f[c])
    <3>1. Extreme(f[c], {f[i] : i \in a..c}, d)
      BY <2>1, <2>2, <2>3, <2>5 DEF Extreme
    <3> QED BY <2>2, <3>1
  <2> QED BY <2>4, <2>5
<1> HIDE DEF Has
<1>3. wrong \subseteq Nat /\ \A n : n \in wrong <=> n \in Nat /\ a + n <= b /\ ~Has(a + n)
  OBVIOUS
<1> HIDE DEF wrong
<1>4. wrong = {}
  <2> SUFFICES ASSUME wrong # {} PROVE FALSE
    OBVIOUS
  <2>1. PICK n \in wrong : \A j \in wrong : n <= j
    BY <1>3, LeastNumber
  <2>2. n \in Nat \ {0}
    <3>1. n # 0
      BY <1>1, <1>3, a + 0 = a
    <3> QED BY <1>3, <3>1
  <2>3. n - 1 \in Nat /\ n - 1 \notin wrong /\ a + (n - 1) <= b /\ a + n <= b
    BY <1>3, <2>1, <2>2
  <2>4. a + (n - 1) = (a + n) - 1 /\ a + n \in (a + 1)..b
    BY <2>2, <2>3
  <2>5. Has((a + n) - 1)
    BY <1>3, <2>3, <2>4
  <2> QED BY <1>2, <1>3, <2>1, <2>4, <2>5
<1>5. b - a \in Nat /\ a + (b - a) = b
  OBVIOUS
<1>6. Has(b)
  <2>1. b - a \notin wrong /\ a + (b - a) <= b
    BY <1>4, <1>5
  <2>2. Has(a + (b - a))
    BY <1>3, <1>5, <2>1
  <2> QED BY <1>5, <2>2
<1> QED BY <1>6 DEF Has, Among

\* The extreme of the pieces' extremes is the extreme of all.
LEMMA ExtremeOfPieces ==
  ASSUME NEW cut, NEW k, NEW n, IsCut(cut, k, n), NEW d \in {1, -1},
         NEW f \in [1..n -> Int], NEW g \in [1..k -> Int],
         \A i \in 1..k : Extreme(g[i], Among(f, Piece(cut, i)), d),
         NEW m, Extreme(m, Among(g, 1..k), d)
  PROVE  Extreme(m, Among(f, 1..n), d)
<1>1. m \in Among(f, 1..n)
  <2>1. PICK i \in 1..k : m = g[i]
    BY DEF Extreme, Among
  <2>2. PICK j \in Piece(cut, i) : m = f[j]
    BY <2>1 DEF Extreme, Among
  <2> QED BY <2>2, PieceIsInside DEF Among
<1>2. ASSUME NEW j \in 1..n PROVE d * m <= d * f[j]
  <2>1. PICK i \in 1..k : j \in Piece(cut, i)
    BY PieceOfRow
  <2>2. d * m <= d * g[i] /\ d * g[i] <= d * f[j]
    BY <2>1 DEF Extreme, Among
  <2>3. m \in Int /\ g[i] \in Int /\ f[j] \in Int
    BY <1>1 DEF Among
  <2> QED BY <2>2, <2>3
<1> QED BY <1>1, <1>2 DEF Extreme, Among

-----------------------------------------------------------------------------
(* The sum of the pieces' sums is the sum of all. *)

\* p is what stands between a and b.
IsSlice(p, s, a, b) ==
  p \in Seq(Int) /\ Len(p) = b - a /\ \A j \in 1..(b - a) : p[j] = s[a + j]

LEMMA SumOfPiece ==
  ASSUME NEW len \in Nat, NEW s \in [1..len -> Int], NEW up, IsPartial(up, s, len),
         NEW a \in 0..len, NEW b \in 0..len, a < b,
         NEW p, IsSlice(p, s, a, b)
  PROVE  SumOf(p) = up[b] - up[a]
<1> DEFINE part == [j \in 0..(b - a) |-> up[a + j] - up[a]]
<1>0. up \in [0..len -> Int]
  BY DEF IsPartial
<1>1. ASSUME NEW j \in 0..(b - a) PROVE up[a + j] \in Int
  <2>1. a + j \in 0..len
    OBVIOUS
  <2> QED BY <1>0, <2>1
<1>2. part \in [0..(b - a) -> Int] /\ part[0] = 0
  <2>1. up[a] \in Int /\ 0 \in 0..(b - a) /\ a + 0 = a
    BY <1>0
  <2>2. \A j \in 0..(b - a) : up[a + j] - up[a] \in Int
    BY <1>1, <2>1
  <2>3. part \in [0..(b - a) -> Int]
    BY <2>2
  <2>4. part[0] = up[a + 0] - up[a]
    BY <2>1
  <2>5. up[a] - up[a] = 0
    BY <2>1
  <2> HIDE DEF part
  <2> QED BY <2>1, <2>3, <2>4, <2>5
<1>3. ASSUME NEW j \in 1..(b - a) PROVE part[j] = part[j - 1] + p[j]
  <2>1. /\ a + j \in 1..len /\ a + (j - 1) = (a + j) - 1 /\ (a + j) - 1 \in 0..len
        /\ j - 1 \in 0..(b - a) /\ j \in 0..(b - a)
    OBVIOUS
  <2>2. a + j \in 0..len
    OBVIOUS
  <2>3. up[a + j] \in Int /\ up[(a + j) - 1] \in Int /\ up[a] \in Int /\ s[a + j] \in Int
    BY <1>0, <2>1, <2>2
  <2>4. up[a + j] = up[(a + j) - 1] + s[a + j]
    BY <2>1 DEF IsPartial
  <2>5. part[j] = up[a + j] - up[a] /\ part[j - 1] = up[(a + j) - 1] - up[a]
    BY <2>1
  <2>6. p[j] = s[a + j]
    BY DEF IsSlice
  <2> HIDE DEF part
  <2> QED BY <2>3, <2>4, <2>5, <2>6
<1> HIDE DEF part
<1>4. IsPartial(part, p, Len(p))
  BY <1>2, <1>3 DEF IsPartial, IsSlice
<1>5. SumOf(p) = part[b - a]
  BY <1>4, SumIs DEF IsSlice
<1>6. part[b - a] = up[b] - up[a]
  <2>1. b - a \in 0..(b - a) /\ a + (b - a) = b
    OBVIOUS
  <2> QED BY <2>1 DEF part
<1> QED BY <1>5, <1>6

LEMMA SumOfPieces ==
  ASSUME NEW s \in Seq(Int), NEW t \in Seq(Int), NEW cut, IsCut(cut, Len(t), Len(s)),
         \A i \in 1..Len(t) : \E p : IsSlice(p, s, cut[i - 1], cut[i]) /\ t[i] = SumOf(p)
  PROVE  SumOf(t) = SumOf(s)
<1>1. PICK up : IsPartial(up, s, Len(s))
  BY PartialSumsExist
<1>2. SumOf(s) = up[Len(s)]
  BY <1>1, SumIs
<1>3. ASSUME NEW i \in 1..Len(t) PROVE t[i] = up[cut[i]] - up[cut[i - 1]]
  <2>1. PICK p : IsSlice(p, s, cut[i - 1], cut[i]) /\ t[i] = SumOf(p)
    OBVIOUS
  <2>2. cut[i - 1] \in 0..Len(s) /\ cut[i] \in 0..Len(s) /\ cut[i - 1] < cut[i]
    BY PieceIsInside
  <2>3. Len(s) \in Nat /\ s \in [1..Len(s) -> Int]
    OBVIOUS
  <2>4. SumOf(p) = up[cut[i]] - up[cut[i - 1]]
    <3>1. PICK a, b, len : a = cut[i - 1] /\ b = cut[i] /\ len = Len(s)
      OBVIOUS
    <3>2. /\ len \in Nat /\ s \in [1..len -> Int] /\ IsPartial(up, s, len)
          /\ a \in 0..len /\ b \in 0..len /\ a < b /\ IsSlice(p, s, a, b)
      BY <1>1, <2>1, <2>2, <2>3, <3>1
    <3>3. SumOf(p) = up[b] - up[a]
      BY <3>2, SumOfPiece
    <3> QED BY <3>1, <3>3
  <2> QED BY <2>1, <2>4
<1> DEFINE q == [i \in 0..Len(t) |-> up[cut[i]]]
<1>4. IsPartial(q, t, Len(t))
  <2>1. \A i \in 0..Len(t) : cut[i] \in 0..Len(s) /\ up[cut[i]] \in Int
    BY <1>1 DEF IsCut, IsPartial
  <2>2. q \in [0..Len(t) -> Int]
    BY <2>1
  <2>3. q[0] = 0
    BY <1>1 DEF IsCut, IsPartial
  <2>4. ASSUME NEW i \in 1..Len(t) PROVE q[i] = q[i - 1] + t[i]
    <3>1. i - 1 \in 0..Len(t) /\ i \in 0..Len(t)
      BY DEF IsCut
    <3>2. q[i] \in Int /\ q[i - 1] \in Int
      BY <2>2, <3>1
    <3>3. t[i] = q[i] - q[i - 1]
      BY <1>3, <3>1
    <3> QED BY <3>2, <3>3
  <2> HIDE DEF q
  <2> QED BY <2>2, <2>3, <2>4 DEF IsPartial
<1>5. SumOf(t) = q[Len(t)]
  BY <1>4, SumIs
<1>6. Len(t) \in 0..Len(t) /\ cut[Len(t)] = Len(s)
  BY DEF IsCut
<1> QED BY <1>2, <1>5, <1>6

-----------------------------------------------------------------------------
(* Rows of a view, reduced again. *)

Rows == Seq([lo : Int, hi : Int, sv : Int, n : Int])

\* Row i of coarse is what ReduceAgain keeps of piece i of rows.
IsCoarser(coarse, rows, cut) ==
  /\ coarse \in Rows
  /\ \A i \in 1..Len(coarse) :
       coarse[i] = ReduceAgain(SubSeq(rows, cut[i - 1] + 1, cut[i]))

LEMMA SliceOf ==
  ASSUME NEW rows \in Rows, NEW a \in 0..Len(rows), NEW b \in 0..Len(rows), a < b
  PROVE  /\ SubSeq(rows, a + 1, b) \in Rows /\ Len(SubSeq(rows, a + 1, b)) = b - a
         /\ \A j \in 1..(b - a) : SubSeq(rows, a + 1, b)[j] = rows[a + j]
<1>1. \A j \in (a + 1)..b : rows[j] \in [lo : Int, hi : Int, sv : Int, n : Int]
  <2>1. \A j \in (a + 1)..b : j \in 1..Len(rows)
    BY DEF Rows
  <2> QED BY <2>1, ElementOfSeq DEF Rows
<1>2. a + 1 \in Int /\ b \in Int /\ a + 1 <= b /\ b - (a + 1) + 1 = b - a
  BY DEF Rows
<1>3. /\ SubSeq(rows, a + 1, b) \in Rows /\ Len(SubSeq(rows, a + 1, b)) = b - a
      /\ \A j \in 1..(b - a) : SubSeq(rows, a + 1, b)[j] = rows[(a + 1) + j - 1]
  BY <1>1, <1>2, SubSeqProperties DEF Rows
<1>4. \A j \in 1..(b - a) : (a + 1) + j - 1 = a + j
  BY DEF Rows
<1> QED BY <1>3, <1>4

LEMMA RowNumbers ==
  ASSUME NEW rows \in Rows
  PROVE  /\ Len(rows) \in Nat /\ DOMAIN rows = 1..Len(rows)
         /\ \A i \in 1..Len(rows) : /\ rows[i].lo \in Int /\ rows[i].hi \in Int
                                    /\ rows[i].sv \in Int /\ rows[i].n \in Int
<1>1. \A i \in 1..Len(rows) : rows[i] \in [lo : Int, hi : Int, sv : Int, n : Int]
  BY ElementOfSeq DEF Rows
<1> QED BY <1>1 DEF Rows

\* A function on 1..n is a sequence.
LEMMA IsColumn ==
  ASSUME NEW n \in Nat, NEW f \in [1..n -> Int]
  PROVE  f \in Seq(Int) /\ Len(f) = n
  OBVIOUS

LEMMA SumsRegroup ==
  ASSUME NEW rows \in Rows, NEW coarse, NEW cut, IsCoarser(coarse, rows, cut),
         IsCut(cut, Len(coarse), Len(rows))
  PROVE  /\ SumOf([i \in DOMAIN coarse |-> coarse[i].sv]) = SumOf([i \in DOMAIN rows |-> rows[i].sv])
         /\ SumOf([i \in DOMAIN coarse |-> coarse[i].n]) = SumOf([i \in DOMAIN rows |-> rows[i].n])
<1> DEFINE Sv(r) == [i \in DOMAIN r |-> r[i].sv]
           N(r) == [i \in DOMAIN r |-> r[i].n]
<1>1. ASSUME NEW r \in Rows
      PROVE  /\ Sv(r) \in Seq(Int) /\ Len(Sv(r)) = Len(r)
             /\ N(r) \in Seq(Int) /\ Len(N(r)) = Len(r)
  <2>1. Sv(r) \in [1..Len(r) -> Int] /\ N(r) \in [1..Len(r) -> Int]
    BY RowNumbers
  <2> HIDE DEF Sv, N
  <2> QED BY <2>1, IsColumn, RowNumbers
<1>2. coarse \in Rows
  BY DEF IsCoarser
<1>3. ASSUME NEW i \in 1..Len(coarse)
      PROVE  /\ \E p : IsSlice(p, Sv(rows), cut[i - 1], cut[i]) /\ Sv(coarse)[i] = SumOf(p)
             /\ \E p : IsSlice(p, N(rows), cut[i - 1], cut[i]) /\ N(coarse)[i] = SumOf(p)
  <2>1. PICK piece : piece = SubSeq(rows, cut[i - 1] + 1, cut[i])
    OBVIOUS
  <2>2. /\ piece \in Rows /\ Len(piece) = cut[i] - cut[i - 1]
        /\ \A j \in 1..(cut[i] - cut[i - 1]) : piece[j] = rows[cut[i - 1] + j]
    <3>1. cut[i - 1] \in 0..Len(rows) /\ cut[i] \in 0..Len(rows) /\ cut[i - 1] < cut[i]
      BY PieceIsInside
    <3> QED BY <2>1, <3>1, SliceOf
  <2>3. \A j \in 1..(cut[i] - cut[i - 1]) : cut[i - 1] + j \in 1..Len(rows)
    BY PieceIsInside
  <2>4. IsSlice(Sv(piece), Sv(rows), cut[i - 1], cut[i])
    <3>1. Sv(piece) \in Seq(Int) /\ Len(Sv(piece)) = cut[i] - cut[i - 1]
      BY <1>1, <2>2
    <3>2. \A j \in 1..(cut[i] - cut[i - 1]) : Sv(piece)[j] = Sv(rows)[cut[i - 1] + j]
      BY <2>2, <2>3, RowNumbers
    <3> QED BY <3>1, <3>2 DEF IsSlice
  <2>5. IsSlice(N(piece), N(rows), cut[i - 1], cut[i])
    <3>1. N(piece) \in Seq(Int) /\ Len(N(piece)) = cut[i] - cut[i - 1]
      BY <1>1, <2>2
    <3>2. \A j \in 1..(cut[i] - cut[i - 1]) : N(piece)[j] = N(rows)[cut[i - 1] + j]
      BY <2>2, <2>3, RowNumbers
    <3> QED BY <3>1, <3>2 DEF IsSlice
  <2>6. Sv(coarse)[i] = SumOf(Sv(piece)) /\ N(coarse)[i] = SumOf(N(piece))
    <3>1. coarse[i] = ReduceAgain(piece)
      BY <2>1 DEF IsCoarser
    <3>2. ReduceAgain(piece).sv = SumOf(Sv(piece)) /\ ReduceAgain(piece).n = SumOf(N(piece))
      BY DEF ReduceAgain
    <3>3. Sv(coarse)[i] = coarse[i].sv /\ N(coarse)[i] = coarse[i].n
      BY <1>2, RowNumbers
    <3> HIDE DEF Sv, N
    <3> QED BY <3>1, <3>2, <3>3
  <2> QED BY <2>4, <2>5, <2>6
<1> HIDE DEF Sv, N
<1>4. SumOf(Sv(coarse)) = SumOf(Sv(rows)) /\ SumOf(N(coarse)) = SumOf(N(rows))
  <2>0. /\ \A i \in 1..Len(coarse) :
             \E p : IsSlice(p, Sv(rows), cut[i - 1], cut[i]) /\ Sv(coarse)[i] = SumOf(p)
        /\ \A i \in 1..Len(coarse) :
             \E p : IsSlice(p, N(rows), cut[i - 1], cut[i]) /\ N(coarse)[i] = SumOf(p)
    BY <1>3
  <2>1. /\ Sv(rows) \in Seq(Int) /\ Sv(coarse) \in Seq(Int)
        /\ IsCut(cut, Len(coarse), Len(Sv(rows))) /\ Len(Sv(coarse)) = Len(coarse)
    BY <1>1, <1>2
  <2>2. SumOf(Sv(coarse)) = SumOf(Sv(rows))
    BY <2>0, <2>1, SumOfPieces, Zenon
  <2>3. /\ N(rows) \in Seq(Int) /\ N(coarse) \in Seq(Int)
        /\ IsCut(cut, Len(coarse), Len(N(rows))) /\ Len(N(coarse)) = Len(coarse)
    BY <1>1, <1>2
  <2>4. SumOf(N(coarse)) = SumOf(N(rows))
    BY <2>0, <2>3, SumOfPieces, Zenon
  <2> QED BY <2>2, <2>4
<1> QED BY <1>4 DEF Sv, N

\* What ReduceAgain keeps of the ends is what it says.
LEMMA EndsAre ==
  ASSUME NEW rows \in Rows, Len(rows) > 0
  PROVE  /\ Extreme(ReduceAgain(rows).lo, {rows[i].lo : i \in 1..Len(rows)}, 1)
         /\ Extreme(ReduceAgain(rows).hi, {rows[i].hi : i \in 1..Len(rows)}, -1)
<1> DEFINE Lo == [i \in 1..Len(rows) |-> rows[i].lo]
           Hi == [i \in 1..Len(rows) |-> rows[i].hi]
<1>1. Lo \in [1..Len(rows) -> Int] /\ Hi \in [1..Len(rows) -> Int]
  BY RowNumbers
<1>2. /\ {r.lo : r \in Range(rows)} = Among(Lo, 1..Len(rows))
      /\ {r.hi : r \in Range(rows)} = Among(Hi, 1..Len(rows))
  BY RowNumbers DEF Range, Among
<1>3. /\ {rows[i].lo : i \in 1..Len(rows)} = Among(Lo, 1..Len(rows))
      /\ {rows[i].hi : i \in 1..Len(rows)} = Among(Hi, 1..Len(rows))
  BY DEF Among
<1> HIDE DEF Lo, Hi
<1>4. PICK lo \in Int, hi \in Int :
        /\ Extreme(lo, Among(Lo, 1..Len(rows)), 1)
        /\ Extreme(hi, Among(Hi, 1..Len(rows)), -1)
  <2>1. 1 \in Int /\ Len(rows) \in Int /\ 1 <= Len(rows)
    BY RowNumbers
  <2> QED BY <1>1, <2>1, ExtremeExists
<1>5. /\ Among(Lo, 1..Len(rows)) \in SUBSET Int
      /\ Among(Hi, 1..Len(rows)) \in SUBSET Int
  BY <1>1 DEF Among
<1>6. ReduceAgain(rows).lo = lo /\ ReduceAgain(rows).hi = hi
  BY <1>2, <1>4, <1>5, MinIsExtreme, MaxIsExtreme DEF ReduceAgain
<1> QED BY <1>3, <1>4, <1>6

LEMMA EndsRegroup ==
  ASSUME NEW rows \in Rows, NEW coarse, NEW cut, IsCoarser(coarse, rows, cut),
         IsCut(cut, Len(coarse), Len(rows))
  PROVE  /\ ReduceAgain(coarse).lo = ReduceAgain(rows).lo
         /\ ReduceAgain(coarse).hi = ReduceAgain(rows).hi
<1> DEFINE Lo(r) == [i \in 1..Len(r) |-> r[i].lo]
           Hi(r) == [i \in 1..Len(r) |-> r[i].hi]
<1>1. coarse \in Rows
  BY DEF IsCoarser
<1>2. ASSUME NEW r \in Rows
      PROVE  /\ Lo(r) \in [1..Len(r) -> Int] /\ Hi(r) \in [1..Len(r) -> Int]
             /\ {r[i].lo : i \in 1..Len(r)} = Among(Lo(r), 1..Len(r))
             /\ {r[i].hi : i \in 1..Len(r)} = Among(Hi(r), 1..Len(r))
  BY RowNumbers DEF Among
<1>3. ASSUME NEW i \in 1..Len(coarse)
      PROVE  /\ Extreme(Lo(coarse)[i], Among(Lo(rows), Piece(cut, i)), 1)
             /\ Extreme(Hi(coarse)[i], Among(Hi(rows), Piece(cut, i)), -1)
  <2>1. PICK piece : piece = SubSeq(rows, cut[i - 1] + 1, cut[i])
    OBVIOUS
  <2>2. /\ piece \in Rows /\ Len(piece) = cut[i] - cut[i - 1]
        /\ \A j \in 1..(cut[i] - cut[i - 1]) : piece[j] = rows[cut[i - 1] + j]
    <3>1. cut[i - 1] \in 0..Len(rows) /\ cut[i] \in 0..Len(rows) /\ cut[i - 1] < cut[i]
      BY PieceIsInside
    <3> QED BY <2>1, <3>1, SliceOf
  <2>3. /\ cut[i - 1] \in 0..Len(rows) /\ cut[i] \in 0..Len(rows) /\ cut[i - 1] < cut[i]
        /\ Piece(cut, i) \subseteq 1..Len(rows)
    BY PieceIsInside
  <2>4. /\ {piece[j].lo : j \in 1..Len(piece)} = {rows[j].lo : j \in Piece(cut, i)}
        /\ {piece[j].hi : j \in 1..Len(piece)} = {rows[j].hi : j \in Piece(cut, i)}
    <3>1. ASSUME NEW j \in Piece(cut, i)
          PROVE  j - cut[i - 1] \in 1..Len(piece) /\ cut[i - 1] + (j - cut[i - 1]) = j
      BY <2>2, <2>3 DEF Piece
    <3>2. ASSUME NEW j \in 1..Len(piece) PROVE cut[i - 1] + j \in Piece(cut, i)
      BY <2>2, <2>3 DEF Piece
    <3> QED BY <2>2, <3>1, <3>2
  <2>5. /\ {rows[j].lo : j \in Piece(cut, i)} = Among(Lo(rows), Piece(cut, i))
        /\ {rows[j].hi : j \in Piece(cut, i)} = Among(Hi(rows), Piece(cut, i))
    BY <2>3 DEF Among
  <2>6. coarse[i] = ReduceAgain(piece)
    BY <2>1 DEF IsCoarser
  <2>7. Lo(coarse)[i] = ReduceAgain(piece).lo /\ Hi(coarse)[i] = ReduceAgain(piece).hi
    BY <2>6
  <2>8. Len(piece) > 0
    BY <2>2, <2>3
  <2> HIDE DEF Lo, Hi
  <2> QED BY <2>2, <2>4, <2>5, <2>7, <2>8, EndsAre
<1>4. Len(coarse) > 0 /\ Len(rows) > 0
  BY DEF IsCut
<1> HIDE DEF Lo, Hi
<1>5. /\ Extreme(ReduceAgain(coarse).lo, Among(Lo(coarse), 1..Len(coarse)), 1)
      /\ Extreme(ReduceAgain(coarse).hi, Among(Hi(coarse), 1..Len(coarse)), -1)
  BY <1>1, <1>2, <1>4, EndsAre
<1>6. /\ Extreme(ReduceAgain(coarse).lo, Among(Lo(rows), 1..Len(rows)), 1)
      /\ Extreme(ReduceAgain(coarse).hi, Among(Hi(rows), 1..Len(rows)), -1)
  <2>1. /\ Lo(rows) \in [1..Len(rows) -> Int] /\ Lo(coarse) \in [1..Len(coarse) -> Int]
        /\ Hi(rows) \in [1..Len(rows) -> Int] /\ Hi(coarse) \in [1..Len(coarse) -> Int]
    BY <1>1, <1>2
  <2>2. Extreme(ReduceAgain(coarse).lo, Among(Lo(rows), 1..Len(rows)), 1)
    <3>1. PICK f, g, k, n, m :
            /\ f = Lo(rows) /\ g = Lo(coarse) /\ k = Len(coarse) /\ n = Len(rows)
            /\ m = ReduceAgain(coarse).lo
      OBVIOUS
    <3>2. /\ f \in [1..n -> Int] /\ g \in [1..k -> Int] /\ IsCut(cut, k, n)
          /\ \A i \in 1..k : Extreme(g[i], Among(f, Piece(cut, i)), 1)
          /\ Extreme(m, Among(g, 1..k), 1)
      BY <1>3, <1>5, <2>1, <3>1
    <3>3. Extreme(m, Among(f, 1..n), 1)
      BY <3>2, ExtremeOfPieces
    <3> QED BY <3>1, <3>3
  <2>3. Extreme(ReduceAgain(coarse).hi, Among(Hi(rows), 1..Len(rows)), -1)
    <3>1. PICK f, g, k, n, m :
            /\ f = Hi(rows) /\ g = Hi(coarse) /\ k = Len(coarse) /\ n = Len(rows)
            /\ m = ReduceAgain(coarse).hi
      OBVIOUS
    <3>2. /\ f \in [1..n -> Int] /\ g \in [1..k -> Int] /\ IsCut(cut, k, n)
          /\ \A i \in 1..k : Extreme(g[i], Among(f, Piece(cut, i)), -1)
          /\ Extreme(m, Among(g, 1..k), -1)
      BY <1>3, <1>5, <2>1, <3>1
    <3>3. Extreme(m, Among(f, 1..n), -1)
      BY <3>2, ExtremeOfPieces
    <3> QED BY <3>1, <3>3
  <2> QED BY <2>2, <2>3
<1>7. /\ Extreme(ReduceAgain(rows).lo, Among(Lo(rows), 1..Len(rows)), 1)
      /\ Extreme(ReduceAgain(rows).hi, Among(Hi(rows), 1..Len(rows)), -1)
  BY <1>2, <1>4, EndsAre
<1>8. /\ Among(Lo(rows), 1..Len(rows)) \in SUBSET Int
      /\ Among(Hi(rows), 1..Len(rows)) \in SUBSET Int
  BY <1>2 DEF Among
<1>9. /\ Min(Among(Lo(rows), 1..Len(rows))) = ReduceAgain(coarse).lo
      /\ Max(Among(Hi(rows), 1..Len(rows))) = ReduceAgain(coarse).hi
  BY <1>6, <1>8, MinIsExtreme, MaxIsExtreme
<1>10. /\ Min(Among(Lo(rows), 1..Len(rows))) = ReduceAgain(rows).lo
       /\ Max(Among(Hi(rows), 1..Len(rows))) = ReduceAgain(rows).hi
  BY <1>7, <1>8, MinIsExtreme, MaxIsExtreme
<1> QED BY <1>9, <1>10

\* create_view_ddl() (schema.rs), of a view that reads a view: however its rows are
\* divided into buckets, what is kept of the buckets' rows is what is kept of the
\* rows themselves; repeated, a day made of hours says what the minutes would.
THEOREM RegroupingIsExact ==
  ASSUME NEW rows \in Rows, NEW coarse, NEW cut, IsCoarser(coarse, rows, cut),
         IsCut(cut, Len(coarse), Len(rows))
  PROVE  ReduceAgain(coarse) = ReduceAgain(rows)
<1>1. /\ ReduceAgain(coarse).sv = ReduceAgain(rows).sv
      /\ ReduceAgain(coarse).n = ReduceAgain(rows).n
  BY SumsRegroup DEF ReduceAgain
<1>2. /\ ReduceAgain(coarse).lo = ReduceAgain(rows).lo
      /\ ReduceAgain(coarse).hi = ReduceAgain(rows).hi
  BY EndsRegroup
<1>3. \A r : ReduceAgain(r) = [lo |-> ReduceAgain(r).lo, hi |-> ReduceAgain(r).hi,
                               sv |-> ReduceAgain(r).sv, n |-> ReduceAgain(r).n]
  BY DEF ReduceAgain
<1> QED BY <1>1, <1>2, <1>3

-----------------------------------------------------------------------------
(* Readings, and the rows the first tier makes of them. *)

\* A reading by itself is a row already.
Single(v) == [lo |-> v, hi |-> v, sv |-> v, n |-> 1]
Singles(values) == [i \in DOMAIN values |-> Single(values[i])]

LEMMA SinglesAre ==
  ASSUME NEW values \in Seq(Int)
  PROVE  /\ Singles(values) \in Rows /\ Len(Singles(values)) = Len(values)
         /\ DOMAIN Singles(values) = 1..Len(values)
         /\ \A i \in 1..Len(values) : Singles(values)[i] = Single(values[i])
<1>1. Len(values) \in Nat /\ DOMAIN values = 1..Len(values)
  OBVIOUS
<1>2. \A i \in 1..Len(values) : Single(values[i]) \in [lo : Int, hi : Int, sv : Int, n : Int]
  BY DEF Single
<1>3. Singles(values) \in [1..Len(values) -> [lo : Int, hi : Int, sv : Int, n : Int]]
  BY <1>1, <1>2 DEF Singles
<1> QED BY <1>1, <1>3 DEF Rows, Singles

\* What the first tier keeps of readings is what a coarser one keeps of them as rows.
LEMMA ReduceIsReduceAgain ==
  ASSUME NEW values \in Seq(Int)
  PROVE  Reduce(values) = ReduceAgain(Singles(values))
<1> DEFINE rows == Singles(values)
<1>1. /\ Len(values) \in Nat /\ DOMAIN rows = 1..Len(values) /\ DOMAIN values = 1..Len(values)
      /\ \A i \in 1..Len(values) :
           /\ rows[i].lo = values[i] /\ rows[i].hi = values[i]
           /\ rows[i].sv = values[i] /\ rows[i].n = 1
  <2>1. /\ Len(values) \in Nat /\ DOMAIN rows = 1..Len(values) /\ DOMAIN values = 1..Len(values)
        /\ \A i \in 1..Len(values) : rows[i] = Single(values[i])
    BY SinglesAre
  <2> HIDE DEF rows
  <2> QED BY <2>1 DEF Single
<1> HIDE DEF rows
<1>2. {r.lo : r \in Range(rows)} = Range(values) /\ {r.hi : r \in Range(rows)} = Range(values)
  BY <1>1 DEF Range
<1>3. [i \in DOMAIN rows |-> rows[i].sv] = values
  <2>1. [i \in DOMAIN rows |-> rows[i].sv] = [i \in 1..Len(values) |-> values[i]]
    BY <1>1
  <2> QED BY <2>1
<1>4. SumOf([i \in DOMAIN rows |-> rows[i].n]) = Len(values)
  <2>1. PICK ones : ones = [i \in 1..Len(values) |-> 1]
    OBVIOUS
  <2>2. [i \in DOMAIN rows |-> rows[i].n] = ones
    BY <1>1, <2>1
  <2>3. ones \in Seq(Int) /\ Len(ones) = Len(values)
    BY <1>1, <2>1, IsColumn
  <2>4. IsPartial([i \in 0..Len(values) |-> i], ones, Len(ones))
    BY <1>1, <2>1, <2>3 DEF IsPartial
  <2>5. SumOf(ones) = [i \in 0..Len(values) |-> i][Len(values)]
    BY <2>3, <2>4, SumIs
  <2> QED BY <1>1, <2>2, <2>5
<1>5. Reduce(values) = ReduceAgain(rows)
  BY <1>2, <1>3, <1>4 DEF Reduce, ReduceAgain
<1> QED BY <1>5 DEF rows

\* create_view_ddl() (schema.rs): however readings are divided into buckets of any
\* occupancy, lowest, highest, sum and count of the buckets' rows are those of the
\* readings, so that the mean a chart divides out of a view is "the exact mean of
\* the underlying readings" (series.rs), not a mean of means.
THEOREM CascadeIsExact ==
  ASSUME NEW values \in Seq(Int), NEW rows \in Rows, NEW cut,
         IsCut(cut, Len(rows), Len(values)),
         \A i \in 1..Len(rows) : rows[i] = Reduce(SubSeq(values, cut[i - 1] + 1, cut[i]))
  PROVE  ReduceAgain(rows) = Reduce(values)
<1>1. PICK all : all = Singles(values)
  OBVIOUS
<1>2. all \in Rows /\ Len(all) = Len(values)
  BY <1>1, SinglesAre
<1>3. ASSUME NEW i \in 1..Len(rows)
      PROVE  rows[i] = ReduceAgain(SubSeq(all, cut[i - 1] + 1, cut[i]))
  <2>1. PICK a, b, some : a = cut[i - 1] /\ b = cut[i] /\ some = SubSeq(values, a + 1, b)
    OBVIOUS
  <2>2. a \in 0..Len(values) /\ b \in 0..Len(values) /\ a < b /\ Len(values) \in Nat
    BY <2>1, PieceIsInside
  <2>3. /\ some \in Seq(Int) /\ Len(some) = b - a
        /\ \A j \in 1..(b - a) : some[j] = values[a + j] /\ a + j \in 1..Len(values)
    <3>1. \A j \in (a + 1)..b : values[j] \in Int
      BY <2>2
    <3>2. a + 1 \in Int /\ b \in Int /\ a + 1 <= b /\ b - (a + 1) + 1 = b - a
      BY <2>2
    <3>3. /\ some \in Seq(Int) /\ Len(some) = b - a
          /\ \A j \in 1..(b - a) : some[j] = values[(a + 1) + j - 1]
      BY <2>1, <3>1, <3>2, SubSeqProperties
    <3>4. \A j \in 1..(b - a) : (a + 1) + j - 1 = a + j /\ a + j \in 1..Len(values)
      BY <2>2
    <3> QED BY <3>3, <3>4
  <2>4. /\ SubSeq(all, a + 1, b) \in Rows /\ Len(SubSeq(all, a + 1, b)) = b - a
        /\ \A j \in 1..(b - a) : SubSeq(all, a + 1, b)[j] = all[a + j]
    <3>1. a \in 0..Len(all) /\ b \in 0..Len(all)
      BY <1>2, <2>2
    <3> QED BY <1>2, <2>2, <3>1, SliceOf
  <2>5. \A j \in 1..(b - a) : Singles(some)[j] = SubSeq(all, a + 1, b)[j]
    BY <1>1, <2>3, <2>4, SinglesAre
  <2>6. Singles(some) = SubSeq(all, a + 1, b)
    <3>1. PICK p, q, n : p = Singles(some) /\ q = SubSeq(all, a + 1, b) /\ n = b - a
      OBVIOUS
    <3>2. p \in Rows /\ q \in Rows /\ Len(p) = n /\ Len(q) = n /\ \A j \in 1..n : p[j] = q[j]
      BY <2>3, <2>4, <2>5, <3>1, SinglesAre
    <3>3. p = q
      BY <3>2 DEF Rows
    <3> QED BY <3>1, <3>3
  <2>7. rows[i] = Reduce(some)
    BY <2>1
  <2> QED BY <2>1, <2>3, <2>6, <2>7, ReduceIsReduceAgain
<1>4. IsCoarser(rows, all, cut)
  BY <1>3 DEF IsCoarser
<1>5. ReduceAgain(rows) = ReduceAgain(all)
  BY <1>2, <1>4, RegroupingIsExact
<1> QED BY <1>1, <1>5, ReduceIsReduceAgain
=============================================================================
