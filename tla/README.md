# Smart-home nodes in TLA+

This directory models the firmware of the sensor nodes (`src/*.rs`, Rust on an
ESP32-C3) and the archiver that stores what they publish
(`timeseries/src`).  The modules are translated from the source; `PROJECT.json`
maps every definition to the lines it stands for.  TLC checks the modules on
small instances; TLAPS proves the theorems of the `*Proofs` modules for all
values of the constants.

Paths below are relative to the repository's root; `main.rs` is `src/main.rs`,
and the archiver's files are named with their directory where they could be
mistaken.

## The system

A node wakes or boots, measures, joins the Wi-Fi, publishes one round of
readings to an MQTT broker, reads what Home Assistant has left for it, and goes
back to sleep or waits.  Everything it knows of earlier rounds is in flash
(configuration, identity, credentials, update records) or in RTC RAM, which
survives deep sleep and restarts and is not cleared when power is applied.

| Part | State | Operations | What is hard about it |
| --- | --- | --- | --- |
| Over-the-air update: `ota.rs`, `run_update`, `ota_begin_attempt` | two slots, two selector entries, the pending record (one sector shared with the boot log) | offer, download, activate, attempt, confirm, roll back | power cuts between and inside flash writes; what counts as an attempt; writes that fail |
| Wi-Fi and credentials: `wifi.rs`, `connection` | stored and compiled-in pair; three counters, one of them in RTC RAM | configure, join, back off, fall back | the task is dropped at an await by sleep; a refusal is not a busy driver; what the driver really holds |
| Presence and the sleeping scale: `presence.rs`, `run_battery`, `watch_visit`, `battery.rs` | baseline, presence, four counters and the park flag in RTC RAM | tare, verdict, visit, publish, heartbeat, absorb, park | arbitrary RTC RAM; limits in seconds counted in rounds of changing length; restarts inside a session |
| Broker session: `publish_samples`, `publish`, `retare`, `discovery.rs` | discovery digest and visit count in RTC RAM, configuration in flash; retained messages at the broker | announce, publish, drain, delete presses, re-zero, save | people act at any moment; lost acknowledgements; half-finished announcements; a cap on messages read |
| Sensors: `platform.rs`, `sensors/*`, `run_awake` | rounds and periods, what each driver believes of its sensor, the fan; the sensors themselves, which keep their power when the board restarts | measure in turn, stop and start, self test, tick, publish, wait | one step of several failing and leaving a fan on or a sensor running; a restart in the middle |
| Identity and provisioning: `node.rs` | flavor in flash, a retained message | become another flavor, restart | the message is still there after the restart |
| Lamp: `lamp.rs`, `solar.rs`, `run_lamp` | gate, evening, a clock carried in RAM and written to RTC RAM | gate, publish, resync, end the evening | a dark router must not mean a dark garden; a clock that stands still, lags and jumps |
| RTC RAM and boot diagnostics: `state.rs`, `reset_reason.rs` | latched reset, counts, the boot log | latch, count, record | noise that passes for a history |
| Archiver ingest and writer: `timeseries/src/mqtt.rs`, `questdb/writer.rs` | online flags, a bounded channel, the backlog | bridge, queue, batch, retry, shut down | drops at a limit, flags set before the record is stored |
| Archiver schema and rollups: `questdb/schema.rs`, `rollup.rs`, `series.rs`, `periods.rs`, `web.rs` | the base table's keys and TTL, three cascading views, which views are in use | put in order at a start, re-check, route a chart | views behind, broken or rebuilt; a table that a change would stop |
| Archiver annotations: `questdb/annotations.rs` | rows of notes | write, confirm, take back | a database that answers before it stores; two people at one place |

The parts meet in few places.  `run_battery`, `run_awake` and `run_lamp` each
call `bring_up_wifi`, `ota_begin_attempt`, `publish_samples`, `ota_confirm` and
`install_if_offered` in that order; `note_boot` and the pending record share a
flash sector; a session may change the configuration that sets the length of
every later round; a tare pressed in a session moves the baseline the scale
judges by, and a flavor read in one restarts the node; a restart at any await leaves
RTC RAM and the sensors as they were.  Node and archiver meet at the broker
only, the archiver's halves in the database.

What makes each part correct, and what could go wrong where a test hardly
reaches, is the list of hazards in `PROJECT.json`.

## Modules

### The update: `OtaSelect`, `Ota`, `TrialUpdate`

`OtaSelect` holds the arithmetic of `ota.rs`: which entry is in force, which
slot a sequence number names, the next number for the other slot, what an
attempt decides.  `Ota` is the machine around it.

| `Ota` | code |
| --- | --- |
| `otadata`, `record`, `bootLog`, `slots` | otadata, the pending record and the boot log behind it, the image in each slot |
| `Boot`, `NoteBoot` | the bootloader's choice, `reset_reason::note_boot` |
| `JoinOk`, `JoinTimesOut`, `RadioFails`, `RoundStarts` | `bring_up_wifi` under its budget, and the lamp that goes on without a network |
| `BeginAttempt`, `RollBackSelect`, `RollBackClear` | `ota_begin_attempt` and `ota::roll_back`, one action per flash write |
| `PublishOk`, `PublishFails`, `Confirm` | the round, and `ota_confirm` |
| `StartDownload` ... `ActivateSelect` | `run_update`: each write that a cut can separate |
| `TrialExpires`, `Republish`, `EveningEnds` | a lamp on trial, whose attempt ends by a clock |
| `TearRecord`, `TearSelector`, `PowerCut` | a cut inside a sector rewrite, and between any two steps |

An image is one of four kinds: it works; it works and is newer; it joins and
never completes a round (`mute`); it never joins (`deaf`).  `TrialUpdate` is
what an update promises, in four actions and without a sector or a sequence
number: there is a running image, a fallback, and a trial that is confirmed or
taken back.  `Ota` is checked and proved to implement it (`KeepsPromise`).

### Joining: `Joining`, `WifiJoin`

`Joining` has the state and what is promised of a join, `WifiJoin` the steps:
the task `connection` with its counters of refused joins, radio failures and
join attempts, both backoffs in milliseconds, and `controller`, the pair the
driver really holds (the task remembers only an SSID).  `Sleep` and `Reset` drop
the task at any await and leave a reset reason; `Wake` reads it and clears the
count in RTC RAM after a power-on and after nothing else.

### The scale: `Presence`, `BirdScale`

`Presence` is the arithmetic: the verdict on one reading, the drift of the
baseline, and the conversions of seconds to rounds.  `BirdScale` is
`run_battery`.  A round that weighs and sleeps again is one action; a visit and
a session are steps of their own, because the load can change and the node can
restart while they last.  `since` (time since the last session), `turns` (how
often the light changed since) and `cut` (that session was cut short) are
history: the code does not have them.

### The session: `Session`

One round with the broker.  Retained settings and presses are variables of the
broker that people change at any time; `Announce` sends one discovery message
and waits for its acknowledgement, `ReadSetting`, `ReadTare`, `ReadReannounce`
and `ReadReset` are the four kinds of message of the drain, `Clear` deletes the
presses in the order of the code, `Retare` and `Save` follow when the radio is
done.  `link` says whether what the node sends still arrives: at QoS 0 the node
does not know.  `RoundLost` is the budget, an error or a restart, which all drop
what the round had learned.

### The archive: `Archiver`

The service under `timeseries/src`: `mqtt.rs` follows the broker, a bounded
channel takes its records to `questdb/writer.rs`, which writes them in batches
and keeps what could not be written; `main.rs` starts and stops both.

| `Archiver` | code |
| --- | --- |
| `reading`, `said`, `feed`, `link` | what the broker retains, and the messages on their way to the bridge |
| `ConnAck`, `Subscribe` | the event loop of `mqtt::run`, which subscribes on every connection and gets the retained messages |
| `HandleReading`, `HandleStatus`, `Send` | `mqtt::handle` up to `tx.send`, which waits for room with the record in `hand` |
| `Receive`, `Tick`, `ChannelCloses` | the `select!` of `writer::run`; each ends in `flush` when it must |
| `Written`, `NotWritten` | what becomes of the request; a request that fails may have stored one table, both, or nothing |
| `Start`, `Stop`, `Exit`, `GivesUp`, `Killed` | `main`: seeding the statuses, a signal, the thirty seconds for the last flush; loss of power |
| `readings`, `statuses` | the tables: rows of readings are deduplicated on date and node, rows of statuses are counted |

`given`, `shed`, `blind` and `unheard` are history.  A reading is told apart by the moment
it was `taken`; whether it says so itself (`dated`) decides what a replay of it
is worth.  One channel stands for all channels of a node.  Times of nodes and
server are one logical clock, so a node whose clock is wrong is not modelled.  A
request that is abandoned has been stored, or not, when its process ends.
Deduplication is assumed to be enabled; `schema.rs` asks for it at every start
and only warns when that fails.  Discovery labels, the live cache and the counters of the health page
are left out.

### A board and its sensors: `Fleet`, `Scd41`, `Sgp41`, `Sensors`

`Fleet` is what is fixed per flavor: the five `NodeConfig`s, the checks the build
makes of them, the entities and controls they announce, with which topic and
expiry, and what a provisioning message asks for.  `Scd41` is a driver and its
chip as one record `[d, c]`: each operator is a driver function, applied to both,
given which of its transactions the bus lost or garbled.  `Sgp41` is detection,
conditioning and cadence of the gas sensor.

| `Sensors` | code |
| --- | --- |
| `told`, `override`, `node`, `tuned` | the retained provisioning topic, flavor and offset in flash, `node::ACTIVE` |
| `Begin`, `Probe`, `MeasureSht31`, `MeasureScd41`, `CollectGas` | `collect_samples` and `Sensors::measure_all`, sensor after sensor |
| `FanOn`, `Frame`, `Silence`, `Park` | `Sds011::measure`: `set_work`, `warm_up` frame by frame, `set_work` again |
| `Link`, `Send` | `publish_samples`, up to the retained offset and `apply_provisioning` |
| `Tick` | one second of `wait_for_next_round` |
| `Restarts`, `Reset`, `ScdPowerCut` | a board that starts anew with sensors that do not; a sensor that starts anew with a board that does not |

A lost transaction is one the sensor did not get, an unheard one it did but did
not acknowledge.  `tries` and `unseen` (what Home Assistant has last heard of
dust), `deaf`, `cut`, `stray` and `dropped` are history.

### The lamp: `Evening`, `Lamp`

`Evening` is the arithmetic of `solar.rs` and `lamp.rs`: the sun in fixed point,
the window, the ramps, the charge of the cell, the gate.  `Lamp` is `run_lamp`,
with true time (`now`) apart from the board's clock (`now + err`).

| `Lamp` | code |
| --- | --- |
| `Wake`, `RadioStarts`, `Waits`, `Joins` | the wake-up and `bring_up_wifi`, which has no budget here |
| `FirstRound` | `lamp_resync` and `lamp_publish`, and the question whether the clock means anything |
| `Decide`, `Round` | one pass of the evening's loop: gate, goodbye, publish or wait |
| `Bye` | the goodbye round, resync and `lamp_sleep_secs` |
| `Syncs`, `saved` | `sync_time` and the clock in RTC RAM, behind by the minutes since it was written |

### The rollups: `Charts`, `Rollups`

`Charts` holds the pure part: the ladder of bucket widths, `choose_bucket`,
`snap`, `pick`, the reductions of rows and of buckets, the periods of meters.
`Rollups` composes it with the database.

| `Rollups` | code |
| --- | --- |
| `base`, `status`, `held`, `keys`, `ttl` | the tables of QuestDB: rows arrived, rows each view has aggregated |
| `Start`, `EnsureKeys`, `EnsureTtl`, `MakeView`, `ListViews` | `schema::ensure`, statement by statement |
| `Recheck`, `RecheckFails` | the task in `main` that lists the views every minute |
| `Ask` with `AskSeries`, `AskOverview`, `AskPeriods`, `AskChannels`; `First`, `Second` | `web.rs` handlers with `fetch_series`, `fetch_overview`, `fetch_channels`, `fetch_rows`: the views are read, then the queries go out |
| `Refresh`, `PowerLoss`, `Invalidate`, `Rebuild`, `DropView`, `Skip` | QuestDB and its keeper (external) |

### The notes: `Notes`

Several people write notes and take them back at once.  `Write` and `Update`
are the statements, which the database accepts into a log (`wal`) and applies
later; `Told`, `NotYet`, `Voided` and `StillStanding` are the attempts of
`settle`.  `confirmed` and `gone` are history.

Actions marked "slip" in the modules are plausible mistakes in the action
below them.  No specification uses them; they exist to show that the properties
fail when the code is wrong.

## Runs

| Run | Shows | States |
| --- | --- | --- |
| `ota` | With cuts and one failed write: an image that came over the air and has not proved itself runs only on the record (`UnprovedOnRecord`); the flash implements `TrialUpdate` (`KeepsPromise`); a mute image is taken back (`LeavesMuteImage`). | 162 k |
| `ota_harsh` | The same with cuts that may also erase the record, and with a deaf image: the slot that is selected holds a whole image (`SelectionBootable`), a trial keeps its way back (`TrialHasWayBack`). | 425 k |
| `ota_deaf_image` | **violation** of `LeavesDeafImage`: an image that cannot join is never taken back. | |
| `wifi` | Stored credentials are given up only after three refusals by the network in a row (`AbandonsOnlyRefused`); each join goes to the network the task chose, with the chosen pair unless the two share an SSID (`JoinsWithChosen`); a node whose compiled-in pair works gets back onto its network for ever (`Rejoins`), if what was typed is another network, or if the node sleeps or restarts again and again. | 64 k |
| `bird_safety` | From any RTC RAM, with restarts, an aging cell, dusk and changing settings: presence publishes keep their distance (`RateLimited`), sessions never stop coming (`NeverMute`), a landing is one visit (`CountsOnce`). | 3.9 M |
| `bird_live` | A load that stays becomes the empty state (`Relearns`) and its weight reaches Home Assistant (`CatchesUp`). | 105 k |
| `session` | Presses are not lost (`PressesKept`), a measured zero stays where none was typed (`ZeroStands`), the digest is set only to what the broker holds (`DigestEarned`), a press for discovery has its effect (`Reannounced`) and a setting reaches the flash (`SettingsArrive`). | 388 k |
| `archiver` | With links that break, requests that fail after they were stored, signals, kills and starts that cannot read the database: what was sent is stored, waits, or was dropped with a backlog, and only a failed last write leaves something behind (`Kept`); the backlog is bounded (`BacklogBounded`); a reading is one row (`OncePerReading`); statuses are recorded on change, and twice only after a request that was not answered (`TransitionsOnly`); the dated head of a series and the last status of a node get into the archive (`HeadRecovered`, `StatusSettles`). | 495 k |
| `sensors` | With three faults on any bus, lost power, restarts at any step and messages that make the board another flavor: the driver knows whether the SCD41 measures (`KnowsTheSensor`), a reading was taken with the owner's offset (`OffsetInForce`), the fan stands still between rounds unless its stop was lost, its start failed or the board came up with it running (`FanParked`), dust does not expire (`DustStays`), CO2 and gas come back (`Recovers`, `GasReturns`), a flavor is reached once and for good (`ProvisionSettles`). | 414 k |
| `lamp` | Through evenings of eleven real minutes, with two faults, a dark router and a schedule that moves: a lamp is hardly awake outside its evening (`IdleBounded`), a reset costs the clock one round (`ResetCostsOneRound`), a charged lamp lights again and again (`LightsAgain`). | 227 k |
| `rollups` | With views that break, are rebuilt or dropped, power losses and statements that fail: an answer that shows nothing means that nothing is stored (`NothingHidden`), charts become whole (`ChartsWhole`), a repaired chain of views is read again while rollups are switched on (`RepairedServeAgain`), a start does not stop the ingestion of a damaged table without need (`StaysOpen`). | 663 k |
| `notes` | Two people, one place or two: what was taken back and confirmed is not drawn again (`VoidedStaysGone`), and where a note was confirmed there is one (`ConfirmedIsStored`). | 673 k |

Pure functions are checked against reference definitions by assumptions that
TLC evaluates with these runs.  Those with a theorem are proved of the same
definitions for every value; there the enumerated values show that the statement
says what was meant.

| Module | Assumptions |
| --- | --- |
| `MCWifiJoin` | the backoff doubles to its ceiling (`BackoffDoublesToCeiling`; bounds and monotony for any count of failures in `BackoffStaysInBounds`) |
| `MCSensors` | topics of a flavor are distinct and none means something else (`ReadingsApart`); which board's rounds have room for its readings (`RoomButForDust`); the sleep of a node that fails stretches to a ceiling (`SleepStretches`) |
| `MCLamp` | sunrise, sunset and day of the year against the tests of `solar.rs` (`SolarAgrees`, `DayOfYearAgrees`); night, window and ramps (`NightIsInside`, `WindowInOneDay`, `NoJumps`) and the cell's curve (`ChargeRises`), each of them also a theorem |
| `MCRollups` | buckets fit and cover their window (`BucketsFit`, `SnapCovers`); every bucket is made of whole ones of its tier (`TiersDivide`); a mean of means is the mean, whatever the occupancy (`CascadeExact`); consumption telescopes (`MetersTelescope`); the window of periods is long enough (`WindowLongEnough`).  All but `TiersDivide`, which is over a finite table, and the last are also theorems |

### Where code and words disagree

`ota_deaf_image` is a run: attempts are counted after the network is up, so the
kind of image `ota.rs` names first is the one that is never rolled back.

Each of the following configurations makes TLC print a behaviour, with
`tlc -config X.cfg M`:

* `OtaUnconfirmed.cfg`, `MCOta`: `ota_confirm` logs a failed write and the round
  goes on to install an offer over the fallback of a trial that is still on
  record (`main.rs:2215`).
* `WifiJoinTypo.cfg`, `MCWifiJoin`: the driver is re-configured when the SSID
  changes, not when the pair does, so a mistyped passphrase for the compiled-in
  SSID is never set aside by a node that stays awake (`main.rs:2976`), against
  `wifi.rs:30-38` and `main.rs:2952-2956` (`RejoinsAwake`).  What is checked and
  proved of joins says where this case is an exception: `OneSsid` in `Joining`.
* `BirdCrash.cfg`, `MCBirdScale`: presence arms reset the round counter after
  `publish`, the heartbeat before (`main.rs:1129`, `1193`, `1214` and `1266`), so
  a restart inside a presence publish is followed by another one at once.  The
  light that changes between rounds has a like effect; `RateLimited` excuses
  both, which `Excused` names.
* `SessionTare.cfg`, `MCSession`: the zero in `config/offset` outlives the tare
  (`main.rs:2741`).
* `SensorsFan.cfg`, `MCSensors`: when the command that starts the fan is taken and
  its flush fails, `measure` returns without parking it (`sds011.rs:432-434`),
  while the comment below says that the fan "must never be left running by an
  error path" (438-439).  `NoErrorPathLeavesFan` is `FanParked` without that
  excuse.
* `RollupsOff.cfg`, `MCRollups`: with `rollups = false` "every chart will read the
  base table" (`schema.rs:237`, `timeseries.example.toml:54-56`), but the task of
  every minute lists the views whatever the setting is and puts existing ones
  back into use (`main.rs:88-114`; `OffReadsBase`).
* `SensorsRoom.cfg`, `MCSensors`: an air-quality board has fifteen readings and
  room for fourteen (`platform.rs:61`), against the comment above that line; in a
  round that measures dust and has a link, `rssi` is dropped.
* `LampDusk.cfg`, `MCLamp`: `run_lamp` decides that the evening is not now from
  one clock and asks `lamp_sleep_secs` of another, resynced one
  (`main.rs:890`, `943`); if dusk falls between them the lamp sleeps a day instead
  of a minute.
* `Ota.cfg` with `TornRecords = TRUE`: a cut while the shared sector is rewritten
  leaves an unproved image without a record, and `UnprovedOnRecord` fails.

Others were met while modelling and need no run.

* Archive: `timeseries/README.md:51-60` says that retained readings are skipped
  and that nodes send no timestamps; the code stores those that bring their date
  (`mqtt.rs:352-375`), and `HeadRecovered` rests on that.  Line 41 there says a
  status is stored on change only: a write that was not acknowledged and is
  repeated stores it twice, since `node_status` has no deduplication keys.
  `TransitionsOnly` says that this is the only way: of a row that is there twice
  some request had stored a copy without being answered (`unheard`).  The warning
  in `writer.rs` that a batch is retried "on the next tick" understates it: once
  a batch waits, every further record tries again.  What its comment calls
  "whatever arrived while we were waiting" is always empty (`WriterOrder` in
  `ArchiverProofs`).
* Schema: a retention removed from the settings leaves the old TTL in force
  while the log says that data is kept indefinitely (`schema.rs:107-119`;
  `NeedsTtl`).  A SHOW that merely failed is taken for an old QuestDB and the ALTER goes out
  again, which is why `StaysOpen` excuses `unheard`.  The list of channels from
  a rebuilt, still empty view leaves out channels silent for two days
  (`web.rs:117`), as `NothingHidden` allows.
* Notes: a note is confirmed by any row at its place, so a second one that is
  dropped is reported stored (`annotations.rs:193`); and the errors "it is not
  stored" and "nothing was taken back" also come when the log is merely slow.
* Lamp: the wait for a network has no budget, so a router that is dark at
  wake-up keeps the lamp dark until it returns (`main.rs:781` and
  `docs/solarleuchte.md:585` say otherwise; `LightsAgain` needs `RouterReturns`).
  A divider that says nothing stands for 3700 mV, which is too little to light
  at all, where the comment at `main.rs:693` expects a dimmer evening.  Settings
  that arrive in the goodbye round are dropped.
* Sensors: a stop that is lost leaves the driver refusing and refused until the
  board restarts (`scd41.rs:318`; `deaf` in `KnowsTheSensor` and `Recovers`).  An
  SGP41 whose first answer is garbled is an SGP40 until then; one that falls
  silent keeps publishing its last index (`platform.rs:68`).
* Elsewhere: a stuck load is counted in rounds of `active_secs` although most
  of them last `idle_secs`; a half-failed announcement keeps the old digest; a
  retained offer re-installs the image that was rolled back.

`TransitionsOnly` and `StatusSettles` excuse a node of whose statuses one was
dropped: the flag in the `online` map was set before the record was stored, so
the archive stays behind until the next change or restart.  One line that the
database refused for ever would hold back its whole batch; no such line is
modelled.

### Bounds, and why they are enough

* `Ota`: four sequence numbers past the first cover an update, its rollback and
  the next update in either slot, so both parities of the number and both
  entries; two cuts and one failed write in one behaviour reach every pair of
  writes; `MAX_ATTEMPTS` has its real value.  `MAX_RECORDED_BOOTS` caps a log
  whose content is not modelled.
* `WifiJoin`: the stored pair is another network's, the compiled-in network's with
  a wrong passphrase, or absent; `FALLBACK_AFTER` has its real value and counters stop at eight,
  beyond the fallback and the ceiling of both backoffs.
* `BirdScale`: one unit is about twenty seconds: an idle round is one, a night
  round three, an active one two, the gap three, a heartbeat five, a visit three
  and a parked sleep four (eight in `bird_live`), so each limit is several rounds
  of one length and not of another.  Loads are nothing, a load of no account and two
  visitors of nearly the same weight, so that every verdict and a drift occur.
  `MaxRounds` is where saturating counters stop: at the largest threshold any
  setting computes.  `MaxSince` lies above `MuteBound`.  The light changes at
  most once between two sessions (`MaxTurns`); `NeverMuteHolds` has no such bound.
* `Session`: two discovery messages, so that an announcement can be cut in the
  middle; three deeds of people in a behaviour and one fault; up to four
  messages may be waiting and a round reads three, so the cap bites as twelve
  does in the code.  It must exceed the number of settings by one: with as many
  settings as messages read, a broker that always delivers settings first
  starves every press.  A node with a scale, a cell and an SHT31 has ten
  settings, a name and an offer, which is twelve.
* `Archiver`: one node, a channel of one record, batches of two and a limit of
  three: a batch that failed is joined by one more record before it is dropped,
  so batch and backlog differ, and the channel is full while a request is out.
  Three deeds give a status that changes and returns, or two readings and a
  status; two faults give a lost answer followed by a kill, or a broken link
  followed by a start that cannot read the database.  Rounds of two nodes meet
  only in the channel and in the batch; what the properties say of each node is
  proved for any number of them, except the liveness.
* `Sensors`: a board built as `climate-co2` that may be told `air-quality` and
  back, so that it has an SCD41 all the time, a gas sensor and a fan some of it.
  `SELF_TEST_AFTER` has its real value; three faults are what a streak of empty
  rounds needs, and two what a lost stop and a restart do.  Dust is due every
  second round, so that a turn is missed and counted; two gas ticks between
  rounds, a backoff of two and conditioning of two reach each branch of the
  cadence.  Four frames in a warm-up are one more than must agree.
* `Lamp`: the middle of June, when an evening lasts eleven minutes, with real
  minutes, sun and cutoff; a second schedule begins earlier and ends within it.
  A round lasts no time or two minutes, publishes are three minutes apart, the
  clock is at most one minute ahead and four behind.  `PUBLISH_EVERY`, `RETRY_MIN`
  and `WAIT` are scaled with them.
* `Rollups`: two channels, one of which fell silent long ago, are the least that
  an answer may show one of; all three tiers of `rollup.rs`; two mishaps give a
  broken view under a valid one, or a power loss followed by a SHOW that fails.
  An answer is drawn before anything else happens, since what it is compared
  with is the database it came from.
* `Notes`: three notes and two voids give a note written at the place of one that
  is being taken back, by the same person or the other; two attempts at
  confirming are a first and a last; people and places are symmetric, and
  nothing but invariants is checked.

### Fairness

* `Ota`: weak fairness of the program's own steps (the executor runs), strong
  fairness of `JoinOk` (a network that can be joined is joined often enough)
  and of `TrialExpires` (the lamp's clock runs).  Nothing makes a download
  succeed or an operator publish.
* `WifiJoin`: weak fairness of booting, timers and steps without I/O; strong
  fairness of configuring, of an answer to a join, and of a join the network
  would let in.  `Rejoins` holds once nobody cycles the power any more and the
  access point stays up (`Undisturbed`); sleep and resets go on.
* `BirdScale`: the timer wakes the node and its round runs (weak); an amplifier
  that is asked for ever answers for ever, and a visit is watched to its end
  often enough (strong).
* `Session`: weak fairness of the round alone; faults and deeds are bounded.
* `Archiver`: weak fairness of both tasks, of the start (systemd restarts the
  service, `timeseries/nix/module.nix`) and of the exit; strong fairness of
  `Written`: a database that is asked again and again accepts at last.
* `Sensors`: weak fairness of the loop; the executor has nothing else to do.
* `Lamp`: weak fairness of the program and of a router's return; strong fairness
  of a first round that learns the time, and of a goodbye before dusk that is
  not overtaken by it (the flaw of `LampDusk.cfg` does not happen every evening).
* `Rollups`: weak fairness of a start (the supervisor), of each statement, of the
  minute's tick, of a request's steps and of each view's refresh.  Nothing
  makes anybody repair a broken view.

## Proofs

| Theorem | Says, for all constants |
| --- | --- |
| `OtaProofs!TypeCorrect` | `TypeOK`, whichever writes are cut or refused |
| `OtaProofs!AlwaysBootable`, `AlwaysAWayBack` | `SelectionBootable`, `TrialHasWayBack`, if a confirmation is never refused by the flash |
| `OtaProofs!UnprovedIsOnRecord`, `Implements` | `UnprovedOnRecord`, `KeepsPromise`, if besides that a cut cannot erase the record |
| `OtaProofs!RunningSlotIsSafe`, `SelectorClimbs` | `RunningSlotNeverWritten` and `SelectorOnlyClimbs`, which no run checks, whatever the faults |
| `LampWifiProofs!OnlyRefusalsCount`, `JoinsAreAsChosen` | `AbandonsOnlyRefused`, `JoinsWithChosen`, for any credentials; the properties themselves except two passphrases for one SSID |
| `LampWifiProofs!JoinTypeCorrect`, `BackoffStaysInBounds` | WifiJoin's `TypeOK`, for any credentials; a wait between half a second and half a minute, never shorter for one more failure |
| `LampWifiProofs!TypeCorrect`, `LittleIdling`, `ResetIsCheap` | Lamp's `TypeOK`, `IdleBounded`, `ResetCostsOneRound`, for any season, schedules, cell and lengths of a round |
| `LampWifiProofs!WindowWithinADay`, `NightIsTheInside`, `EveningNeverJumps`, `ChargeFollowsTheCell` | the window of an evening, the night, the brightness of every minute and of every voltage, for every day and schedule |
| `BirdScaleProofs!TypeCorrect`, `RateLimitHolds`, `LandingCountsOnce` | `TypeOK`, `RateLimited`, `CountsOnce`, if a parked sleep is longer than the gap |
| `BirdScaleProofs!NeverMuteHolds` | `NeverMute`, if besides that a round counter can hold as many rounds as a heartbeat has seconds (both are `u32`) |
| `SessionProofs!TypeCorrect`, `NoPressIsLost`, `MeasuredZeroStands`, `DigestIsEarned` | `TypeOK`, `PressesKept`, `ZeroStands`, `DigestEarned`, whatever the faults and the cap on the drain |
| `ArchiverProofs!TypeCorrect`, `BacklogHolds`, `ReadingsOnce`, `NothingVanishes`, `ChangesOnly` | `TypeOK`, `BacklogBounded`, `OncePerReading`, `Kept`, `TransitionsOnly`, for finitely many nodes and whatever fails |
| `SensorsProofs!TypeCorrect`, `SensorIsKnown`, `OffsetIsInForce`, `FanIsParked`, `DustIsFresh` | `TypeOK`, `KnowsTheSensor`, `OffsetInForce`, `FanParked`, `DustStays`, for any flavors on mains, faults and restarts |
| `RollupsProofs!TypeCorrect`, `NothingIsHidden`, `TableStaysOpen` | `TypeOK`, `NothingHidden`, `StaysOpen`, for any feed and mishaps |
| `RollupsProofs!WindowIsCovered`, `BucketsAlwaysFit` | `snap` and `choose_bucket`, for any window, width and number of points |
| `RollupsProofs!CascadeIsExact`, `RegroupingIsExact` | rollups of rollups say what the readings would, for readings of any number in buckets of any occupancy, tier upon tier |
| `RollupsProofs!ConsumptionTelescopes` | what a meter used in the periods shown, for any rows |
| `NotesProofs!TypeCorrect`, `TakenBackForGood`, `ConfirmedMeansStored` | `TypeOK`, `VoidedStaysGone`, `ConfirmedIsStored`, for any people and places |

`OtaProofs` rests on an inductive invariant.  Bootability is not inductive: that
the slot named by the selector is whole depends on which slot a download writes,
so the invariant says for each value of `pc` what is known of both slots, the
record and the sequence numbers (while a download runs the record is empty or
about a number not in force; between the two writes of an activation the record
speaks of the number to come; on trial the record's number is the one in force
and the other slot is whole).  The refusals that are excluded are exactly the
ones `OtaUnconfirmed.cfg` and the torn record show to matter.

`LampWifiProofs` holds the proofs of `Lamp` and of `WifiJoin`, which it
instantiates over the constants and variables of `Joining`, apart from the lamp's.  For the join it
carries that the driver holds the active or the compiled-in pair, whichever has the
SSID the task believes configured (`DriverHoldsIt`), that this is the SSID it would
choose whenever it joins (`TriesChosen`), and that the count in RTC RAM and the refusals there were
are equal or both at the threshold, unless the SSID is shared
(`RefusalsAreRejections`).  `WifiJoinTypo.cfg` shows what happens in the case that
both leave out.  The lamp's invariant is `LampInv`: it is awake for
nothing before its loop, and at most for a round or a tick within it once the
evening is over (`AwakeForALittle`); and the clock in RTC RAM was last written when
the last round began (`WrittenEveryRound`).  What is said of an evening rests on the table of sines:
sunrise lies in 196..443 and sunset in 924..1177, the extremes of the table,
because interpolation never leaves the interval between its points (`Lerps`), so no
window a slider can ask for reaches midnight.

Where something is shown for a table, a count or a sequence of any length, the
argument is by the least counterexample: `LeastNumber` gives every set of numbers
a least member, and the members below it are good.  A recursive function is first
shown to have a solution, then to have no other (`WaitsDouble`, `NoOtherDoubles`
for the backoff; `PartialSumsExist`, `SumIs` for a sum).  With these,
`CascadeIsExact` needs three facts about a division into pieces, none empty:
every row lies in one (`PieceOfRow`), the extreme of the pieces' extremes is the
extreme (`ExtremeOfPieces`), and the sum of their sums is a difference of partial
sums, which telescopes (`SumOfPieces`).

`BirdScaleProofs` has three conjuncts and a stopwatch.  `Typed` bounds the baseline by the loads
there were, through every drift.  `Rated` says that the rounds counted since the
last session, times the length of a round now, do not exceed the time passed:
that product survives a counted round because the light and the settings stand
still in between (where they do not, `Excused` says so), a session because the
count starts anew, and a parked session, which leaves the count alone, because
the sleep after it is longer than the gap (`Scale`; three hours against sixty
seconds in the code).  `Landing` says that whatever would be judged an arrival
has not been counted yet, and that no drift, adoption or setting makes a counted
load look like one.  `Heard`, for `NeverMute`, takes apart the time since the last
session: rounds by day and rounds in the dark, neither of which make up a
heartbeat, visits, and a few long sleeps.  A visit is followed by a round that
counts, up to the number of rounds for which the radio may be held back
(`HeldBack`), and after that by a session, except for one that a restart cuts short
and one whose load turned out to be stuck.

`SessionProofs` has one conjunct and one lemma for each thing a round must not
forget: a press that was read has had its effect before it is deleted
(`ReadIsHandled`), all messages below `at` are with the broker while the link
stands (`Announced`), and where no zero is retained the round works on the one
in flash until it re-zeroes (`ZeroHeld`).

`ArchiverProofs` needs three arguments.  The one for the backlog is about order:
what is buffered is either with the writer or in the request (`WriterOrder`),
and between two requests there is room for one more line (`RoomForOne`).  The
one for readings is about dates (`Dating`): a reading that says when it was
taken has that date in every record of it and nobody else has it
(`DatedKeepDate`); one that does not is dated with a moment that is new, and is
handled once, because a replay of it is passed over (`HandledOnce`).  So no two
records of a node share a date or a moment (`OneRecord`).  That is
`OncePerReading`, and it is also what `Kept` needs: deduplication replaces a row
by itself and by nothing else.  The one for statuses (`StatusInv`) is about
order again: a node's statuses go from the bridge's hand through the channel
and the batch to the table in the order of their dates (`Ordered`), of a batch
that is sent again the table has nothing later than what it lacks, and all of
them together change at every step (`Good`).  So what is stored when a process
ends is a beginning of a sequence of changes, and the next start continues it,
because the latest row is the only one of its date (`LatestIsLast`).
That a row is stored twice only after a request that was not answered is a matter
of copies (`StoredOnce`): any other status that is in the table is there once and
no longer waits to be written.

`SensorsProofs` has three arguments.  What the driver believes of the SCD41 goes
together with what the sensor is (`Co2Inv`): a driver that takes it for idle is
right unless a stop was lost, an offset noted as written is in the register
unless the sensor alone lost power; each driver function is shown to keep both
for every way its transactions may end.  The fan is on outside a warm-up only if
no driver meant it to be, or if its start was taken and not acknowledged (`FanInv`).  And the silence of dust is counted against
the board's turn in the sensor's period (`DustInv`): after a success it is one
round behind the turn, after one failure one period more, and a restart goes
back to the round that measures; two periods are less than the expiry because
that is at least twice the period in seconds (`ExpiryIsLater`).

`RollupsProofs` carries that a request holds rows of the base table only, and
that one routed to a view asks the base table before it says that there is
nothing; a change of the table's structure is sent only where one was due or the
database did not answer.  `NotesProofs` carries where each note is, on its way to
the log, in the log or in the table, and nowhere twice (`Apart`): a row stays and
is never unvoided, so what a call to void has found at its place is still there
when it finds nothing standing, and is voided (`AimsAreRows`, `GoneAreVoided`).

Every safety invariant and every action property that a run checks is stated by
one of these theorems.  Only model-checked: all liveness, and the assumptions about
pure functions that have no theorem: sunrise and the day of the year against the
tests' dates, the topics and the room of the boards' rounds, the sleep of a node
that fails, the division of tiers and the window of periods.

## Not modelled

Formatting, parsing, checksums, conversions and pin timing; the HTTP transfer
(one outcome: the image is whole or not); NTP packets (a sync is answered or
not); the broker's will and the availability topic; old timestamped tares.

Of the sensors: the SCD41's single-shot mode, the SHT31's second address, the
DS18B20, what the readings are, the seconds between gas ticks.  Of the
stay-awake loop: a scale on mains, the switch that allows deep sleep.  Of the
lamp: the breath between two gates, the brightness slider, updates (they are
`Ota`'s), the change of season within a behaviour.  Of the archiver: discovery
labels and the live cache, the TTLs of views and of the status table, the tiles of
latest values, the health page, the floor plan.  The enclosures and the browser
front end hold no behaviour of the system.

## Plan

What is left, in the order of what it would add:

1. Boot diagnostics (`reset_reason.rs`: which reset counts as which, a crash loop)
   and the console that stores credentials.
2. The node without a load cell and `run_awake` as callers of the session, with
   the backoff of rounds that fail; today `Session` is a single round.
3. The median window of the scale against a reference definition.
4. Hazards that have no property yet: rounds counted at the active length
   (`main.rs:1601`), a watchdog that is fed while one await never returns
   (`main.rs:377`).
5. Theorems about the pure functions that have none, and liveness by hand where a
   ranking would make it an invariant.
