------------------------------ MODULE WifiJoin ------------------------------
(***************************************************************************)
(* Joining the network: the connection task of src/main.rs with the        *)
(* credentials of src/wifi.rs, the count of refused joins it keeps in RTC  *)
(* RAM (src/state.rs), and the boots between which that count survives     *)
(* (src/reset_reason.rs latch).                                            *)
(*                                                                         *)
(* One action is what the task does between two awaits; a node that sleeps *)
(* may be put to sleep at any of them, when WIFI_BUDGET runs out or the    *)
(* round is done.  Credentials are [ssid, psk] pairs; a network that is up *)
(* lets in the pairs of `network`.                                         *)
(*                                                                         *)
(* A definition marked "slip" is a wrong version of the one below it, kept *)
(* to show that the properties notice it; Next never uses it.              *)
(***************************************************************************)
EXTENDS Joining

Parameters ==
  /\ \A p \in Pairs : DOMAIN p = {"ssid", "psk"} /\ p.ssid # NoSsid
  /\ NoPair \notin Pairs
  /\ StoredPairs \subseteq Pairs \cup {NoPair} /\ BuiltIns \subseteq Pairs
  /\ Networks \subseteq SUBSET Pairs
  /\ Sleeps \subseteq BOOLEAN
  /\ FALLBACK_AFTER \in Nat \ {0}
  /\ MaxCount \in Nat /\ MaxCount > FALLBACK_AFTER

ASSUME WifiJoinAssumption == Parameters

given == <<stored, builtIn, network, sleeps>>
task == <<refusals, radioFailures, joinAttempts, configured>>
vars == <<given, up, rtcRefusals, reason, taskPc, task, controller, wait, rejected>>

Counter == 0..MaxCount
Ssids == {p.ssid : p \in Pairs} \cup {NoSsid}
Up1(n) == IF n < MaxCount THEN n + 1 ELSE n

BACKOFF_MAX_MS == 30000
Waits == 0..BACKOFF_MAX_MS

TypeOK ==
  /\ stored \in StoredPairs /\ builtIn \in BuiltIns
  /\ network \in Networks /\ sleeps \in Sleeps /\ up \in BOOLEAN
  /\ rtcRefusals \in Counter
  /\ reason \in {"none", "power on", "deep sleep", "reset"}
  /\ taskPc \in {"off", "try", "connect", "pause", "joined"}
  /\ refusals \in Counter /\ radioFailures \in Counter /\ joinAttempts \in Counter
  /\ configured \in Ssids
  /\ controller \in Pairs \cup {NoPair}
  /\ wait \in Waits
  /\ rejected \in Counter

-----------------------------------------------------------------------------
(* Waiting: `first`, doubled for every failure after the first, no longer  *)
(* than `max` (src/wifi.rs backoff_ms; a wait starts below its ceiling).   *)

Backoff(failures, first, max) ==
  LET ms[n \in 1..64] ==
        IF n = 1 THEN first ELSE IF ms[n - 1] * 2 >= max THEN max ELSE ms[n - 1] * 2
  IN  ms[IF failures < 1 THEN 1 ELSE IF failures < 64 THEN failures ELSE 64]

RADIO_BACKOFF_FIRST_MS == 500
JOIN_BACKOFF_FIRST_MS == 500
RadioBackoff(failures) == Backoff(failures, RADIO_BACKOFF_FIRST_MS, BACKOFF_MAX_MS)
JoinBackoff(attempts) == Backoff(attempts, JOIN_BACKOFF_FIRST_MS, BACKOFF_MAX_MS)

-----------------------------------------------------------------------------
Init ==
  /\ stored \in StoredPairs /\ builtIn \in BuiltIns
  /\ network \in Networks /\ sleeps \in Sleeps
  /\ up \in BOOLEAN
  /\ rtcRefusals = 0
  /\ taskPc = "off" /\ reason = "power on"
  /\ refusals = 0 /\ radioFailures = 0 /\ joinAttempts = 0
  /\ configured = NoSsid /\ controller = NoPair
  /\ wait = 0
  /\ rejected = 0

\* A boot reaches bring_up_wifi and spawns the task.  latch() keeps the count
\* of refused joins across every reset but a power-on.
Wake ==
  /\ taskPc = "off" /\ reason' = "none"
  /\ rtcRefusals' = IF reason = "power on" THEN 0 ELSE rtcRefusals
  /\ refusals' = rtcRefusals'
  /\ radioFailures' = 0 /\ joinAttempts' = 0
  /\ configured' = NoSsid /\ controller' = NoPair
  /\ wait' = 0
  /\ taskPc' = "try"
  /\ IF reason = "power on" THEN rejected' = 0 ELSE UNCHANGED rejected
  /\ UNCHANGED <<given, up>>

\* slip: the SSID is recorded before the driver has taken it
ConfigureRefusedHasty ==
  /\ taskPc = "try" /\ configured # Chosen.ssid
  /\ radioFailures' = Up1(radioFailures)
  /\ wait' = RadioBackoff(radioFailures')
  /\ configured' = Chosen.ssid
  /\ controller' \in {controller, NoPair}
  /\ taskPc' = "pause"
  /\ UNCHANGED <<given, reason, up, rtcRefusals, refusals, joinAttempts, rejected>>

\* slip: a driver that is busy counts against the credentials
ConfigureRefusedBlaming ==
  /\ taskPc = "try" /\ configured # Chosen.ssid
  /\ radioFailures' = Up1(radioFailures)
  /\ refusals' = Up1(refusals)
  /\ wait' = RadioBackoff(radioFailures')
  /\ configured' = NoSsid
  /\ controller' \in {controller, NoPair}
  /\ taskPc' = "pause"
  /\ UNCHANGED <<given, reason, up, rtcRefusals, joinAttempts, rejected>>

\* set_config said no: busy, out of memory, mid-teardown.  What the driver is
\* left holding is anyone's guess.
ConfigureRefused ==
  /\ taskPc = "try" /\ configured # Chosen.ssid
  /\ radioFailures' = Up1(radioFailures)
  /\ wait' = RadioBackoff(radioFailures')
  /\ configured' = NoSsid
  /\ controller' \in {controller, NoPair}
  /\ taskPc' = "pause"
  /\ UNCHANGED <<given, reason, up, rtcRefusals, refusals, joinAttempts, rejected>>

\* The pair goes to the driver, once per SSID.
Configure ==
  /\ taskPc = "try" /\ configured # Chosen.ssid
  /\ configured' = Chosen.ssid
  /\ controller' = Chosen
  /\ radioFailures' = 0
  /\ taskPc' = "connect"
  /\ UNCHANGED <<given, reason, up, rtcRefusals, refusals, joinAttempts, wait, rejected>>

AlreadyConfigured ==
  /\ taskPc = "try" /\ configured = Chosen.ssid
  /\ taskPc' = "connect"
  /\ UNCHANGED <<given, reason, up, rtcRefusals, task, controller, wait, rejected>>

\* connect_async returned Ok.
JoinOk ==
  /\ taskPc = "connect" /\ up /\ controller \in network
  /\ refusals' = 0 /\ joinAttempts' = 0 /\ rtcRefusals' = 0
  /\ rejected' = 0
  /\ taskPc' = "joined"
  /\ UNCHANGED <<given, reason, up, radioFailures, configured, controller, wait>>

\* slip: the count in RTC RAM is left behind
JoinRefusedUnsaved ==
  /\ taskPc = "connect"
  /\ refusals' = Up1(refusals) /\ joinAttempts' = Up1(joinAttempts)
  /\ wait' = JoinBackoff(joinAttempts')
  /\ rejected' = IF controller = stored THEN Up1(rejected) ELSE rejected
  /\ taskPc' = "pause"
  /\ UNCHANGED <<given, reason, up, rtcRefusals, radioFailures, configured, controller>>

\* connect_async returned an error: a wrong passphrase, an access point that
\* is away, or one that refuses a board it will take a moment later.
JoinRefused ==
  /\ taskPc = "connect"
  /\ refusals' = Up1(refusals) /\ joinAttempts' = Up1(joinAttempts)
  /\ rtcRefusals' = refusals'
  /\ wait' = JoinBackoff(joinAttempts')
  /\ rejected' = IF controller = stored THEN Up1(rejected) ELSE rejected
  /\ taskPc' = "pause"
  /\ UNCHANGED <<given, reason, up, radioFailures, configured, controller>>

\* The timer of either backoff, or of the five seconds after a disconnect.
PauseEnds ==
  /\ taskPc = "pause"
  /\ taskPc' = "try"
  /\ UNCHANGED <<given, reason, up, rtcRefusals, task, controller, wait, rejected>>

\* wait_for_disconnect_async returned.
Disconnect ==
  /\ taskPc = "joined"
  /\ wait' = 5000
  /\ taskPc' = "pause"
  /\ UNCHANGED <<given, reason, up, rtcRefusals, task, controller, rejected>>

\* The end of the round, or of its budget: the task is gone at its await.
Sleep ==
  /\ sleeps /\ taskPc \in {"connect", "pause", "joined"}
  /\ taskPc' = "off" /\ reason' = "deep sleep"
  /\ UNCHANGED <<given, up, rtcRefusals, task, controller, wait, rejected>>

\* A panic, a watchdog, a brownout, or somebody at the plug, who may also find
\* the board asleep.
Reset ==
  /\ \/ taskPc # "off" /\ reason' \in {"power on", "reset"}
     \/ taskPc = "off" /\ reason = "deep sleep" /\ reason' = "power on"
  /\ taskPc' = "off"
  /\ UNCHANGED <<given, up, rtcRefusals, task, controller, wait, rejected>>

AccessPoint ==
  /\ up' = ~up
  /\ UNCHANGED <<given, reason, rtcRefusals, taskPc, task, controller, wait, rejected>>

Configuring == Configure \/ AlreadyConfigured
Answer == JoinOk \/ JoinRefused

Next ==
  \/ Wake \/ Configuring \/ ConfigureRefused \/ Answer
  \/ PauseEnds \/ Disconnect \/ Sleep \/ Reset \/ AccessPoint

Spec == Init /\ [][Next]_vars

(***************************************************************************)
(* The executor runs the task and its timers; a driver asked often enough  *)
(* takes its configuration; a join that is tried often enough is answered, *)
(* and one the network lets in is not refused for ever.                    *)
(***************************************************************************)
Fairness ==
  /\ WF_vars(Wake) /\ WF_vars(PauseEnds) /\ WF_vars(AlreadyConfigured)
  /\ SF_vars(Configure) /\ SF_vars(Answer) /\ SF_vars(JoinOk)

FairSpec == Spec /\ Fairness

\* From some moment on nobody cycles the node's power and the access point
\* stays up.  Sleep and resets go on.
Undisturbed == <>[](reason # "power on") /\ <>[]up

-----------------------------------------------------------------------------
(* Properties. *)

\* Besides what Joining promises: the count outlives the sleep that may follow
\* any await (src/main.rs connection, state::set_join_refusals).
CountSurvivesSleep == taskPc # "off" => rtcRefusals = refusals

\* A node whose compiled-in pair works gets onto the network and back onto it,
\* whatever other network was typed at the console; if what was typed is this
\* network with a wrong passphrase, a node does that sleeps or restarts again and
\* again (src/wifi.rs module header, lines 30 to 38, without that condition).
Rejoins ==
  Undisturbed /\ builtIn \in network /\ (OneSsid => []<>(taskPc = "off"))
    => []<>(taskPc = "joined")

\* The same as that header has it, for a node that stays up as well.  It does not
\* hold: WifiJoinTypo.cfg (src/main.rs connection compares SSIDs only).
RejoinsAwake == Undisturbed /\ builtIn \in network => []<>(taskPc = "joined")
=============================================================================
