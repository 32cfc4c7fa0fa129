------------------------------ MODULE Joining ------------------------------
(***************************************************************************)
(* The connection task of src/main.rs between two awaits: what it may be   *)
(* given, what it remembers, which credentials it goes by, and what is     *)
(* promised of a join.  What happens is in WifiJoin.                       *)
(***************************************************************************)
EXTENDS Integers

CONSTANTS
  Pairs,            \* the credentials considered
  NoPair,           \* nothing stored, or a stored pair that names nothing
  NoSsid,           \* the controller has not been configured
  StoredPairs,      \* what flash may hold: a subset of Pairs and NoPair
  BuiltIns,         \* what the image may have been compiled with
  Networks,         \* the sets of pairs the access point may let in
  Sleeps,           \* {TRUE} a node that deep-sleeps, {FALSE} one that stays up
  FALLBACK_AFTER,
  MaxCount          \* bound: where the counters (u32 in the code) stop

VARIABLES
  stored, builtIn, \* flash and image, fixed
  network,         \* the pairs the access point lets in, fixed
  sleeps,          \* the power profile, fixed
  up,              \* whether the access point answers
  rtcRefusals,     \* RTC RAM: state::join_refusals
  reason,          \* why the board is off: none while it is up
  taskPc,          \* off, try, connect, pause, joined
  refusals, radioFailures, joinAttempts, \* the task's three counters
  configured,      \* the SSID the task believes it configured
  controller,      \* the pair the driver really holds
  wait,            \* the pause the task last asked for, in ms
  rejected         \* history: refusals of the stored pair since a join or power-on

\* wifi::resolve: a stored pair that names a network wins.
Active == IF stored # NoPair THEN stored ELSE builtIn

\* The net: a pair refused often enough gives way to the compiled-in one.
Chosen == IF refusals >= FALLBACK_AFTER THEN builtIn ELSE Active

\* The stored pair mistypes the passphrase of the compiled-in network, or the
\* other way round.  The task remembers only an SSID, so that a driver which holds
\* one of the two is not given the other until the task begins anew.
OneSsid == stored # NoPair /\ stored # builtIn /\ stored.ssid = builtIn.ssid

-----------------------------------------------------------------------------
(* Promises. *)

\* Good stored credentials are abandoned only after FALLBACK_AFTER refusals of
\* them by the network in a row, never because the driver was busy
\* (src/main.rs connection: "folding driver errors into the first one ...").
\* Not said of two pairs with one SSID: after a join with the compiled-in one the
\* driver keeps it, whatever the count says.
AbandonsOnlyRefused ==
  taskPc = "connect" /\ stored # NoPair /\ controller # stored /\ ~OneSsid
    => rejected >= FALLBACK_AFTER

\* What a join is tried with is the network the task chose, with a passphrase
\* that was stored or compiled in: the one that goes with it, unless both pairs
\* name this network.  A refused configuration is retried and not assumed
\* (src/main.rs connection: "Only once it took ...").
JoinsWithChosen ==
  taskPc = "connect" =>
    /\ controller \in {Active, builtIn} /\ controller.ssid = Chosen.ssid
    /\ ~OneSsid => controller = Chosen
=============================================================================
