------------------------------- MODULE Fleet --------------------------------
(***************************************************************************)
(* What the boards can be: the flavors of src/node.rs with the sensors they *)
(* carry and how often each is read, the entities and the controls that     *)
(* src/discovery.rs announces for a flavor, and the message that turns a    *)
(* board into another flavor.  A topic of a node is a pair: the prefix that *)
(* tells two sensors of one quantity apart, and the key.  What names the    *)
(* node in it (namespace and id) is the same in all of them and left out.   *)
(***************************************************************************)
EXTENDS Integers, Sequences, SequencesExt

CONSTANTS
  MAX_ENTITIES, MAX_CONTROLS, MIN_EXPIRY_SECS, MISSED_ROUNDS,
  FAN_PERIOD_SECS    \* how often an air-quality board measures dust: 900

-----------------------------------------------------------------------------
(* node.rs: power profiles, slots and flavors. *)

IsBattery(power) == power = "Battery"
DeepSleeps(power) == power # "Mains"
SleepBackoffCeiling(power) == IF IsBattery(power) THEN 16 ELSE 2

\* sleep_backoff_factor: doubled for every failed round, up to the ceiling.
SleepBackoffFactor(failed, power) ==
  LET ceiling == SleepBackoffCeiling(power)
      factor[i \in 0..32] ==
        IF i = 0 THEN 1
        ELSE LET before == factor[i - 1]
             IN IF before >= ceiling THEN before ELSE 2 * before
      f == factor[IF failed > 32 THEN 32 ELSE failed]
  IN IF f < ceiling THEN f ELSE ceiling

On == [enabled |-> TRUE, prefix |-> "", unprefixed |-> {}, period_secs |-> 0,
       compensated |-> FALSE, nox |-> FALSE]
Off == [On EXCEPT !.enabled = FALSE]
OnAs(prefix) == [On EXCEPT !.prefix = prefix]
Keeping(slot, keys) == [slot EXCEPT !.unprefixed = keys]
Every(slot, secs) == [slot EXCEPT !.period_secs = secs]
WithNox(slot) == [slot EXCEPT !.nox = TRUE]
Compensated(slot) == [slot EXCEPT !.compensated = TRUE, !.nox = FALSE]

PrefixFor(slot, key) == IF key \in slot.unprefixed THEN "" ELSE slot.prefix
StateTopic(prefix, key) == <<prefix, key>>

\* Base rounds from one reading of a slot to its next, rounded up.
RoundsBetween(slot, base_secs) ==
  LET base == IF base_secs = 0 THEN 1 ELSE base_secs
      rounds == (slot.period_secs + base - 1) \div base
  IN IF slot.period_secs = 0 \/ rounds = 0 THEN 1 ELSE rounds

EffectiveSecs(slot, base_secs) ==
  (IF base_secs = 0 THEN 1 ELSE base_secs) * RoundsBetween(slot, base_secs)

NodeConfig(flavor, power, sample_secs) ==
  [flavor |-> flavor, power |-> power, sample_secs |-> sample_secs,
   scale |-> Off, ds18b20 |-> Off, sht31 |-> On, scd41 |-> Off, sds011 |-> Off,
   sgp41 |-> Off, battery |-> Off, lamp |-> Off]

CLIMATE == NodeConfig("climate", "MainsDutyCycled", 120)

CLIMATE_CO2 ==
  [NodeConfig("climate-co2", "Mains", 60) EXCEPT
     !.scd41 = Keeping(OnAs("scd41_"), {"co2"})]

AIR_QUALITY ==
  [NodeConfig("air-quality", "Mains", 60) EXCEPT
     !.scd41 = Keeping(OnAs("scd41_"), {"co2"}),
     !.sds011 = Every(Compensated(On), FAN_PERIOD_SECS),
     !.sgp41 = WithNox(On)]

BIRD_SCALE ==
  [NodeConfig("bird-scale", "Battery", 60) EXCEPT
     !.scale = On, !.battery = OnAs("battery_")]

SOLAR_LAMP ==
  [NodeConfig("solar-lamp", "Battery", 60) EXCEPT
     !.battery = OnAs("battery_"), !.lamp = On]

FLAVORS == {CLIMATE, CLIMATE_CO2, AIR_QUALITY, BIRD_SCALE, SOLAR_LAMP}

\* The build refuses a table that asks for what the hardware cannot do.
BuildAccepts(n) ==
  LET dutyCycled == n.power = "MainsDutyCycled"
      others == {n.scale, n.ds18b20, n.sht31, n.scd41, n.battery}
  IN /\ ~(n.ds18b20.enabled /\ n.battery.enabled)
     /\ n.sds011.compensated => n.sht31.enabled
     /\ \A slot \in others : ~slot.compensated
     /\ dutyCycled => \A slot \in {n.sds011, n.scd41, n.sgp41, n.scale, n.battery} :
                        ~slot.enabled

\* flavor: the table searched by name, no entry for a name it does not know.
Named(name) == {n \in FLAVORS : n.flavor = name}

\* Topics of a node that carry no reading.
OwnTopics == {StateTopic("", "status"), StateTopic("ota/", "version"),
              StateTopic("ota/", "offer"), StateTopic("meta/", "board")}

\* NoOverride stands for a flash slot that does not decode.
CONSTANT NoOverride

\* slip: a board is asked to become what it already is
AlwaysBecomes(value, current, override) ==
  CASE value = "" -> {}
    [] value = "default" -> IF override # NoOverride THEN {NoOverride} ELSE {}
    [] OTHER -> {n.flavor : n \in Named(value)}

\* provision_request: what to write over the override, nothing in most cases.
ProvisionRequest(value, current, override) ==
  CASE value = "" -> {}
    [] value = "default" -> IF override # NoOverride THEN {NoOverride} ELSE {}
    [] OTHER -> {n.flavor : n \in {m \in Named(value) : m.flavor # current}}

\* node::init: a stored flavor this image knows, and otherwise the built one.
Identity(override, built) ==
  IF Named(override) = {} THEN CHOOSE n \in FLAVORS : n.flavor = built
  ELSE CHOOSE n \in FLAVORS : n.flavor = override

-----------------------------------------------------------------------------
(* discovery.rs: entities and controls. *)

SHT31_KEYS == <<"temperature", "humidity">>
SCD41_KEYS == <<"co2", "temperature", "humidity">>
SCALE_KEYS == <<"weight", "visit", "visits">>
BATTERY_KEYS == <<"voltage", "percent">>
RESET_KEYS == <<"reset_reason", "reset_count", "boot_count">>
Sds011Keys(compensated) ==
  <<"pm25", "pm10">> \o IF compensated THEN <<"pm25_raw", "pm10_raw">> ELSE <<>>
Sgp41Keys(nox) == <<"voc_index">> \o IF nox THEN <<"nox_index">> ELSE <<>>

Cut(seq, limit) == SubSeq(seq, 1, IF Len(seq) < limit THEN Len(seq) ELSE limit)

\* entities: every reading the node may publish, cut without a word at the limit.
Entities(n) ==
  LET group(slot, keys) ==
        IF slot.enabled
        THEN [i \in 1..Len(keys) |-> [slot |-> slot, key |-> keys[i]]] ELSE <<>>
  IN Cut(FlattenSeq(<<group(n.scale, SCALE_KEYS), group(n.ds18b20, <<"temperature">>),
       group(n.sht31, SHT31_KEYS), group(n.scd41, SCD41_KEYS),
       group(n.sds011, Sds011Keys(n.sds011.compensated)),
       group(n.sgp41, Sgp41Keys(n.sgp41.nox)), group(n.battery, BATTERY_KEYS),
       group(On, <<"rssi">>), group(On, RESET_KEYS)>>), MAX_ENTITIES)

\* config_payload: the topic Home Assistant reads the entity from.
EntityTopic(entity) == StateTopic(PrefixFor(entity.slot, entity.key), entity.key)

\* slip: expired against the node's round, whatever the slot's own
ExpireForNode(slot, base_secs) ==
  IF MISSED_ROUNDS * base_secs > MIN_EXPIRY_SECS THEN MISSED_ROUNDS * base_secs
  ELSE MIN_EXPIRY_SECS

\* expire_for: three rounds of the slot itself, two minutes at least.
ExpireFor(slot, base_secs) ==
  LET wanted == MISSED_ROUNDS * EffectiveSecs(slot, base_secs)
  IN IF wanted > MIN_EXPIRY_SECS THEN wanted ELSE MIN_EXPIRY_SECS

SCALE_CONTROLS == <<"threshold", "scale_factor", "offset", "tare", "reset_visits">>
BATTERY_CONTROLS == <<"idle_interval", "active_interval", "heartbeat_interval",
                      "night_interval", "night_margin">>
LAMP_CONTROLS == <<"enabled", "lamp_start", "lamp_off">>

\* controls: the knobs that have an effect on this node.
Controls(n) ==
  LET only(wanted, keys) == IF wanted THEN keys ELSE <<>>
  IN Cut(FlattenSeq(<<<<"reannounce">>,
       only(n.scale.enabled, SCALE_CONTROLS),
       only(n.scale.enabled /\ n.sht31.enabled, <<"temp_coeff">>),
       only(n.scd41.enabled, <<"scd41_temp_offset">>),
       only(n.sds011.compensated, <<"sds011_kappa">>),
       only(IsBattery(n.power), BATTERY_CONTROLS),
       only(DeepSleeps(n.power), <<"deep_sleep">>),
       only(n.lamp.enabled, LAMP_CONTROLS)>>), MAX_CONTROLS)

ASSUME FleetAssumption ==
  /\ MAX_ENTITIES \in Nat /\ MAX_CONTROLS \in Nat
  /\ MIN_EXPIRY_SECS \in Nat /\ FAN_PERIOD_SECS \in Nat
  /\ MISSED_ROUNDS \in Nat /\ MISSED_ROUNDS >= 2
  /\ NoOverride \notin {n.flavor : n \in FLAVORS}
  /\ \A n \in FLAVORS : BuildAccepts(n) /\ Named(n.flavor) = {n}
=============================================================================
