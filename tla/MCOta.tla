------------------------------- MODULE MCOta -------------------------------
(***************************************************************************)
(* Ota on four images, at least one of each kind.                          *)
(***************************************************************************)
EXTENDS Ota

CONSTANTS good, next, mute, deaf   \* the last joins no network, mute no broker

AllImages == {good, next, mute, deaf}
GoodAndMute == {good, next, mute}
GoodAndNext == {good, next}
OnlyGood == {good}
OnlyBattery == {"battery"}
GoodAndDeaf == {good, deaf}
AllProfiles == {"battery", "mains", "lamp"}
AnyWrite == Writes
AnyWriteButConfirm == Writes \ {"confirm"}
NoWrite == {}
=============================================================================
