---------------------------- MODULE MCBirdScale -----------------------------
(* BirdScale in units of about twenty seconds: an idle round lasts one, a   *)
(* night round three, and the radio may be asked for every three.           *)
EXTENDS BirdScale

Setting(i, n, a, h, t) ==
  [idle |-> i, night |-> n, active |-> a, heartbeat |-> h, threshold |-> t]

OneSetting == {Setting(1, 3, 2, 5, 4)}
TwoSettings == OneSetting \cup {Setting(2, 0, 1, 4, 3)}

\* Empty, a load of no account, and two visitors of nearly the same weight.
FourLoads == {0, 2, 5, 6}
TwoLoads == {0, 6}
GoodCell == {"good"}
SomeCells == {"good", "low", "flat"}
Dusk == BOOLEAN
Daylight == {FALSE}
=============================================================================
