----------------------------- MODULE MCWifiJoin -----------------------------
(* WifiJoin for a home network, another one, and a passphrase with a typo. *)
EXTENDS WifiJoin

Home == [ssid |-> "home", psk |-> "right"]
Typo == [ssid |-> "home", psk |-> "wrong"]
Other == [ssid |-> "other", psk |-> "right"]

AllPairs == {Home, Typo, Other}
AnyStored == {Other, Typo, NoPair}
HomeOnly == {Home}
TypoOnly == {Typo}
OtherOnly == {Other}
OneOrBoth == {{Home}, {Other}, {Home, Other}}
HomeNetwork == {{Home}}
Either == BOOLEAN
Awake == {FALSE}

\* Each further failure doubles the wait, from half a second to half a minute,
\* and past sixty failures it neither wraps nor grows (src/wifi.rs backoff_ms).
ASSUME BackoffDoublesToCeiling ==
  \A n \in 1..70 :
    JoinBackoff(n) = IF n <= 6 THEN JOIN_BACKOFF_FIRST_MS * 2 ^ (n - 1) ELSE BACKOFF_MAX_MS
=============================================================================
