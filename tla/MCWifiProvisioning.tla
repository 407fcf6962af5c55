-------------------------- MODULE MCWifiProvisioning --------------------------
(* Two networks, three changes of network and two restarts.                  *)
EXTENDS WifiProvisioning

CONSTANTS home, other

MCNetworks == {home, other}
=============================================================================
