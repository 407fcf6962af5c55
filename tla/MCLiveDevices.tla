----------------------------- MODULE MCLiveDevices -----------------------------
(* Two channels, so that the rollback of one tile meets news of the other.    *)
EXTENDS LiveDevices

CONSTANTS c1, c2

MCChannels == {c1, c2}
=============================================================================
