---------------------------- MODULE MCDeviceRelay ----------------------------
(* A small instance of DeviceRelay: two connections of one device that may  *)
(* follow or supersede one another, one channel-state command and one other *)
(* request.                                                                 *)
EXTENDS DeviceRelay

CONSTANTS d1, s1, s2, r1, r2

MCDevices == {d1}
MCSockets == {s1, s2}
MCDeviceOf == [s \in Sockets |-> d1]
MCReqs == {r1, r2}
MCTargetOf == [r \in Reqs |-> d1]
MCGuarded == {r1}
=============================================================================
