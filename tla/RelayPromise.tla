----------------------------- MODULE RelayPromise -----------------------------
(***************************************************************************)
(* What a caller of relayCommand / relayToDevice is promised, without      *)
(* sockets, maps or timers: a call starts, the device may apply the        *)
(* request at some moment or never, and the promise settles once with an   *)
(* outcome that is honest about the device.  A timed-out or offline call   *)
(* says nothing about whether the device applied (or still will apply) it. *)
(***************************************************************************)
CONSTANT Reqs

VARIABLES status, applied

pvars == <<status, applied>>

Unsettled == {"idle", "running"}
Results == {"reply", "device_timeout", "device_offline", "blocked"}

Init ==
    /\ status = [r \in Reqs |-> "idle"]
    /\ applied = {}

Start(r) ==
    /\ status[r] = "idle"
    /\ status' = [status EXCEPT ![r] = "running"]
    /\ UNCHANGED applied

\* The device applies a request at most once, and never one that was refused.
Apply(r) ==
    /\ r \notin applied
    /\ status[r] \notin {"idle", "blocked"}
    /\ applied' = applied \cup {r}
    /\ UNCHANGED status

\* Unsettled calls settle together (a disconnect settles all of a device's).
\* A call that finds the device offline settles as it starts.
SettleAll(R, o) ==
    /\ R # {}
    /\ \A r \in R : status[r] = "running" \/ (status[r] = "idle" /\ o = "device_offline")
    /\ o = "reply" => R \subseteq applied
    /\ o = "blocked" => R \cap applied = {}
    /\ status' = [r \in Reqs |-> IF r \in R THEN o ELSE status[r]]
    /\ UNCHANGED applied

Next ==
    \/ \E r \in Reqs : Start(r) \/ Apply(r)
    \/ \E R \in SUBSET Reqs, o \in Results : SettleAll(R, o)

Spec == Init /\ [][Next]_pvars

\* Every call that has started is settled in the end.
Settles == \A r \in Reqs : status[r] = "running" ~> status[r] \notin Unsettled
=============================================================================
