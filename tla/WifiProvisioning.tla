--------------------------- MODULE WifiProvisioning ---------------------------
(***************************************************************************)
(* The WiFi side of an ESP8266 (firmware-esp8266/src/wifi_provisioning.cpp *)
(* and the restarts of recovery_button.cpp): joining the stored network at *)
(* boot, the setup hotspot, the deferred test of a new network with its    *)
(* rollback, the background retry of the stored network and the scan that  *)
(* borrows the station interface.                                          *)
(*                                                                         *)
(* A network is a name with its password; it is in reach when its router   *)
(* is on and the password right.  The firmware is one loop: a pass is the  *)
(* composition of its blocks, each a function of the device, with the      *)
(* timers found due in that pass as its inputs.  The SDK's own part, the   *)
(* operators SetMode, Begin and the action Associate, is modelled from how *)
(* the firmware uses it.                                                   *)
(***************************************************************************)
EXTENDS Naturals

CONSTANTS
    Networks,       \* networks a user may enter
    None,           \* no network
    MaxRequests,    \* bound: changes of network asked for
    MaxRestarts     \* bound: restarts

ASSUME WifiAssumption ==
    /\ None \notin Networks
    /\ MaxRequests \in Nat /\ MaxRestarts \in Nat

VARIABLES
    dev,        \* the device: see Devices
    reach,      \* networks that can be joined now
    good,       \* history: the network the firmware was last connected to
    cut,        \* history: a restart fell into a test
    asked, restarted    \* bounded counters

bounds == <<asked, restarted>>
vars == <<dev, reach, good, cut, bounds>>

Stored == Networks \cup {None}
Modes == {"ap", "sta", "apsta"}

\* state: WifiReconfigState; armed: s_deferArmed; pending, prev: s_pending..., s_previous...;
\* retry: s_apRetryState is Testing; scan: not running, running, running with the mode flipped;
\* mode: WiFi.getMode(); conf: the network the SDK keeps in flash; up: WL_CONNECTED.
Devices == [state : {"idle", "testing", "connected", "failed"}, armed : BOOLEAN,
            pending : Stored, prev : Stored, retry : BOOLEAN,
            scan : {"no", "running", "flipped"}, mode : Modes, conf : Stored, up : BOOLEAN]

\* The station is up only on a stored network that can be joined, with its interface on;
\* a test has a candidate and a retry a stored network.
TypeOK ==
    /\ dev \in Devices /\ reach \subseteq Networks /\ good \in Stored /\ cut \in BOOLEAN
    /\ asked \in 0..MaxRequests /\ restarted \in 0..MaxRestarts
    /\ dev.up => dev.mode # "ap" /\ dev.conf \in reach
    /\ dev.armed => dev.pending # None
    /\ dev.retry => dev.conf # None

-----------------------------------------------------------------------------
(* The SDK.                                                                *)

\* WiFi.mode: without the station interface there is no link.
SetMode(d, m) == [d EXCEPT !.mode = m, !.up = d.up /\ m # "ap"]

\* WiFi.begin(network): stores it (persistent), turns the station interface on
\* and leaves the network that was joined before.
Begin(d, n) ==
    [d EXCEPT !.conf = n, !.mode = IF @ = "ap" THEN "apsta" ELSE @, !.up = @ /\ d.conf = n]

\* The station joins the stored network, by itself (setAutoReconnect).
Joinable == dev.mode # "ap" /\ dev.conf \in reach /\ ~dev.up

Associate ==
    /\ Joinable /\ dev' = [dev EXCEPT !.up = TRUE]
    /\ UNCHANGED <<reach, good, cut, bounds>>

NetworkUp(n) ==
    /\ n \notin reach /\ reach' = reach \cup {n}
    /\ UNCHANGED <<dev, good, cut, bounds>>

NetworkDown(n) ==
    /\ n \in reach /\ reach' = reach \ {n}
    /\ dev' = [dev EXCEPT !.up = @ /\ dev.conf # n]
    /\ UNCHANGED <<good, cut, bounds>>

-----------------------------------------------------------------------------
(* wifiProvisioningBegin.                                                  *)

Booted(n) ==
    [state |-> "idle", armed |-> FALSE, pending |-> None, prev |-> None, retry |-> FALSE,
     scan |-> "no", mode |-> "ap", conf |-> n, up |-> FALSE]

\* The stored network is joined within 20 seconds, or the hotspot opens.
Boots(n) ==
    {Booted(n)} \cup
    {d \in {[Booted(n) EXCEPT !.state = "connected", !.mode = "sta", !.up = TRUE]} : n \in reach}

Learned(d) == IF d.up THEN d.conf ELSE good

Restart ==
    /\ restarted < MaxRestarts /\ restarted' = restarted + 1
    /\ dev' \in Boots(dev.conf)
    /\ good' = IF dev'.up THEN dev.conf ELSE good
    /\ cut' = (cut \/ (dev.state = "testing" /\ ~dev.armed))
    /\ UNCHANGED <<reach, asked>>

\* The stored network is erased too.
FactoryReset ==
    /\ restarted < MaxRestarts /\ restarted' = restarted + 1
    /\ dev' = Booted(None) /\ good' = None /\ cut' = FALSE
    /\ UNCHANGED <<reach, asked>>

-----------------------------------------------------------------------------
(* Requests, handled between two passes of the loop.                       *)

\* Mutant: a second request is not refused while the first is being tested.
ReconfigAnyway(n) ==
    /\ asked < MaxRequests /\ asked' = asked + 1
    /\ dev' = [dev EXCEPT !.prev = dev.conf, !.pending = n, !.state = "testing", !.armed = TRUE]
    /\ UNCHANGED <<reach, good, cut, restarted>>

\* wifiProvisioningRequestReconfig; the test itself is deferred by DEFER_MS.
RequestReconfig(n) ==
    /\ asked < MaxRequests /\ asked' = asked + 1
    /\ dev.state # "testing"
    /\ dev' = [dev EXCEPT !.prev = dev.conf, !.pending = n, !.state = "testing", !.armed = TRUE]
    /\ UNCHANGED <<reach, good, cut, restarted>>

\* startScan.
StartScan ==
    /\ dev.scan = "no" /\ dev.state # "testing"
    /\ dev' = IF dev.mode = "ap" THEN [dev EXCEPT !.scan = "flipped", !.mode = "apsta"]
                                 ELSE [dev EXCEPT !.scan = "running"]
    /\ UNCHANGED <<reach, good, cut, bounds>>

-----------------------------------------------------------------------------
(* wifiProvisioningLoop, block by block.                                   *)

Online(d) == SetMode([d EXCEPT !.state = "connected"], "sta")

\* collectScanIfDone.
Collect(d, done) ==
    LET ended == [d EXCEPT !.scan = "no"]
    IN  IF d.scan = "no" \/ ~done THEN d
        ELSE IF d.scan = "flipped" /\ d.up THEN Online(ended)
        ELSE IF d.scan = "flipped" /\ d.state # "testing" /\ ~d.retry THEN SetMode(ended, "ap")
        ELSE ended

Deferred(d, due) == d.armed /\ d.scan = "no" /\ due

\* The deferred test begins.
Defer(d, due) ==
    IF Deferred(d, due)
    THEN Begin(SetMode([d EXCEPT !.armed = FALSE, !.state = "testing"], "apsta"), d.pending)
    ELSE d

\* The test ends. A test that is still deferred is judged by the start of the
\* one before it, so that its time may be over at once.
Test(d, over) ==
    IF d.state # "testing" THEN d
    ELSE IF d.up THEN Online(d)
    ELSE IF ~over THEN d
    ELSE IF d.prev = None THEN [d EXCEPT !.state = "failed"]
    ELSE Begin([d EXCEPT !.state = "failed"], d.prev)

\* Back on the previous network.
Back(d) ==
    IF d.state = "failed" /\ d.prev # None /\ d.mode = "apsta" /\ d.up THEN SetMode(d, "sta") ELSE d

RetryDue(d, due) ==
    /\ ~d.retry /\ d.state # "testing" /\ d.scan = "no" /\ d.mode = "ap" /\ d.conf # None /\ due

\* Mutant: a retry that ends takes the station interface from a test.
RetryCloses(d, due, over) ==
    IF RetryDue(d, due) THEN Begin(SetMode([d EXCEPT !.retry = TRUE], "apsta"), d.conf)
    ELSE IF ~d.retry THEN d
    ELSE IF d.up THEN Online([d EXCEPT !.retry = FALSE])
    ELSE IF ~over THEN d
    ELSE SetMode([d EXCEPT !.retry = FALSE], "ap")

\* Mutant: a retry that ran out of time is not reset.
RetryOnce(d, due, over) ==
    IF RetryDue(d, due) THEN Begin(SetMode([d EXCEPT !.retry = TRUE], "apsta"), d.conf)
    ELSE IF ~d.retry THEN d
    ELSE IF d.up THEN Online([d EXCEPT !.retry = FALSE])
    ELSE IF ~over THEN d
    ELSE IF d.state # "testing" THEN SetMode(d, "ap") ELSE d

\* The stored network is tried from the hotspot, every AP_RETRY_INTERVAL_MS.
Retry(d, due, over) ==
    IF RetryDue(d, due) THEN Begin(SetMode([d EXCEPT !.retry = TRUE], "apsta"), d.conf)
    ELSE IF ~d.retry THEN d
    ELSE IF d.up THEN Online([d EXCEPT !.retry = FALSE])
    ELSE IF ~over THEN d
    ELSE IF d.state = "testing" THEN [d EXCEPT !.retry = FALSE]
    ELSE SetMode([d EXCEPT !.retry = FALSE], "ap")

\* A pass: scan is over, deferral is over, test ran out of time, retry is due,
\* retry ran out of time. A test is not over in the pass that began it.
Pass(scanned, deferred, late, due, retried) ==
    LET collected == Collect(dev, scanned)
        begun == Deferred(collected, deferred)
        tested == Test(Defer(collected, deferred), late /\ ~begun)
    IN  Retry(Back(tested), due, retried)

Loop(scanned, deferred, late, due, retried) ==
    /\ dev' = Pass(scanned, deferred, late, due, retried)
    /\ good' = Learned(dev') /\ UNCHANGED <<reach, cut, bounds>>

-----------------------------------------------------------------------------

Init ==
    /\ reach \in SUBSET Networks
    /\ dev = Booted(None) /\ good = None /\ cut = FALSE
    /\ asked = 0 /\ restarted = 0

Next ==
    \/ Associate \/ Restart \/ FactoryReset \/ StartScan
    \/ \E n \in Networks : NetworkUp(n) \/ NetworkDown(n) \/ RequestReconfig(n)
    \/ \E scanned, deferred, late, due, retried \in BOOLEAN :
           Loop(scanned, deferred, late, due, retried)

\* The loop runs for ever and every timer is found due now and then; a station
\* that again and again may join its network joins it in the end.
Fairness ==
    /\ WF_vars(Loop(TRUE, TRUE, TRUE, TRUE, TRUE))
    /\ SF_vars(Associate)

Spec == Init /\ [][Next]_vars /\ Fairness

-----------------------------------------------------------------------------

\* A device that was once on a network never forgets it for one that did not
\* work: what the SDK keeps is the network it was last on, or a candidate whose
\* test is under way with that network kept for the rollback. A restart in the
\* middle of a test is the exception (wifi_provisioning.cpp:250-271, 359-368).
KeepsWorkingNetwork ==
    good # None /\ ~cut =>
        \/ dev.conf = good
        \/ dev.state = "testing" /\ ~dev.armed /\ dev.prev = good

\* The hotspot the user typed the new network on stays up while it is tested:
\* neither the retry nor a scan takes the radio from the test
\* (wifi_provisioning.cpp:283-288, 309-315).
TestKeepsHotspot == dev.state = "testing" /\ ~dev.armed => dev.mode = "apsta"

\* With its stored network in reach for good, a device ends up on it with the
\* hotspot off, whatever a shared power cut, a retry, a scan or a failed test
\* left behind; only a failed first network keeps the hotspot on
\* (wifi_provisioning.cpp:24-33, 273-275, 283-317).
FailedFirst == dev.state = "failed" /\ dev.prev = None
HotspotGoesOff ==
    <>[](dev.conf \in reach) => <>[](FailedFirst \/ (dev.up /\ dev.mode = "sta"))
=============================================================================
