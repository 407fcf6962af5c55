------------------------ MODULE WifiProvisioningProofs ------------------------
(***************************************************************************)
(* The radio of WifiProvisioning, proved for any set of networks and any   *)
(* number of requests and restarts.  A pass of the loop is a composition   *)
(* of blocks, and so is its proof: each block has two lemmas, that it      *)
(* keeps a device Sound and that it keeps the working network Safe.        *)
(***************************************************************************)
EXTENDS WifiProvisioning, TLAPS

\* What every block leaves true of the device. A change of network that waits
\* for its deferral rolls back to the network that is stored.
Sound(d) ==
    /\ d \in Devices
    /\ d.up => d.mode # "ap" /\ d.conf \in reach
    /\ d.armed => d.pending # None /\ d.prev = d.conf
    /\ d.retry => d.conf # None
    /\ d.state = "testing" /\ ~d.armed => d.mode = "apsta"

\* The network g is kept for the rollback while a test is under way, and stored
\* otherwise.
Keeps(d, g) == IF d.state = "testing" /\ ~d.armed THEN d.prev = g ELSE d.conf = g

\* Within a pass, a network that has just been joined may take its place.
Safe(d, g) == Keeps(d, g) \/ (d.up /\ ~d.armed /\ d.state # "testing")

\* A device that is on its network tests none: what holds once Test is done.
Decided(d) == d.up => d.state # "testing"

Counters ==
    /\ reach \subseteq Networks /\ good \in Stored /\ cut \in BOOLEAN
    /\ asked \in 0..MaxRequests /\ restarted \in 0..MaxRestarts

IInv ==
    /\ Counters /\ Sound(dev)
    /\ good # None /\ ~cut => Keeps(dev, good)

-----------------------------------------------------------------------------
(* The changes the blocks are made of.                                     *)

LEMMA SetModeSound ==
    ASSUME NEW d, Sound(d), NEW m \in Modes, d.state = "testing" /\ ~d.armed => m = "apsta"
    PROVE  Sound(SetMode(d, m))
BY DEF Sound, SetMode, Devices, Modes

LEMMA SetModeKeeps ==
    ASSUME NEW d, Sound(d), NEW m \in Modes, NEW g
    PROVE  /\ Keeps(d, g) => Keeps(SetMode(d, m), g)
           /\ Safe(d, g) /\ (m # "ap" \/ ~d.up) => Safe(SetMode(d, m), g)
BY DEF Sound, SetMode, Keeps, Safe, Devices, Modes

\* A device that finds itself connected is Safe: what it was on is what is stored.
LEMMA OnlineSound ==
    ASSUME NEW d, Sound(d)
    PROVE  /\ Sound(Online(d))
           /\ \A g : Safe(d, g) /\ d.up => Safe(Online(d), g)
<1>1. Sound(Online(d))
  BY DEF Sound, Online, SetMode, Devices, Modes
<1>2. ASSUME NEW g, Safe(d, g), d.up PROVE Safe(Online(d), g)
  BY <1>2 DEF Sound, Safe, Keeps, Online, SetMode, Devices, Modes
<1> QED BY <1>1, <1>2

LEMMA ScanEnds ==
    ASSUME NEW d, Sound(d)
    PROVE  LET e == [d EXCEPT !.scan = "no"]
           IN  /\ Sound(e) /\ \A g : Keeps(d, g) => Keeps(e, g)
               /\ e.up = d.up /\ e.state = d.state
BY DEF Sound, Keeps, Devices

LEMMA RetryEnds ==
    ASSUME NEW d, Sound(d), d.retry
    PROVE  LET e == [d EXCEPT !.retry = FALSE]
           IN  /\ Sound(e) /\ \A g : Safe(d, g) => Safe(e, g)
               /\ e.up = d.up /\ e.state = d.state
BY DEF Sound, Safe, Keeps, Devices

-----------------------------------------------------------------------------
(* The blocks.                                                             *)

LEMMA CollectKeeps ==
    ASSUME NEW d, Sound(d), NEW done \in BOOLEAN
    PROVE  /\ Sound(Collect(d, done))
           /\ \A g : Keeps(d, g) => Safe(Collect(d, done), g)
<1> DEFINE ended == [d EXCEPT !.scan = "no"]
<1>0. /\ Sound(ended) /\ \A g : Keeps(d, g) => Keeps(ended, g)
      /\ ended.up = d.up /\ ended.state = d.state
  BY ScanEnds
<1>1. CASE Collect(d, done) = d
  BY <1>1 DEF Safe
<1>2. CASE Collect(d, done) = Online(ended) /\ ended.up
  BY <1>0, <1>2, OnlineSound DEF Safe
<1>3. CASE Collect(d, done) = SetMode(ended, "ap") /\ ended.state # "testing"
  BY <1>0, <1>3, SetModeSound, SetModeKeeps DEF Safe, Modes
<1>4. CASE Collect(d, done) = ended
  BY <1>0, <1>4 DEF Safe
<1> QED BY <1>0, <1>1, <1>2, <1>3, <1>4 DEF Collect

LEMMA DeferKeeps ==
    ASSUME NEW d, Sound(d), NEW due \in BOOLEAN
    PROVE  /\ Sound(Defer(d, due))
           /\ \A g : Safe(d, g) => Safe(Defer(d, due), g)
<1>1. CASE ~Deferred(d, due)
  BY <1>1 DEF Defer
<1>2. CASE Deferred(d, due)
  <2> DEFINE begun == Begin(SetMode([d EXCEPT !.armed = FALSE, !.state = "testing"], "apsta"), d.pending)
  <2>1. Defer(d, due) = begun /\ d.armed
    BY <1>2 DEF Defer, Deferred
  <2>2. Sound(begun)
    BY <2>1 DEF Sound, Begin, SetMode, Devices, Modes
  <2>3. ASSUME NEW g, Safe(d, g) PROVE Safe(begun, g)
    BY <2>1, <2>3 DEF Sound, Safe, Keeps, Begin, SetMode, Devices, Modes
  <2> QED BY <2>1, <2>2, <2>3
<1> QED BY <1>1, <1>2

LEMMA TestKeeps ==
    ASSUME NEW d, Sound(d), NEW over \in BOOLEAN
    PROVE  /\ Sound(Test(d, over)) /\ Decided(Test(d, over))
           /\ \A g : Safe(d, g) /\ g # None => Safe(Test(d, over), g)
<1> DEFINE failed == [d EXCEPT !.state = "failed"]
<1>1. CASE Test(d, over) = d /\ Decided(d)
  BY <1>1
<1>2. CASE Test(d, over) = Online(d) /\ d.up
  <2>1. Online(d).state = "connected"
    BY DEF Online, SetMode, Sound, Devices
  <2> QED BY <1>2, <2>1, OnlineSound DEF Decided
<1>3. CASE Test(d, over) = failed /\ d.prev = None /\ d.state = "testing" /\ ~d.up
  <2>1. Sound(failed) /\ Decided(failed)
    BY <1>3 DEF Sound, Decided, Devices
  <2>2. ASSUME NEW g, Safe(d, g), g # None PROVE Safe(failed, g)
    BY <1>3, <2>2 DEF Sound, Safe, Keeps, Devices
  <2> QED BY <1>3, <2>1, <2>2
<1>4. CASE Test(d, over) = Begin(failed, d.prev) /\ d.prev # None /\ d.state = "testing" /\ ~d.up
  <2>1. Sound(Begin(failed, d.prev)) /\ Decided(Begin(failed, d.prev))
    BY <1>4 DEF Sound, Decided, Begin, Devices, Modes
  <2>2. ASSUME NEW g, Safe(d, g) PROVE Safe(Begin(failed, d.prev), g)
    BY <1>4, <2>2 DEF Sound, Safe, Keeps, Begin, Devices, Modes
  <2> QED BY <1>4, <2>1, <2>2
<1> QED BY <1>1, <1>2, <1>3, <1>4 DEF Test, Decided

LEMMA BackKeeps ==
    ASSUME NEW d, Sound(d), Decided(d)
    PROVE  /\ Sound(Back(d)) /\ Decided(Back(d))
           /\ \A g : Safe(d, g) => Safe(Back(d), g)
<1>1. CASE Back(d) = d
  BY <1>1
<1>2. CASE Back(d) = SetMode(d, "sta") /\ d.state = "failed"
  <2>1. Decided(SetMode(d, "sta"))
    BY DEF Decided, SetMode, Sound, Devices
  <2> QED BY <1>2, <2>1, SetModeSound, SetModeKeeps DEF Modes
<1> QED BY <1>1, <1>2 DEF Back

LEMMA RetryKeeps ==
    ASSUME NEW d, Sound(d), Decided(d), NEW due \in BOOLEAN, NEW over \in BOOLEAN
    PROVE  /\ Sound(Retry(d, due, over)) /\ Decided(Retry(d, due, over))
           /\ \A g : Safe(d, g) => Safe(Retry(d, due, over), g)
<1> DEFINE begun == Begin(SetMode([d EXCEPT !.retry = TRUE], "apsta"), d.conf)
           ended == [d EXCEPT !.retry = FALSE]
<1>0. d.retry => /\ Sound(ended) /\ \A g : Safe(d, g) => Safe(ended, g)
                 /\ ended.up = d.up /\ ended.state = d.state
  BY RetryEnds
<1>1. CASE RetryDue(d, due)
  <2>1. Retry(d, due, over) = begun
    BY <1>1 DEF Retry
  <2>2. Sound(begun) /\ Decided(begun)
    BY <1>1 DEF RetryDue, Sound, Decided, Begin, SetMode, Devices, Modes
  <2>3. ASSUME NEW g, Safe(d, g) PROVE Safe(begun, g)
    BY <1>1, <2>3 DEF RetryDue, Sound, Safe, Keeps, Begin, SetMode, Devices, Modes
  <2> QED BY <2>1, <2>2, <2>3
<1>2. CASE Retry(d, due, over) = d
  BY <1>2
<1>3. CASE Retry(d, due, over) = Online(ended) /\ d.retry /\ d.up
  <2>1. Online(ended).state = "connected"
    BY <1>0, <1>3 DEF Online, SetMode, Sound, Devices
  <2> QED BY <1>0, <1>3, <2>1, OnlineSound DEF Decided
<1>4. CASE Retry(d, due, over) = ended /\ d.retry
  BY <1>0, <1>4 DEF Decided
<1>5. CASE Retry(d, due, over) = SetMode(ended, "ap") /\ d.retry /\ d.state # "testing" /\ ~d.up
  <2>1. ~SetMode(ended, "ap").up
    BY <1>0, <1>5 DEF SetMode, Sound, Devices
  <2> QED BY <1>0, <1>5, <2>1, SetModeSound, SetModeKeeps DEF Modes, Decided
<1> QED BY <1>1, <1>2, <1>3, <1>4, <1>5 DEF Retry

-----------------------------------------------------------------------------
(* The invariant.                                                          *)

LEMMA BootedSound ==
    ASSUME NEW n \in Stored, NEW d \in Boots(n), reach \subseteq Networks
    PROVE  Sound(d) /\ d.conf = n /\ d.state # "testing"
<1>1. CASE d = Booted(n)
  BY <1>1 DEF Sound, Booted, Devices, Modes, Stored
<1>2. CASE d = [Booted(n) EXCEPT !.state = "connected", !.mode = "sta", !.up = TRUE] /\ n \in reach
  BY <1>2 DEF Sound, Booted, Devices, Modes, Stored
<1> QED BY <1>1, <1>2 DEF Boots

LEMMA InitIInv == Init => IInv
<1> SUFFICES ASSUME Init PROVE IInv
  OBVIOUS
<1>1. Sound(dev)
  BY DEF Init, Sound, Booted, Devices, Modes, Stored
<1>2. reach \subseteq Networks /\ good \in Stored /\ cut \in BOOLEAN
  BY DEF Init, Stored
<1>3. asked \in 0..MaxRequests /\ restarted \in 0..MaxRestarts
  BY WifiAssumption DEF Init
<1> QED BY <1>1, <1>2, <1>3 DEF Init, IInv, Counters

LEMMA LoopKeeps ==
    ASSUME IInv, NEW scanned \in BOOLEAN, NEW deferred \in BOOLEAN, NEW late \in BOOLEAN,
           NEW due \in BOOLEAN, NEW retried \in BOOLEAN,
           Loop(scanned, deferred, late, due, retried)
    PROVE  IInv'
<1> DEFINE collected == Collect(dev, scanned)
           begun == Deferred(collected, deferred)
           started == Defer(collected, deferred)
           tested == Test(started, late /\ ~begun)
           back == Back(tested)
<1>1. Sound(collected) /\ \A g : Keeps(dev, g) => Safe(collected, g)
  BY CollectKeeps DEF IInv
<1>2. Sound(started) /\ \A g : Keeps(dev, g) => Safe(started, g)
  BY <1>1, DeferKeeps
<1>3. Sound(tested) /\ Decided(tested) /\ \A g : Keeps(dev, g) /\ g # None => Safe(tested, g)
  BY <1>2, TestKeeps
<1>4. Sound(back) /\ Decided(back) /\ \A g : Keeps(dev, g) /\ g # None => Safe(back, g)
  BY <1>3, BackKeeps
<1>5. Sound(Retry(back, due, retried)) /\ Decided(Retry(back, due, retried))
      /\ \A g : Keeps(dev, g) /\ g # None => Safe(Retry(back, due, retried), g)
  BY <1>4, RetryKeeps
<1>6. dev' = Retry(back, due, retried)
  BY DEF Loop, Pass
<1>7. Sound(dev)' /\ dev'.conf \in Stored
  BY <1>5, <1>6 DEF Loop, Sound, Devices
<1>8. good' = IF dev'.up THEN dev'.conf ELSE good
  BY DEF Loop, Learned
<1>9. good' # None /\ ~cut' => Keeps(dev, good)'
  BY <1>5, <1>6, <1>8 DEF Loop, IInv, Safe, Keeps, Decided
<1> QED BY <1>7, <1>8, <1>9 DEF Loop, IInv, Counters, bounds

LEMMA StepIInv == IInv /\ [Next]_vars => IInv'
<1> SUFFICES ASSUME IInv, [Next]_vars PROVE IInv'
  OBVIOUS
<1> USE DEF IInv, Counters, bounds
<1>1. CASE Associate
  <2>1. Sound(dev)'
    BY <1>1 DEF Associate, Joinable, Sound, Devices, Modes
  <2> QED BY <1>1, <2>1 DEF Associate, Keeps, Sound, Devices
<1>2. CASE Restart
  <2>1. Sound(dev)' /\ dev'.conf = dev.conf /\ dev'.state # "testing"
    BY <1>2, BootedSound DEF Restart, Sound, Devices
  <2>2. good' = IF dev'.up THEN dev.conf ELSE good
    BY <1>2 DEF Restart
  <2>3. restarted' \in 0..MaxRestarts /\ cut' \in BOOLEAN /\ reach' = reach /\ asked' = asked
    BY <1>2, WifiAssumption DEF Restart
  <2>4. good' # None /\ ~cut' => Keeps(dev, good)'
    BY <1>2, <2>1, <2>2 DEF Restart, Keeps
  <2> QED BY <2>1, <2>2, <2>3, <2>4 DEF Sound, Devices
<1>3. CASE FactoryReset
  <2>1. None \in Stored /\ Booted(None) \in Boots(None)
    BY DEF Stored, Boots
  <2>2. Sound(dev)'
    BY <1>3, <2>1, BootedSound DEF FactoryReset, Sound
  <2>3. restarted' \in 0..MaxRestarts
    BY <1>3, WifiAssumption DEF FactoryReset
  <2>4. good' = None /\ cut' = FALSE /\ reach' = reach /\ asked' = asked
    BY <1>3 DEF FactoryReset
  <2> QED BY <2>1, <2>2, <2>3, <2>4
<1>4. CASE StartScan
  <2>1. Sound(dev)' /\ dev'.conf = dev.conf /\ (dev.state # "testing")
    BY <1>4 DEF StartScan, Sound, Devices, Modes
  <2> QED BY <1>4, <2>1 DEF StartScan, Keeps
<1>5. ASSUME NEW n \in Networks, NetworkUp(n) PROVE IInv'
  <2>1. Sound(dev)'
    BY <1>5 DEF NetworkUp, Sound
  <2> QED BY <1>5, <2>1 DEF NetworkUp, Keeps
<1>6. ASSUME NEW n \in Networks, NetworkDown(n) PROVE IInv'
  <2>1. Sound(dev)'
    BY <1>6 DEF NetworkDown, Sound, Devices
  <2>2. \A g : Keeps(dev, g) => Keeps(dev', g)
    BY <1>6 DEF NetworkDown, Sound, Keeps, Devices
  <2> QED BY <1>6, <2>1, <2>2 DEF NetworkDown, Keeps
<1>7. ASSUME NEW n \in Networks, RequestReconfig(n) PROVE IInv'
  <2>1. Sound(dev)'
    BY <1>7, WifiAssumption DEF RequestReconfig, Sound, Devices, Stored
  <2>2. dev'.conf = dev.conf /\ dev.state # "testing"
    BY <1>7 DEF RequestReconfig, Sound, Devices
  <2> QED BY <1>7, <2>1, <2>2, WifiAssumption DEF RequestReconfig, Keeps
<1>8. ASSUME NEW scanned \in BOOLEAN, NEW deferred \in BOOLEAN, NEW late \in BOOLEAN,
             NEW due \in BOOLEAN, NEW retried \in BOOLEAN,
             Loop(scanned, deferred, late, due, retried)
      PROVE  IInv'
  BY <1>8, LoopKeeps
<1>9. CASE UNCHANGED vars
  BY <1>9 DEF vars, Sound, Keeps
<1> QED BY <1>1, <1>2, <1>3, <1>4, <1>5, <1>6, <1>7, <1>8, <1>9 DEF Next

LEMMA IInvHolds == Spec => []IInv
<1> QED BY InitIInv, StepIInv, PTL DEF Spec

-----------------------------------------------------------------------------

\* The firmware's state, the SDK's mode, stored network and link and the pending
\* change fit together, for any networks and any number of restarts.
THEOREM TypeCorrect == Spec => []TypeOK
<1>1. IInv => TypeOK
  BY DEF IInv, Counters, Sound, TypeOK
<1> QED BY <1>1, IInvHolds, PTL

\* While a new network is tested, nothing closes the hotspot it was typed on
\* (wifi_provisioning.cpp:283-288, 309-315).
THEOREM HotspotStays == Spec => []TestKeepsHotspot
<1>1. IInv => TestKeepsHotspot
  BY DEF IInv, Sound, TestKeepsHotspot
<1> QED BY <1>1, IInvHolds, PTL

\* A network that worked is stored, or kept for the rollback of the test under
\* way, unless a restart fell into a test (wifi_provisioning.cpp:250-271).
THEOREM WorkingNetworkKept == Spec => []KeepsWorkingNetwork
<1>1. IInv => KeepsWorkingNetwork
  BY DEF IInv, Keeps, KeepsWorkingNetwork
<1> QED BY <1>1, IInvHolds, PTL
=============================================================================
