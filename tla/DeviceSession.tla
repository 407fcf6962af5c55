----------------------------- MODULE DeviceSession -----------------------------
(***************************************************************************)
(* What the backend's database says of one device, and how it gets there:  *)
(* the device's frames (auth, then a replay of every channel, then each    *)
(* change) on its successive connections, the handler of ws/deviceServer.js*)
(* that consumes them, and the UPDATEs it issues without waiting for one   *)
(* another (is_online, cached_channel_state), which run on a connection    *)
(* pool and so may take effect in any order.                               *)
(*                                                                         *)
(* The device's side is firmware-esp8266/src/cloud_client.cpp.  It holds   *)
(* the right secret: authenticateDevice here always accepts.               *)
(***************************************************************************)
EXTENDS Naturals, Sequences

CONSTANTS
    Channels,     \* number of channels, numbered 1..Channels
    MaxConns,     \* bound: connections the device makes
    MaxChanges    \* bound: changes of a relay on the device

ASSUME BoundsType == Channels \in Nat \ {0} /\ MaxConns \in Nat /\ MaxChanges \in Nat

VARIABLES
    relay,      \* the device: channel -> "ON" or "OFF" (lastState)
    link,       \* the device: its current connection, 0 when it has none
    opened,     \* connections made so far
    changes,    \* relay changes so far
    wire,       \* connection -> frames sent and not yet handled
    ready,      \* connection -> readyState on the server
    auth,       \* connection -> the handler's progress
    registered, \* deviceSockets entry, 0 when none
    refused,    \* connections closed 4001 for a frame out of place
    isOnline,   \* devices.is_online
    cached,     \* cached_channel_state
    offlineUpdates,  \* connections whose markOffline UPDATE is still to run
    stateUpserts,    \* recordStateChange statements still to run, newest last
    overtaken        \* history: a report was recorded out of the order of the changes

dbVars == <<isOnline, cached, offlineUpdates, stateUpserts>>
vars == <<relay, link, opened, changes, wire, ready, auth, registered, refused,
          isOnline, cached, offlineUpdates, stateUpserts, overtaken>>

Conns == 1..MaxConns
Chs == 1..Channels
States == {"ON", "OFF"}
AuthFrame == <<"auth">>
StateFrames == {"state"} \X Chs \X States

TypeOK ==
    /\ relay \in [Chs -> States]
    /\ link \in 0..MaxConns /\ opened \in 0..MaxConns /\ changes \in 0..MaxChanges
    /\ \A k \in Conns : \A i \in 1..Len(wire[k]) : wire[k][i] \in StateFrames \cup {AuthFrame}
    /\ ready \in [Conns -> {"unopened", "OPEN", "CLOSING", "CLOSED"}]
    /\ auth \in [Conns -> {"no", "checking", "marked", "yes"}]
    /\ registered \in 0..MaxConns /\ refused \subseteq Conns
    /\ isOnline \in BOOLEAN /\ cached \in [Chs -> States]
    /\ offlineUpdates \subseteq Conns
    /\ \A i \in 1..Len(stateUpserts) : stateUpserts[i] \in Chs \X States
    /\ overtaken \in BOOLEAN

Init ==
    /\ relay = [c \in Chs |-> "OFF"]
    /\ link = 0 /\ opened = 0 /\ changes = 0
    /\ wire = [k \in Conns |-> <<>>]
    /\ ready = [k \in Conns |-> "unopened"]
    /\ auth = [k \in Conns |-> "no"]
    /\ registered = 0 /\ refused = {}
    /\ isOnline = FALSE
    /\ cached = [c \in Chs |-> "OFF"]
    /\ offlineUpdates = {} /\ stateUpserts = <<>>
    /\ overtaken = FALSE

-----------------------------------------------------------------------------
(* The device (cloud_client.cpp).                                          *)

\* onWsEvent(CONNECTED): sendAuthFrame, then publishFullState, at once.
Connect ==
    /\ link = 0 /\ opened < MaxConns
    /\ opened' = opened + 1
    /\ link' = opened + 1
    /\ ready' = [ready EXCEPT ![opened + 1] = "OPEN"]
    /\ wire' = [wire EXCEPT ![opened + 1] =
                   <<AuthFrame>> \o [c \in Chs |-> <<"state", c, relay[c]>>]]
    /\ UNCHANGED <<relay, changes, auth, registered, refused, dbVars, overtaken>>

\* channelControlSetState, whatever caused it, and its notification: a
\* state_changed frame, dropped while the device has no connection.
RelayChanges(c) ==
    LET s == IF relay[c] = "ON" THEN "OFF" ELSE "ON" IN
    /\ changes < MaxChanges
    /\ changes' = changes + 1
    /\ relay' = [relay EXCEPT ![c] = s]
    /\ wire' = IF link = 0 THEN wire ELSE [wire EXCEPT ![link] = Append(@, <<"state", c, s>>)]
    /\ UNCHANGED <<link, opened, ready, auth, registered, refused, dbVars, overtaken>>

\* onWsEvent(DISCONNECTED): the device has noticed that its connection is gone.
DeviceDisconnects ==
    /\ link # 0
    /\ link' = 0
    /\ UNCHANGED <<relay, opened, changes, wire, ready, auth, registered, refused, dbVars, overtaken>>

-----------------------------------------------------------------------------
(* The handler of a device connection (deviceServer.js).                   *)

Closing(k) == IF k # 0 /\ ready[k] = "OPEN" THEN [ready EXCEPT ![k] = "CLOSING"] ELSE ready

TakesFrame(k) == ready[k] \in {"OPEN", "CLOSING"} /\ wire[k] # <<>>

\* The first frame: the SELECT of authenticateDevice is issued.
HandleAuthFrame(k) ==
    /\ TakesFrame(k) /\ auth[k] = "no" /\ Head(wire[k]) = AuthFrame
    /\ wire' = [wire EXCEPT ![k] = Tail(@)]
    /\ auth' = [auth EXCEPT ![k] = "checking"]
    /\ UNCHANGED <<relay, link, opened, changes, ready, registered, refused, dbVars, overtaken>>

\* Mutant: a frame that comes too early is dropped and the connection kept.
HandleEarlyFrameIgnored(k) ==
    /\ TakesFrame(k) /\ auth[k] # "yes" /\ Head(wire[k]) # AuthFrame
    /\ wire' = [wire EXCEPT ![k] = Tail(@)]
    /\ refused' = refused \cup {k}
    /\ UNCHANGED <<relay, link, opened, changes, ready, auth, registered, dbVars, overtaken>>

\* A frame handled while the flag is not set carries no {deviceId, cloudSecret}.
HandleEarlyFrame(k) ==
    /\ TakesFrame(k) /\ auth[k] # "yes" /\ Head(wire[k]) # AuthFrame
    /\ wire' = [wire EXCEPT ![k] = Tail(@)]
    /\ ready' = Closing(k)
    /\ refused' = refused \cup {k}
    /\ UNCHANGED <<relay, link, opened, changes, auth, registered, dbVars, overtaken>>

\* state_changed: the upsert is issued; the next frame does not wait for it.
HandleStateFrame(k) ==
    /\ TakesFrame(k) /\ auth[k] = "yes"
    /\ wire' = [wire EXCEPT ![k] = Tail(@)]
    /\ stateUpserts' = Append(stateUpserts, Tail(Head(wire[k])))
    /\ overtaken' = (overtaken \/ k # registered)
    /\ UNCHANGED <<relay, link, opened, changes, ready, auth, registered, refused,
                   isOnline, cached, offlineUpdates>>

\* markExistingDeviceOnline takes effect; its continuation is still to run.
MarkOnline(k) ==
    /\ auth[k] = "checking"
    /\ auth' = [auth EXCEPT ![k] = "marked"]
    /\ isOnline' = TRUE
    /\ UNCHANGED <<relay, link, opened, changes, wire, ready, registered, refused,
                   cached, offlineUpdates, stateUpserts, overtaken>>

\* authenticateDevice has resolved: registerDevice closes the older socket.
FinishAuth(k) ==
    /\ auth[k] = "marked"
    /\ auth' = [auth EXCEPT ![k] = "yes"]
    /\ ready' = Closing(registered)
    /\ registered' = k
    /\ UNCHANGED <<relay, link, opened, changes, wire, refused, dbVars, overtaken>>

\* The peer, the network, a timer or the server starts closing a connection.
StartClose(k) ==
    /\ ready[k] = "OPEN"
    /\ ready' = Closing(k)
    /\ UNCHANGED <<relay, link, opened, changes, wire, auth, registered, refused, dbVars, overtaken>>

\* Mutant: the handler unregisters the device and forgets to mark it offline.
CloseEventUnmarked(k) ==
    /\ ready[k] = "CLOSING"
    /\ ready' = [ready EXCEPT ![k] = "CLOSED"]
    /\ wire' = [wire EXCEPT ![k] = <<>>]
    /\ link' = IF link = k THEN 0 ELSE link
    /\ registered' = IF auth[k] = "yes" /\ registered = k THEN 0 ELSE registered
    /\ UNCHANGED <<relay, opened, changes, auth, refused, dbVars, overtaken>>

\* Mutant: the device is unregistered whichever of its connections has closed.
CloseEventUnregisters(k) ==
    /\ ready[k] = "CLOSING"
    /\ ready' = [ready EXCEPT ![k] = "CLOSED"]
    /\ wire' = [wire EXCEPT ![k] = <<>>]
    /\ link' = IF link = k THEN 0 ELSE link
    /\ IF auth[k] = "yes"
       THEN registered' = 0 /\ offlineUpdates' = offlineUpdates \cup {k}
       ELSE UNCHANGED <<registered, offlineUpdates>>
    /\ UNCHANGED <<relay, opened, changes, auth, refused, isOnline, cached, stateUpserts, overtaken>>

\* The 'close' event; frames not yet handled are gone with the connection.
CloseEvent(k) ==
    /\ ready[k] = "CLOSING"
    /\ ready' = [ready EXCEPT ![k] = "CLOSED"]
    /\ wire' = [wire EXCEPT ![k] = <<>>]
    /\ link' = IF link = k THEN 0 ELSE link
    /\ IF auth[k] = "yes" /\ registered = k
       THEN registered' = 0 /\ offlineUpdates' = offlineUpdates \cup {k}
       ELSE UNCHANGED <<registered, offlineUpdates>>
    /\ UNCHANGED <<relay, opened, changes, auth, refused, isOnline, cached, stateUpserts, overtaken>>

-----------------------------------------------------------------------------
(* The connection pool: statements issued take effect in any order.        *)

MarkOffline(k) ==
    /\ k \in offlineUpdates
    /\ offlineUpdates' = offlineUpdates \ {k}
    /\ isOnline' = FALSE
    /\ UNCHANGED <<relay, link, opened, changes, wire, ready, auth, registered, refused,
                   cached, stateUpserts, overtaken>>

RecordStateChange(i) ==
    /\ i \in 1..Len(stateUpserts)
    /\ cached' = [cached EXCEPT ![stateUpserts[i][1]] = stateUpserts[i][2]]
    /\ overtaken' = (overtaken \/ \E j \in 1..(i - 1) : stateUpserts[j][1] = stateUpserts[i][1])
    /\ stateUpserts' = SubSeq(stateUpserts, 1, i - 1) \o SubSeq(stateUpserts, i + 1, Len(stateUpserts))
    /\ UNCHANGED <<relay, link, opened, changes, wire, ready, auth, registered, refused,
                   isOnline, offlineUpdates>>

-----------------------------------------------------------------------------

ConnStep(k) ==
    \/ HandleAuthFrame(k)
    \/ HandleEarlyFrame(k)
    \/ HandleStateFrame(k)
    \/ MarkOnline(k)
    \/ FinishAuth(k)
    \/ StartClose(k)
    \/ CloseEvent(k)
    \/ MarkOffline(k)

Next ==
    \/ Connect
    \/ DeviceDisconnects
    \/ \E c \in Chs : RelayChanges(c)
    \/ \E k \in Conns : ConnStep(k)
    \/ \E i \in 1..Len(stateUpserts) : RecordStateChange(i)

Spec == Init /\ [][Next]_vars

-----------------------------------------------------------------------------

\* Everything the handlers have begun is done.
Quiet ==
    /\ offlineUpdates = {} /\ stateUpserts = <<>>
    /\ \A k \in Conns : auth[k] \notin {"checking", "marked"}

\* A device that is not registered is not shown online for good: whatever
\* order connections close, supersede one another and authenticate in, once
\* the statements have run is_online is false.
OfflineWhenUnregistered == Quiet /\ registered = 0 => ~isOnline

\* A registered connection whose frames and statements have all been handled
\* leaves the cache equal to the relays.
CacheResynced ==
    Quiet /\ link # 0 /\ registered = link /\ ready[link] = "OPEN" /\ wire[link] = <<>> =>
        cached = relay

\* The replay on connect (publishFullState) does its work: once an open
\* connection's frames and their statements are handled, the cache equals the
\* relays, whatever was missed while the device was away, whichever frames
\* were refused or lost with a connection (cloud_client.cpp: "so the cloud's
\* cached view resyncs"). This takes no report overtaking another: two upserts
\* of one channel that run in the other order leave the older state for good.
CacheFollowsRelays == ~overtaken => CacheResynced

-----------------------------------------------------------------------------
(* DeviceSession implements DeviceRelay's registry.                        *)

\* One device, no requests; a connection answers every ping until it closes.
Device == "device"

Registry == INSTANCE DeviceRelay WITH
    Devices <- {Device}, Sockets <- Conns, NoSocket <- 0, DeviceOf <- [k \in Conns |-> Device],
    Reqs <- {}, TargetOf <- [r \in {} |-> Device], Guarded <- {},
    auth <- [k \in Conns |-> IF auth[k] = "marked" THEN "checking" ELSE auth[k]],
    isAlive <- [k \in Conns |-> auth[k] = "yes"],
    deviceSockets <- [d \in {Device} |-> registered],
    pendingRequests <- {}, reqIdsByDevice <- [d \in {Device} |-> {}],
    phase <- [r \in {} |-> "idle"], outcome <- [r \in {} |-> "none"],
    via <- [r \in {} |-> 0], leg <- [r \in {} |-> "none"]

\* What feeds is_online and the cache is the registry that the commands go
\* through: whatever frames, statements and closes do, each step is one of the
\* registry's, so the newest connection wins and a superseded one that closes
\* late unregisters nobody.
RegistryKept == Registry!Spec

-----------------------------------------------------------------------------
(* What the source says and the code does not keep.                        *)

\* docs/backend.md: the first message must be the credentials "otherwise the
\* socket is closed". A device that does send them first is not closed.
HonestDeviceAdmitted == refused = {}
=============================================================================
