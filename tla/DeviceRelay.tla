----------------------------- MODULE DeviceRelay -----------------------------
(***************************************************************************)
(* The backend's live-connection registry (backend/src/ws/registry.js) and *)
(* the life of a device WebSocket that feeds it (ws/deviceServer.js):      *)
(* authentication with its database round trip, registration where the     *)
(* newest connection wins, heartbeat, close, and the relay requests that   *)
(* travel over the registered socket until a reply, a timeout or the       *)
(* device's disconnect settles them.                                       *)
(*                                                                         *)
(* One action is one run of the event loop: whatever lies between two      *)
(* awaits of the code is atomic, and every await is a gap.                 *)
(***************************************************************************)
EXTENDS FiniteSets

CONSTANTS
    Devices,    \* device ids
    Sockets,    \* device WebSocket objects; one is used for one connection
    Reqs,       \* relay requests (each gets a fresh random reqId)
    NoSocket,   \* deviceSockets has no entry
    DeviceOf,   \* the device id a socket's auth frame presents
    TargetOf,   \* the device a request is addressed to
    Guarded     \* the requests that are channel-state commands

ASSUME DeviceOfType == DeviceOf \in [Sockets -> Devices]
ASSUME TargetOfType == TargetOf \in [Reqs -> Devices]
ASSUME NoSocketIsNotASocket == NoSocket \notin Sockets
ASSUME GuardedType == Guarded \subseteq Reqs

VARIABLES
    ready,            \* WebSocket.readyState
    auth,             \* the handler's closure: not authenticated, awaiting
                      \* authenticateDevice, authenticated
    isAlive,          \* ws.isAlive
    deviceSockets,    \* deviceId -> registered socket
    pendingRequests,  \* reqIds awaiting a reply
    reqIdsByDevice,   \* pendingReqIdsByDevice; {} stands for "no entry"
    phase,            \* where each relay call stands
    outcome,          \* what its promise was settled with
    via,              \* the socket its frame was sent on
    leg               \* its frame: not sent, on its way down, the reply on
                      \* its way up, reply received

sockVars == <<ready, auth, isAlive, deviceSockets>>
reqVars == <<pendingRequests, reqIdsByDevice, phase, outcome, via, leg>>
vars == <<ready, auth, isAlive, deviceSockets,
          pendingRequests, reqIdsByDevice, phase, outcome, via, leg>>

ReadyStates == {"unopened", "OPEN", "CLOSING", "CLOSED"}
AuthStates == {"no", "checking", "yes"}
Phases == {"idle", "guard", "sent", "settled"}
Outcomes == {"none", "reply", "device_timeout", "device_offline", "blocked"}
Legs == {"none", "down", "up", "received"}

TypeOK ==
    /\ ready \in [Sockets -> ReadyStates]
    /\ auth \in [Sockets -> AuthStates]
    /\ isAlive \in [Sockets -> BOOLEAN]
    /\ deviceSockets \in [Devices -> Sockets \cup {NoSocket}]
    /\ pendingRequests \subseteq Reqs
    /\ reqIdsByDevice \in [Devices -> SUBSET Reqs]
    /\ phase \in [Reqs -> Phases]
    /\ outcome \in [Reqs -> Outcomes]
    /\ via \in [Reqs -> Sockets \cup {NoSocket}]
    /\ leg \in [Reqs -> Legs]

Init ==
    /\ ready = [s \in Sockets |-> "unopened"]
    /\ auth = [s \in Sockets |-> "no"]
    /\ isAlive = [s \in Sockets |-> FALSE]
    /\ deviceSockets = [d \in Devices |-> NoSocket]
    /\ pendingRequests = {}
    /\ reqIdsByDevice = [d \in Devices |-> {}]
    /\ phase = [r \in Reqs |-> "idle"]
    /\ outcome = [r \in Reqs |-> "none"]
    /\ via = [r \in Reqs |-> NoSocket]
    /\ leg = [r \in Reqs |-> "none"]

-----------------------------------------------------------------------------
(* registry.js: registering and unregistering a device's socket.           *)

Registered(s) == deviceSockets[DeviceOf[s]] = s

\* ws.close() and ws.terminate(): only an open socket changes state now; the
\* 'close' event comes later, and never again for a CLOSED socket.
Closing(S) == [s \in Sockets |-> IF s \in S /\ ready[s] = "OPEN" THEN "CLOSING" ELSE ready[s]]

\* Mutant: the superseded connection is left open.
RegisterDeviceKeepsOld(s) ==
    /\ ready' = ready
    /\ deviceSockets' = [deviceSockets EXCEPT ![DeviceOf[s]] = s]

\* A different socket registered for the device is closed (4000) and replaced.
RegisterDevice(s) ==
    /\ ready' = Closing({deviceSockets[DeviceOf[s]]} \ {s, NoSocket})
    /\ deviceSockets' = [deviceSockets EXCEPT ![DeviceOf[s]] = s]

\* Removes s only if it is still the registered socket.
UnregisterDevice(s) ==
    deviceSockets' =
        IF Registered(s) THEN [deviceSockets EXCEPT ![DeviceOf[s]] = NoSocket] ELSE deviceSockets

IsSocketOpen(d) == deviceSockets[d] # NoSocket /\ ready[deviceSockets[d]] = "OPEN"

-----------------------------------------------------------------------------
(* registry.js: settling relay requests.                                   *)

\* Every request of R leaves both maps and its promise is settled with o.
Settle(R, o) ==
    /\ pendingRequests' = pendingRequests \ R
    /\ reqIdsByDevice' = [d \in Devices |-> reqIdsByDevice[d] \ R]
    /\ phase' = [r \in Reqs |-> IF r \in R THEN "settled" ELSE phase[r]]
    /\ outcome' = [r \in Reqs |-> IF r \in R THEN o ELSE outcome[r]]

\* Mutant: the entries are dropped, the promises never rejected.
RejectPendingSilently(d) ==
    /\ pendingRequests' = pendingRequests \ reqIdsByDevice[d]
    /\ reqIdsByDevice' = [reqIdsByDevice EXCEPT ![d] = {}]
    /\ UNCHANGED <<phase, outcome>>

\* rejectPendingForDevice: every request in flight to d, whatever socket it
\* was sent on.
RejectPendingForDevice(d) == Settle(reqIdsByDevice[d] \cap pendingRequests, "device_offline")

\* sendRelay: re-reads the registered socket; null makes the caller throw
\* device_offline.
SendRelay(r) ==
    LET d == TargetOf[r] IN
    IF IsSocketOpen(d)
    THEN /\ pendingRequests' = pendingRequests \cup {r}
         /\ reqIdsByDevice' = [reqIdsByDevice EXCEPT ![d] = @ \cup {r}]
         /\ phase' = [phase EXCEPT ![r] = "sent"]
         /\ via' = [via EXCEPT ![r] = deviceSockets[d]]
         /\ leg' = [leg EXCEPT ![r] = "down"]
         /\ UNCHANGED outcome
    ELSE Settle({r}, "device_offline") /\ UNCHANGED <<via, leg>>

-----------------------------------------------------------------------------
(* deviceServer.js: a device connection.                                   *)

Open(s) ==
    /\ ready[s] = "unopened"
    /\ ready' = [ready EXCEPT ![s] = "OPEN"]
    /\ UNCHANGED <<auth, isAlive, deviceSockets, reqVars>>

\* The {deviceId, cloudSecret} frame: the handler starts awaiting the database.
\* Frames are still delivered while the socket is closing.
AuthFrame(s) ==
    /\ ready[s] \in {"OPEN", "CLOSING"} /\ auth[s] = "no"
    /\ auth' = [auth EXCEPT ![s] = "checking"]
    /\ UNCHANGED <<ready, isAlive, deviceSockets, reqVars>>

\* Any other frame, or the 5 s timer, while not yet authenticated: close 4001.
CloseUnauthenticated(s) ==
    /\ ready[s] = "OPEN" /\ auth[s] # "yes"
    /\ ready' = Closing({s})
    /\ UNCHANGED <<auth, isAlive, deviceSockets, reqVars>>

\* authenticateDevice returned null (4003) or threw (1011).
AuthRejected(s) ==
    /\ auth[s] = "checking"
    /\ auth' = [auth EXCEPT ![s] = "no"]
    /\ ready' = Closing({s})
    /\ UNCHANGED <<isAlive, deviceSockets, reqVars>>

\* authenticateDevice returned a row. Nothing re-reads readyState: the socket
\* may be closing, or closed, by now.
AuthAccepted(s) ==
    /\ auth[s] = "checking"
    /\ auth' = [auth EXCEPT ![s] = "yes"]
    /\ isAlive' = [isAlive EXCEPT ![s] = TRUE]
    /\ RegisterDevice(s)
    /\ UNCHANGED reqVars

Pong(s) ==
    /\ ready[s] \in {"OPEN", "CLOSING"} /\ auth[s] = "yes" /\ ~isAlive[s]
    /\ isAlive' = [isAlive EXCEPT ![s] = TRUE]
    /\ UNCHANGED <<ready, auth, deviceSockets, reqVars>>

\* Mutant: silent sockets are only pinged again.
HeartbeatTickNoTerminate ==
    LET registered == {s \in Sockets : Registered(s)} IN
    /\ registered # {}
    /\ isAlive' = [s \in Sockets |-> IF s \in registered THEN FALSE ELSE isAlive[s]]
    /\ UNCHANGED <<ready, auth, deviceSockets, reqVars>>

\* runDeviceHeartbeatTick: terminate the silent ones, arm the others.
HeartbeatTick ==
    LET registered == {s \in Sockets : Registered(s)} IN
    /\ registered # {}
    /\ ready' = Closing({s \in registered : ~isAlive[s]})
    /\ isAlive' = [s \in Sockets |-> IF s \in registered THEN FALSE ELSE isAlive[s]]
    /\ UNCHANGED <<auth, deviceSockets, reqVars>>

\* The TCP connection ends or the peer starts the closing handshake.
PeerCloses(s) ==
    /\ ready[s] = "OPEN"
    /\ ready' = Closing({s})
    /\ UNCHANGED <<auth, isAlive, deviceSockets, reqVars>>

\* disconnectDevice: an admin or an unclaim closes the device's live socket.
DisconnectDevice(d) ==
    /\ IsSocketOpen(d)
    /\ ready' = Closing({deviceSockets[d]})
    /\ UNCHANGED <<auth, isAlive, deviceSockets, reqVars>>

\* Mutant: only the current socket's close rejects what is in flight.
CloseEventOnlyCurrent(s) ==
    /\ ready[s] = "CLOSING"
    /\ ready' = [ready EXCEPT ![s] = "CLOSED"]
    /\ IF auth[s] = "yes" /\ Registered(s)
       THEN UnregisterDevice(s) /\ RejectPendingForDevice(DeviceOf[s])
       ELSE UNCHANGED <<deviceSockets, pendingRequests, reqIdsByDevice, phase, outcome>>
    /\ UNCHANGED <<auth, isAlive, via, leg>>

\* The 'close' event. A connection that never authenticated cleans nothing.
CloseEvent(s) ==
    /\ ready[s] = "CLOSING"
    /\ ready' = [ready EXCEPT ![s] = "CLOSED"]
    /\ IF auth[s] = "yes"
       THEN UnregisterDevice(s) /\ RejectPendingForDevice(DeviceOf[s])
       ELSE UNCHANGED <<deviceSockets, pendingRequests, reqIdsByDevice, phase, outcome>>
    /\ UNCHANGED <<auth, isAlive, via, leg>>

-----------------------------------------------------------------------------
(* registry.js: a relay call, from relayCommand/relayToDevice to its end.  *)

\* Mutant: the frame goes out while the guard is still being asked.
RelayCallBeforeGuard(r) ==
    /\ phase[r] = "idle"
    /\ IF IsSocketOpen(TargetOf[r]) /\ r \in Guarded
       THEN /\ phase' = [phase EXCEPT ![r] = "guard"]
            /\ via' = [via EXCEPT ![r] = deviceSockets[TargetOf[r]]]
            /\ leg' = [leg EXCEPT ![r] = "down"]
            /\ UNCHANGED <<pendingRequests, reqIdsByDevice, outcome>>
       ELSE SendRelay(r)
    /\ UNCHANGED sockVars

\* The call itself. A channel-state command first awaits the safety guard;
\* anything else goes out at once.
RelayCall(r) ==
    /\ phase[r] = "idle"
    /\ IF IsSocketOpen(TargetOf[r]) /\ r \in Guarded
       THEN /\ phase' = [phase EXCEPT ![r] = "guard"]
            /\ UNCHANGED <<pendingRequests, reqIdsByDevice, outcome, via, leg>>
       ELSE SendRelay(r)
    /\ UNCHANGED sockVars

GuardPasses(r) ==
    /\ phase[r] = "guard"
    /\ SendRelay(r)
    /\ UNCHANGED sockVars

\* The guard refuses the command, or its query fails.
GuardBlocks(r) ==
    /\ phase[r] = "guard"
    /\ Settle({r}, "blocked")
    /\ UNCHANGED <<sockVars, via, leg>>

\* The device applies the command and answers on the socket it came by.
DeviceApplies(r) ==
    /\ leg[r] = "down"
    /\ leg' = [leg EXCEPT ![r] = "up"]
    /\ UNCHANGED <<sockVars, pendingRequests, reqIdsByDevice, phase, outcome, via>>

\* resolveDeviceResponse: a reqId no longer pending is ignored.
DeviceReply(r) ==
    /\ leg[r] = "up" /\ ready[via[r]] \in {"OPEN", "CLOSING"}
    /\ leg' = [leg EXCEPT ![r] = "received"]
    /\ Settle({r} \cap pendingRequests, "reply")
    /\ UNCHANGED <<sockVars, via>>

\* The 10 s RELAY_TIMEOUT_MS timer.
RelayTimeout(r) ==
    /\ r \in pendingRequests
    /\ Settle({r}, "device_timeout")
    /\ UNCHANGED <<sockVars, via, leg>>

-----------------------------------------------------------------------------

SocketStep(s) ==
    \/ Open(s)
    \/ AuthFrame(s)
    \/ CloseUnauthenticated(s)
    \/ AuthRejected(s)
    \/ AuthAccepted(s)
    \/ Pong(s)
    \/ PeerCloses(s)
    \/ CloseEvent(s)

RequestStep(r) ==
    \/ RelayCall(r)
    \/ GuardPasses(r)
    \/ GuardBlocks(r)
    \/ DeviceApplies(r)
    \/ DeviceReply(r)
    \/ RelayTimeout(r)

Next ==
    \/ \E s \in Sockets : SocketStep(s)
    \/ \E r \in Reqs : RequestStep(r)
    \/ \E d \in Devices : DisconnectDevice(d)
    \/ HeartbeatTick

Spec == Init /\ [][Next]_vars

\* What Node guarantees: a query's continuation runs, a timer fires, a closed
\* connection's 'close' event is delivered. Devices promise nothing.
Fairness ==
    /\ \A r \in Reqs : WF_vars(GuardPasses(r) \/ GuardBlocks(r)) /\ WF_vars(RelayTimeout(r))
    /\ \A s \in Sockets : WF_vars(CloseEvent(s)) /\ WF_vars(AuthRejected(s) \/ AuthAccepted(s))
    /\ WF_vars(HeartbeatTick)

FairSpec == Spec /\ Fairness

-----------------------------------------------------------------------------
(* Safety.                                                                 *)

\* The two maps of registry.js agree with each other and with the promises
\* still open: no entry is leaked by a timeout, a reply or a disconnect, and
\* no open promise has lost its entry (it would never be rejected early).
PendingIndexed ==
    /\ pendingRequests = {r \in Reqs : phase[r] = "sent"}
    /\ \A d \in Devices : reqIdsByDevice[d] = {r \in pendingRequests : TargetOf[r] = d}

\* A disconnect fails what is in flight: once the socket a request was sent
\* on has closed, that request no longer waits for its 10 s timer.
NoWaitOnClosedSocket ==
    \A r \in Reqs : phase[r] = "sent" =>
        /\ via[r] # NoSocket
        /\ auth[via[r]] = "yes"
        /\ DeviceOf[via[r]] = TargetOf[r]
        /\ ready[via[r]] # "CLOSED"

\* "One live connection per device, the newest wins": an authenticated socket
\* that is still open is the one registered for its device, so commands never
\* go out on one connection while the device answers on another.
OneLiveConnection ==
    \A s \in Sockets : auth[s] = "yes" /\ ready[s] = "OPEN" => Registered(s)

\* A caller is told "reply" only when the device did apply the request, and a
\* request the guard refused never reaches the device.
HonestOutcome ==
    \A r \in Reqs :
        /\ outcome[r] = "reply" => leg[r] = "received"
        /\ outcome[r] = "blocked" => leg[r] = "none"

\* What the handlers of deviceServer.js establish about a socket: it is
\* registered only for the device it authenticated as.
SocketsConsistent ==
    /\ \A s \in Sockets : auth[s] # "no" => ready[s] # "unopened"
    /\ \A d \in Devices : deviceSockets[d] # NoSocket =>
          DeviceOf[deviceSockets[d]] = d /\ auth[deviceSockets[d]] = "yes"

\* A promise has an outcome exactly when its call is over, and nothing is
\* sent before the guard has answered.
CallsConsistent ==
    \A r \in Reqs :
        /\ outcome[r] # "none" <=> phase[r] = "settled"
        /\ phase[r] \in {"idle", "guard"} => leg[r] = "none"

\* The inductive invariant behind the safety properties.
IInv ==
    /\ TypeOK
    /\ SocketsConsistent
    /\ OneLiveConnection
    /\ PendingIndexed
    /\ CallsConsistent
    /\ NoWaitOnClosedSocket
    /\ HonestOutcome

\* Each relay promise settles at most once: a reply that arrives after the
\* timeout, or a close after the reply, changes nothing.
SettledOnce == [][\A r \in Reqs : outcome[r] # "none" => outcome'[r] = outcome[r]]_vars

\* The registry forgets a device only when the registered socket itself
\* closes; a superseded socket closing must not unregister its replacement.
UnregisteredByOwnClose ==
    [][\A d \in Devices :
         deviceSockets[d] # NoSocket /\ deviceSockets'[d] # deviceSockets[d] =>
            \/ deviceSockets'[d] # NoSocket
            \/ ready'[deviceSockets[d]] = "CLOSED"]_vars

-----------------------------------------------------------------------------
(* Liveness.                                                               *)

\* A registered connection that stays silent after a heartbeat ping is closed.
SilentConnectionCloses ==
    \A s \in Sockets :
        Registered(s) /\ ~isAlive[s] /\ ready[s] # "CLOSED" ~> isAlive[s] \/ ready[s] = "CLOSED"

-----------------------------------------------------------------------------
(* DeviceRelay implements RelayPromise.                                    *)

CallStatus ==
    [r \in Reqs |-> CASE phase[r] = "idle" -> "idle"
                      [] phase[r] = "settled" -> outcome[r]
                      [] OTHER -> "running"]

Applied == {r \in Reqs : leg[r] \in {"up", "received"}}

Promise == INSTANCE RelayPromise WITH status <- CallStatus, applied <- Applied

\* Whatever sockets do, a caller sees a promise that settles once and never
\* claims a reply the device did not give.
PromiseKept == Promise!Spec

\* Every started call settles in the end, as the callers' awaits rely on.
PromiseSettles == Promise!Settles

-----------------------------------------------------------------------------
(* What a comment says and the code does not keep.                         *)

\* deviceServer.js, heartbeat: a socket that does not answer is terminated
\* and "this fires the same close handler above, which already does
\* unregisterDevice": so a silent registered socket ends up unregistered.
SilentDeviceUnregistered ==
    \A s \in Sockets : Registered(s) /\ ~isAlive[s] ~> isAlive[s] \/ ~Registered(s)

=============================================================================
