--------------------------- MODULE DeviceRelayProofs ---------------------------
(***************************************************************************)
(* Proofs about DeviceRelay for any devices, sockets and requests.         *)
(***************************************************************************)
EXTENDS DeviceRelay, TLAPS

USE DeviceOfType, TargetOfType, NoSocketIsNotASocket, GuardedType

ReqInv == PendingIndexed /\ CallsConsistent /\ HonestOutcome

ReqTypeOK ==
    /\ pendingRequests \subseteq Reqs
    /\ reqIdsByDevice \in [Devices -> SUBSET Reqs]
    /\ phase \in [Reqs -> Phases]
    /\ outcome \in [Reqs -> Outcomes]
    /\ via \in [Reqs -> Sockets \cup {NoSocket}]
    /\ leg \in [Reqs -> Legs]

SockTypeOK ==
    /\ ready \in [Sockets -> ReadyStates]
    /\ auth \in [Sockets -> AuthStates]
    /\ isAlive \in [Sockets -> BOOLEAN]
    /\ deviceSockets \in [Devices -> Sockets \cup {NoSocket}]

LEMMA TypeOKParts == TypeOK <=> SockTypeOK /\ ReqTypeOK
  BY DEF TypeOK, SockTypeOK, ReqTypeOK

-----------------------------------------------------------------------------
(* Requests.                                                               *)

\* Settling open calls with an outcome that is true of the device keeps the
\* bookkeeping of calls (resolve/reject with their cleanup in sendRelay).
LEMMA SettleKeepsCalls ==
    ASSUME ReqTypeOK, ReqInv, NEW R \in SUBSET Reqs, NEW o \in Outcomes \ {"none"},
           Settle(R, o), via' = via, leg' \in [Reqs -> Legs],
           \A q \in Reqs : leg'[q] = leg[q] \/ (leg[q] # "none" /\ leg'[q] = "received"),
           \A r \in R : phase[r] # "settled",
           o = "reply" => \A r \in R : leg'[r] = "received",
           o = "blocked" => \A r \in R : leg[r] = "none"
    PROVE  ReqTypeOK' /\ ReqInv'
  <1> USE DEF ReqTypeOK, Settle, Phases, Outcomes
  <1>1. ReqTypeOK'
    OBVIOUS
  <1>2. PendingIndexed'
    BY DEF ReqInv, PendingIndexed
  <1>3. CallsConsistent'
    BY DEF ReqInv, CallsConsistent
  <1>4. HonestOutcome'
    BY DEF ReqInv, CallsConsistent, HonestOutcome
  <1> QED BY <1>1, <1>2, <1>3, <1>4 DEF ReqInv

\* sendRelay, for a call that has sent nothing yet.
LEMMA SendRelayKeepsCalls ==
    ASSUME TypeOK, ReqInv, NEW r \in Reqs, phase[r] \in {"idle", "guard"}, SendRelay(r)
    PROVE  ReqTypeOK' /\ ReqInv'
  <1> DEFINE d == TargetOf[r]
  <1>1. CASE IsSocketOpen(d)
    <2> /\ pendingRequests' = pendingRequests \cup {r}
        /\ reqIdsByDevice' = [reqIdsByDevice EXCEPT ![d] = @ \cup {r}]
        /\ phase' = [phase EXCEPT ![r] = "sent"]
        /\ via' = [via EXCEPT ![r] = deviceSockets[d]]
        /\ leg' = [leg EXCEPT ![r] = "down"]
        /\ UNCHANGED outcome
      BY <1>1 DEF SendRelay
    <2>1. ReqTypeOK'
      BY DEF TypeOK, ReqTypeOK, Phases, Legs
    <2>2. PendingIndexed'
      BY DEF TypeOK, ReqInv, PendingIndexed
    <2>3. CallsConsistent'
      BY DEF TypeOK, ReqInv, CallsConsistent
    <2>4. HonestOutcome'
      BY DEF TypeOK, ReqInv, CallsConsistent, HonestOutcome
    <2> QED BY <2>1, <2>2, <2>3, <2>4 DEF ReqInv
  <1>2. CASE ~IsSocketOpen(d)
    <2>1. Settle({r}, "device_offline") /\ UNCHANGED <<via, leg>>
      BY <1>2 DEF SendRelay
    <2>2. leg' \in [Reqs -> Legs]
      BY <2>1 DEF TypeOK
    <2> QED BY <2>1, <2>2, SettleKeepsCalls, TypeOKParts DEF Outcomes
  <1> QED BY <1>1, <1>2

\* A request that waits, waits on a socket of its own device; sending keeps it.
LEMMA SendRelayKeepsVia ==
    ASSUME TypeOK, SocketsConsistent, NoWaitOnClosedSocket, NEW r \in Reqs,
           SendRelay(r), UNCHANGED sockVars
    PROVE  NoWaitOnClosedSocket'
  BY DEF TypeOK, SocketsConsistent, NoWaitOnClosedSocket, SendRelay, IsSocketOpen, Settle,
         sockVars

\* Settling only removes waiting requests.
LEMMA SettleKeepsVia ==
    ASSUME TypeOK, NoWaitOnClosedSocket, NEW R \in SUBSET Reqs, NEW o,
           Settle(R, o), UNCHANGED <<sockVars, via>>
    PROVE  NoWaitOnClosedSocket'
  BY DEF TypeOK, NoWaitOnClosedSocket, Settle, sockVars

-----------------------------------------------------------------------------
(* Sockets.                                                                *)

SockInv == SocketsConsistent /\ OneLiveConnection

\* close()/terminate() on any sockets keeps what is known of sockets, and no
\* request is left waiting on a closed one: the 'close' event is yet to come.
LEMMA ClosingIsSafe ==
    ASSUME IInv, NEW S, ready' = Closing(S),
           UNCHANGED <<auth, deviceSockets, reqVars>>, isAlive' \in [Sockets -> BOOLEAN]
    PROVE  IInv'
  <1> USE DEF IInv, Closing
  <1>1. SockTypeOK'
    BY DEF TypeOK, SockTypeOK, ReadyStates
  <1>2. SocketsConsistent'
    BY DEF TypeOK, SocketsConsistent
  <1>3. OneLiveConnection'
    BY DEF TypeOK, OneLiveConnection, Registered
  <1>4. ReqTypeOK' /\ ReqInv'
    BY DEF TypeOK, ReqTypeOK, ReqInv, reqVars, PendingIndexed, CallsConsistent, HonestOutcome
  <1>5. NoWaitOnClosedSocket'
    BY DEF TypeOK, NoWaitOnClosedSocket, reqVars
  <1> QED BY <1>1, <1>2, <1>3, <1>4, <1>5 DEF ReqInv, TypeOK, SockTypeOK, ReqTypeOK

\* The initial state satisfies the invariant.
THEOREM InitIInv == Init => IInv
  <1> SUFFICES ASSUME Init PROVE IInv
    OBVIOUS
  <1> USE DEF Init
  <1>1. TypeOK
    BY DEF TypeOK, ReadyStates, AuthStates, Phases, Outcomes, Legs
  <1>2. SocketsConsistent /\ OneLiveConnection
    BY DEF SocketsConsistent, OneLiveConnection
  <1>3. PendingIndexed /\ CallsConsistent /\ NoWaitOnClosedSocket /\ HonestOutcome
    BY DEF PendingIndexed, CallsConsistent, NoWaitOnClosedSocket, HonestOutcome
  <1> QED BY <1>1, <1>2, <1>3 DEF IInv

\* Every step of a connection keeps the invariant.
LEMMA SocketStepKeepsIInv ==
    ASSUME IInv, NEW s \in Sockets, SocketStep(s)
    PROVE  IInv'
  <1> USE DEF IInv
  <1>0. DeviceOf[s] \in Devices
    OBVIOUS
  <1>1. CASE Open(s)
    <2> USE <1>1 DEF Open, reqVars
    <2>1. TypeOK'
      BY DEF TypeOK, ReadyStates
    <2>2. SocketsConsistent' /\ OneLiveConnection'
      BY DEF TypeOK, SocketsConsistent, OneLiveConnection, Registered, AuthStates
    <2>3. ReqInv'
      BY DEF ReqInv, PendingIndexed, CallsConsistent, HonestOutcome
    <2>4. NoWaitOnClosedSocket'
      BY DEF TypeOK, NoWaitOnClosedSocket
    <2> QED BY <2>1, <2>2, <2>3, <2>4 DEF ReqInv
  <1>2. CASE AuthFrame(s)
    <2> USE <1>2 DEF AuthFrame, reqVars
    <2>1. TypeOK'
      BY DEF TypeOK, AuthStates
    <2>2. SocketsConsistent' /\ OneLiveConnection'
      BY DEF TypeOK, SocketsConsistent, OneLiveConnection, Registered
    <2>3. ReqInv'
      BY DEF ReqInv, PendingIndexed, CallsConsistent, HonestOutcome
    <2>4. NoWaitOnClosedSocket'
      BY DEF TypeOK, NoWaitOnClosedSocket
    <2> QED BY <2>1, <2>2, <2>3, <2>4 DEF ReqInv
  <1>3. CASE CloseUnauthenticated(s)
    BY <1>3, ClosingIsSafe DEF CloseUnauthenticated, TypeOK
  <1>4. CASE AuthRejected(s)
    <2> USE <1>4 DEF AuthRejected, reqVars, Closing
    <2>1. TypeOK'
      BY DEF TypeOK, ReadyStates, AuthStates
    <2>2. SocketsConsistent' /\ OneLiveConnection'
      BY DEF TypeOK, SocketsConsistent, OneLiveConnection, Registered
    <2>3. ReqInv'
      BY DEF ReqInv, PendingIndexed, CallsConsistent, HonestOutcome
    <2>4. NoWaitOnClosedSocket'
      BY DEF TypeOK, NoWaitOnClosedSocket
    <2> QED BY <2>1, <2>2, <2>3, <2>4 DEF ReqInv
  <1>5. CASE AuthAccepted(s)
    <2> USE <1>5 DEF AuthAccepted, RegisterDevice, reqVars, Closing
    <2>1. TypeOK'
      BY DEF TypeOK, ReadyStates, AuthStates
    <2>2. SocketsConsistent'
      BY DEF TypeOK, SocketsConsistent
    <2>3. OneLiveConnection'
      BY DEF TypeOK, SocketsConsistent, OneLiveConnection, Registered
    <2>4. ReqInv'
      BY DEF ReqInv, PendingIndexed, CallsConsistent, HonestOutcome
    <2>5. NoWaitOnClosedSocket'
      BY DEF TypeOK, NoWaitOnClosedSocket
    <2> QED BY <2>1, <2>2, <2>3, <2>4, <2>5 DEF ReqInv
  <1>6. CASE Pong(s)
    <2> USE <1>6 DEF Pong, reqVars
    <2>1. TypeOK'
      BY DEF TypeOK
    <2>2. SocketsConsistent' /\ OneLiveConnection' /\ NoWaitOnClosedSocket'
      BY DEF SocketsConsistent, OneLiveConnection, Registered, NoWaitOnClosedSocket
    <2>3. ReqInv'
      BY DEF ReqInv, PendingIndexed, CallsConsistent, HonestOutcome
    <2> QED BY <2>1, <2>2, <2>3 DEF ReqInv
  <1>7. CASE PeerCloses(s)
    BY <1>7, ClosingIsSafe DEF PeerCloses, TypeOK
  <1>8. CASE CloseEvent(s)
    <2>0. /\ ready[s] = "CLOSING"
          /\ ready' = [ready EXCEPT ![s] = "CLOSED"]
          /\ UNCHANGED <<auth, isAlive, via, leg>>
      BY <1>8 DEF CloseEvent
    <2>1. CASE auth[s] = "yes"
      <3> DEFINE d == DeviceOf[s]
                 R == reqIdsByDevice[d] \cap pendingRequests
      <3>1. UnregisterDevice(s) /\ Settle(R, "device_offline")
        BY <1>8, <2>1 DEF CloseEvent, RejectPendingForDevice
      <3>2. R = {r \in Reqs : phase[r] = "sent" /\ TargetOf[r] = d}
        BY <1>0 DEF PendingIndexed
      <3>3. ReqTypeOK' /\ ReqInv'
        <4>1. /\ R \in SUBSET Reqs
              /\ leg' \in [Reqs -> Legs]
              /\ \A r \in R : phase[r] # "settled"
          BY <3>2, <2>0 DEF TypeOK
        <4> QED BY <3>1, <4>1, <2>0, SettleKeepsCalls, TypeOKParts DEF Outcomes, ReqInv
      <3>4. SockTypeOK'
        BY <3>1, <2>0 DEF TypeOK, SockTypeOK, UnregisterDevice, ReadyStates
      <3>5. SocketsConsistent'
        BY <3>1, <2>0 DEF TypeOK, SocketsConsistent, UnregisterDevice
      <3>6. OneLiveConnection'
        BY <3>1, <2>0 DEF TypeOK, OneLiveConnection, UnregisterDevice, Registered
      <3>7. NoWaitOnClosedSocket'
        BY <3>1, <3>2, <2>0 DEF TypeOK, NoWaitOnClosedSocket, Settle
      <3> QED BY <3>3, <3>4, <3>5, <3>6, <3>7 DEF ReqInv, TypeOK, SockTypeOK, ReqTypeOK
    <2>2. CASE auth[s] # "yes"
      <3>1. UNCHANGED <<deviceSockets, pendingRequests, reqIdsByDevice, phase, outcome>>
        BY <1>8, <2>2 DEF CloseEvent
      <3> USE <2>0, <3>1
      <3>2. TypeOK'
        BY DEF TypeOK, ReadyStates
      <3>3. SocketsConsistent' /\ OneLiveConnection'
        BY <2>2 DEF TypeOK, SocketsConsistent, OneLiveConnection, Registered
      <3>4. ReqInv'
        BY DEF ReqInv, PendingIndexed, CallsConsistent, HonestOutcome
      <3>5. NoWaitOnClosedSocket'
        BY <2>2 DEF TypeOK, NoWaitOnClosedSocket
      <3> QED BY <3>2, <3>3, <3>4, <3>5 DEF ReqInv
    <2> QED BY <2>1, <2>2
  <1> QED BY <1>1, <1>2, <1>3, <1>4, <1>5, <1>6, <1>7, <1>8 DEF SocketStep

\* Every step of a relay call keeps the invariant.
LEMMA RequestStepKeepsIInv ==
    ASSUME IInv, NEW r \in Reqs, RequestStep(r)
    PROVE  IInv'
  <1> USE DEF IInv
  <1>a. SUFFICES ReqTypeOK' /\ ReqInv' /\ NoWaitOnClosedSocket'
    <2>1. UNCHANGED sockVars
      BY DEF RequestStep, RelayCall, GuardPasses, GuardBlocks, DeviceApplies, DeviceReply,
             RelayTimeout
    <2>2. SockTypeOK' /\ SocketsConsistent' /\ OneLiveConnection'
      BY <2>1 DEF sockVars, TypeOK, SockTypeOK, SocketsConsistent, OneLiveConnection, Registered
    <2> QED BY <2>2 DEF ReqInv, TypeOK, SockTypeOK, ReqTypeOK
  <1>0. ReqInv /\ leg \in [Reqs -> Legs]
    BY DEF ReqInv, TypeOK
  <1>1. CASE RelayCall(r)
    <2>1. CASE IsSocketOpen(TargetOf[r]) /\ r \in Guarded
      <3> USE <1>1, <2>1 DEF RelayCall, sockVars
      <3>1. ReqTypeOK'
        BY DEF TypeOK, ReqTypeOK, Phases
      <3>2. ReqInv' /\ NoWaitOnClosedSocket'
        BY DEF TypeOK, ReqInv, PendingIndexed, CallsConsistent, HonestOutcome,
               NoWaitOnClosedSocket
      <3> QED BY <3>1, <3>2
    <2>2. CASE ~(IsSocketOpen(TargetOf[r]) /\ r \in Guarded)
      <3>1. phase[r] \in {"idle", "guard"} /\ SendRelay(r) /\ UNCHANGED sockVars
        BY <1>1, <2>2 DEF RelayCall
      <3> QED BY <3>1, <1>0, SendRelayKeepsCalls, SendRelayKeepsVia
    <2> QED BY <2>1, <2>2
  <1>2. CASE GuardPasses(r)
    BY <1>2, <1>0, SendRelayKeepsCalls, SendRelayKeepsVia DEF GuardPasses
  <1>3. CASE GuardBlocks(r)
    <2>1. Settle({r}, "blocked") /\ UNCHANGED <<sockVars, via, leg>> /\ phase[r] = "guard"
      BY <1>3 DEF GuardBlocks
    <2>2. leg[r] = "none"
      BY <2>1 DEF CallsConsistent
    <2>3. ReqTypeOK' /\ ReqInv'
      BY <2>1, <2>2, <1>0, SettleKeepsCalls, TypeOKParts DEF Outcomes
    <2> QED BY <2>1, <2>3, SettleKeepsVia
  <1>4. CASE DeviceApplies(r)
    <2> USE <1>4 DEF DeviceApplies, sockVars
    <2>1. ReqTypeOK'
      BY DEF TypeOK, ReqTypeOK, Legs
    <2>2. ReqInv'
      BY DEF TypeOK, ReqInv, PendingIndexed, CallsConsistent, HonestOutcome
    <2>3. NoWaitOnClosedSocket'
      BY DEF NoWaitOnClosedSocket
    <2> QED BY <2>1, <2>2, <2>3
  <1>5. CASE DeviceReply(r)
    <2> DEFINE R == {r} \cap pendingRequests
    <2>1. /\ leg[r] = "up"
          /\ leg' = [leg EXCEPT ![r] = "received"]
          /\ Settle(R, "reply")
          /\ UNCHANGED <<sockVars, via>>
      BY <1>5 DEF DeviceReply
    <2>2. /\ leg' \in [Reqs -> Legs]
          /\ \A q \in Reqs : leg'[q] = leg[q] \/ (leg[q] # "none" /\ leg'[q] = "received")
          /\ \A q \in R : leg'[q] = "received"
      BY <2>1, <1>0 DEF Legs
    <2>3. R \in SUBSET Reqs /\ \A q \in R : phase[q] # "settled"
      BY DEF PendingIndexed
    <2>4. ReqTypeOK' /\ ReqInv'
      BY <2>1, <2>2, <2>3, <1>0, SettleKeepsCalls, TypeOKParts DEF Outcomes
    <2> QED BY <2>1, <2>3, <2>4, SettleKeepsVia
  <1>6. CASE RelayTimeout(r)
    <2>1. Settle({r}, "device_timeout") /\ UNCHANGED <<sockVars, via, leg>> /\ phase[r] = "sent"
      BY <1>6 DEF RelayTimeout, PendingIndexed
    <2>2. ReqTypeOK' /\ ReqInv'
      BY <2>1, <1>0, SettleKeepsCalls, TypeOKParts DEF Outcomes
    <2> QED BY <2>1, <2>2, SettleKeepsVia
  <1> QED BY <1>1, <1>2, <1>3, <1>4, <1>5, <1>6 DEF RequestStep

\* Every step keeps the invariant.
THEOREM NextIInv == IInv /\ [Next]_vars => IInv'
  <1> SUFFICES ASSUME IInv, [Next]_vars PROVE IInv'
    OBVIOUS
  <1>1. ASSUME NEW s \in Sockets, SocketStep(s) PROVE IInv'
    BY <1>1, SocketStepKeepsIInv
  <1>2. ASSUME NEW r \in Reqs, RequestStep(r) PROVE IInv'
    BY <1>2, RequestStepKeepsIInv
  <1>3. ASSUME NEW d \in Devices, DisconnectDevice(d) PROVE IInv'
    BY <1>3, ClosingIsSafe DEF DisconnectDevice, IInv, TypeOK
  <1>4. CASE HeartbeatTick
    <2>1. isAlive' \in [Sockets -> BOOLEAN]
      BY <1>4 DEF HeartbeatTick, IInv, TypeOK
    <2> QED BY <1>4, <2>1, ClosingIsSafe DEF HeartbeatTick
  <1>5. CASE UNCHANGED vars
    BY <1>5 DEF vars, IInv, TypeOK, SocketsConsistent, OneLiveConnection, Registered,
                PendingIndexed, CallsConsistent, NoWaitOnClosedSocket, HonestOutcome
  <1> QED BY <1>1, <1>2, <1>3, <1>4, <1>5 DEF Next

-----------------------------------------------------------------------------
(* The theorems.                                                           *)

\* The inductive invariant holds in every reachable state.
THEOREM Invariance == Spec => []IInv
  BY InitIInv, NextIInv, PTL DEF Spec

\* Type correctness of the registry and the connections.
THEOREM TypeCorrect == Spec => []TypeOK
  <1>1. IInv => TypeOK
    BY DEF IInv
  <1> QED BY Invariance, <1>1, PTL

\* No entry of the pending maps is leaked or lost, whatever interleaving of
\* replies, timeouts, disconnects and reconnects.
THEOREM PendingIndexCorrect == Spec => []PendingIndexed
  <1>1. IInv => PendingIndexed
    BY DEF IInv
  <1> QED BY Invariance, <1>1, PTL

\* A request never waits on a connection that has closed.
THEOREM DisconnectFailsFast == Spec => []NoWaitOnClosedSocket
  <1>1. IInv => NoWaitOnClosedSocket
    BY DEF IInv
  <1> QED BY Invariance, <1>1, PTL

\* An open authenticated connection is the registered one of its device.
THEOREM NewestConnectionWins == Spec => []OneLiveConnection
  <1>1. IInv => OneLiveConnection
    BY DEF IInv
  <1> QED BY Invariance, <1>1, PTL

\* The outcome a caller sees is honest about what reached the device.
THEOREM OutcomesAreHonest == Spec => []HonestOutcome
  <1>1. IInv => HonestOutcome
    BY DEF IInv
  <1> QED BY Invariance, <1>1, PTL

-----------------------------------------------------------------------------
(* What a step may never do.                                               *)

\* Settling only open calls leaves every earlier outcome alone.
LEMMA SettleOpenOnly ==
    ASSUME TypeOK, CallsConsistent, NEW R \in SUBSET Reqs, NEW o, Settle(R, o),
           \A r \in R : phase[r] # "settled"
    PROVE  \A r \in Reqs : outcome[r] # "none" => outcome'[r] = outcome[r]
  BY DEF TypeOK, CallsConsistent, Settle

\* A relay promise settles at most once: late replies, timers that lost the
\* race and repeated disconnects never change what the caller was told.
THEOREM SettlesAtMostOnce == Spec => SettledOnce
  <1> DEFINE Kept == \A r \in Reqs : outcome[r] # "none" => outcome'[r] = outcome[r]
  <1>1. ASSUME IInv, [Next]_vars PROVE Kept
    <2> USE <1>1 DEF IInv
    <2>0. SUFFICES ASSUME outcome' # outcome PROVE Kept
      OBVIOUS
    <2>1. ASSUME NEW s \in Sockets, SocketStep(s) PROVE Kept
      <3>1. CloseEvent(s) /\ auth[s] = "yes"
        BY <2>0, <2>1 DEF SocketStep, Open, AuthFrame, CloseUnauthenticated, AuthRejected,
                          AuthAccepted, Pong, PeerCloses, CloseEvent, reqVars
      <3>2. Settle(reqIdsByDevice[DeviceOf[s]] \cap pendingRequests, "device_offline")
        BY <3>1 DEF CloseEvent, RejectPendingForDevice
      <3>3. \A r \in pendingRequests : r \in Reqs /\ phase[r] # "settled"
        BY DEF PendingIndexed
      <3> QED BY <3>2, <3>3, SettleOpenOnly
    <2>2. ASSUME NEW r \in Reqs, RequestStep(r) PROVE Kept
      <3>1. phase[r] # "settled" \/ DeviceReply(r)
        BY <2>0, <2>2 DEF RequestStep, RelayCall, GuardPasses, GuardBlocks, DeviceApplies, RelayTimeout,
                    TypeOK, PendingIndexed
      <3>2. CASE DeviceReply(r)
        <4>1. Settle({r} \cap pendingRequests, "reply")
          BY <3>2 DEF DeviceReply
        <4> QED BY <4>1, SettleOpenOnly DEF PendingIndexed
      <3>3. CASE ~DeviceReply(r)
        <4>1. \E o : Settle({r}, o)
          BY <2>0, <2>2, <3>3 DEF RequestStep, RelayCall, GuardPasses, GuardBlocks, DeviceApplies,
                                  RelayTimeout, SendRelay
        <4> QED BY <3>1, <3>3, <4>1, SettleOpenOnly
      <3> QED BY <3>2, <3>3
    <2>3. ASSUME NEW d \in Devices, DisconnectDevice(d) PROVE Kept
      BY <2>0, <2>3 DEF DisconnectDevice, reqVars
    <2> QED BY <2>0, <2>1, <2>2, <2>3 DEF Next, HeartbeatTick, vars, reqVars
  <1> QED BY Invariance, <1>1, PTL DEF Spec, SettledOnce

\* Only the registered socket's own close makes the registry forget a device:
\* a superseded socket never takes its replacement down with it.
THEOREM SupersededSocketHarmless == Spec => UnregisteredByOwnClose
  <1> DEFINE Kept == \A d \in Devices :
                       deviceSockets[d] # NoSocket /\ deviceSockets'[d] # deviceSockets[d] =>
                          \/ deviceSockets'[d] # NoSocket
                          \/ ready'[deviceSockets[d]] = "CLOSED"
  <1>1. ASSUME IInv, [Next]_vars PROVE Kept
    <2> USE <1>1 DEF IInv
    <2>0. SUFFICES ASSUME deviceSockets' # deviceSockets PROVE Kept
      OBVIOUS
    <2>1. PICK s \in Sockets : AuthAccepted(s) \/ CloseEvent(s)
      BY <2>0 DEF Next, SocketStep, RequestStep, Open, AuthFrame, CloseUnauthenticated,
                  AuthRejected, Pong, PeerCloses, RelayCall, GuardPasses, GuardBlocks,
                  DeviceApplies, DeviceReply, RelayTimeout, DisconnectDevice, HeartbeatTick,
                  vars, sockVars
    <2>2. CASE AuthAccepted(s)
      BY <2>2 DEF AuthAccepted, RegisterDevice, TypeOK
    <2>3. CASE CloseEvent(s)
      BY <2>0, <2>3 DEF CloseEvent, UnregisterDevice, Registered, TypeOK
    <2> QED BY <2>1, <2>2, <2>3
  <1> QED BY Invariance, <1>1, PTL DEF Spec, UnregisteredByOwnClose

-----------------------------------------------------------------------------
(* DeviceRelay implements RelayPromise.                                    *)

\* Settling is the abstract SettleAll, or a stutter when nothing is settled.
LEMMA SettleImplements ==
    ASSUME IInv, NEW R \in SUBSET Reqs, NEW o \in Outcomes \ {"none"}, Settle(R, o),
           Applied' = Applied,
           \A r \in R : phase[r] \in {"guard", "sent"} \/ (phase[r] = "idle" /\ o = "device_offline"),
           o = "reply" => R \subseteq Applied,
           o = "blocked" => R \cap Applied = {}
    PROVE  [Promise!Next]_<<CallStatus, Applied>>
  <1>1. CASE R = {}
    <2>1. CallStatus' = CallStatus
      BY <1>1 DEF CallStatus, Settle, IInv, TypeOK
    <2> QED BY <2>1
  <1>2. CASE R # {}
    <2>1. CallStatus' = [r \in Reqs |-> IF r \in R THEN o ELSE CallStatus[r]]
      BY DEF CallStatus, Settle
    <2>2. \A r \in R : \/ CallStatus[r] = "running"
                       \/ CallStatus[r] = "idle" /\ o = "device_offline"
      BY DEF CallStatus
    <2>3. Promise!SettleAll(R, o)
      BY <1>2, <2>1, <2>2 DEF Promise!SettleAll
    <2>4. o \in Promise!Results
      BY DEF Promise!Results, Outcomes
    <2> QED BY <2>3, <2>4 DEF Promise!Next
  <1> QED BY <1>1, <1>2

\* sendRelay is the abstract Start, a stutter for a call already awaiting its
\* guard, or the settlement of a call whose device is offline.
LEMMA SendRelayImplements ==
    ASSUME IInv, NEW r \in Reqs, phase[r] \in {"idle", "guard"}, SendRelay(r)
    PROVE  [Promise!Next]_<<CallStatus, Applied>>
  <1>1. CASE IsSocketOpen(TargetOf[r])
    <2>1. /\ phase' = [phase EXCEPT ![r] = "sent"]
          /\ leg' = [leg EXCEPT ![r] = "down"]
          /\ UNCHANGED outcome
      BY <1>1 DEF SendRelay
    <2>2. leg[r] = "none" /\ leg \in [Reqs -> Legs] /\ phase \in [Reqs -> Phases]
      BY DEF IInv, CallsConsistent, TypeOK
    <2>3. Applied' = Applied
      BY <2>1, <2>2 DEF Applied
    <2>4. CallStatus' = [CallStatus EXCEPT ![r] = "running"]
      BY <2>1, <2>2 DEF CallStatus
    <2>5. CASE phase[r] = "idle"
      <3>1. CallStatus[r] = "idle"
        BY <2>5 DEF CallStatus
      <3> QED BY <2>3, <2>4, <3>1 DEF Promise!Next, Promise!Start
    <2>6. CASE phase[r] = "guard"
      <3>1. CallStatus[r] = "running" /\ CallStatus = [q \in Reqs |-> CallStatus[q]]
        BY <2>6 DEF CallStatus
      <3>2. CallStatus' = CallStatus
        BY <2>4, <3>1
      <3> QED BY <2>3, <3>2
    <2> QED BY <2>5, <2>6
  <1>2. CASE ~IsSocketOpen(TargetOf[r])
    <2>1. Settle({r}, "device_offline") /\ leg' = leg
      BY <1>2 DEF SendRelay
    <2>2. Applied' = Applied
      BY <2>1 DEF Applied
    <2> QED BY <2>1, <2>2, SettleImplements DEF Outcomes
  <1> QED BY <1>1, <1>2

LEMMA RequestStepImplements ==
    ASSUME IInv, NEW r \in Reqs, RequestStep(r)
    PROVE  [Promise!Next]_<<CallStatus, Applied>>
  <1>0. leg \in [Reqs -> Legs] /\ phase \in [Reqs -> Phases]
    BY DEF IInv, TypeOK
  <1>1. CASE RelayCall(r)
    <2>1. CASE IsSocketOpen(TargetOf[r]) /\ r \in Guarded
      <3>1. phase[r] = "idle" /\ phase' = [phase EXCEPT ![r] = "guard"] /\ UNCHANGED <<outcome, leg>>
        BY <1>1, <2>1 DEF RelayCall
      <3>2. Applied' = Applied
        BY <3>1 DEF Applied
      <3>3. CallStatus[r] = "idle" /\ CallStatus' = [CallStatus EXCEPT ![r] = "running"]
        BY <3>1, <1>0 DEF CallStatus
      <3> QED BY <3>2, <3>3 DEF Promise!Next, Promise!Start
    <2>2. CASE ~(IsSocketOpen(TargetOf[r]) /\ r \in Guarded)
      BY <1>1, <2>2, SendRelayImplements DEF RelayCall
    <2> QED BY <2>1, <2>2
  <1>2. CASE GuardPasses(r)
    BY <1>2, SendRelayImplements DEF GuardPasses
  <1>3. CASE GuardBlocks(r)
    <2>1. Settle({r}, "blocked") /\ leg' = leg /\ phase[r] = "guard"
      BY <1>3 DEF GuardBlocks
    <2>2. Applied' = Applied /\ r \notin Applied
      BY <2>1 DEF Applied, IInv, CallsConsistent
    <2> QED BY <2>1, <2>2, SettleImplements DEF Outcomes
  <1>4. CASE DeviceApplies(r)
    <2>1. leg[r] = "down" /\ leg' = [leg EXCEPT ![r] = "up"] /\ UNCHANGED <<phase, outcome>>
      BY <1>4 DEF DeviceApplies
    <2>2. r \notin Applied /\ Applied' = Applied \cup {r} /\ CallStatus' = CallStatus
      BY <2>1, <1>0 DEF Applied, CallStatus
    <2>3. CallStatus[r] \notin {"idle", "blocked"}
      BY <2>1 DEF CallStatus, IInv, TypeOK, Outcomes, CallsConsistent, HonestOutcome
    <2> QED BY <2>2, <2>3 DEF Promise!Next, Promise!Apply
  <1>5. CASE DeviceReply(r)
    <2> DEFINE R == {r} \cap pendingRequests
    <2>1. leg[r] = "up" /\ leg' = [leg EXCEPT ![r] = "received"] /\ Settle(R, "reply")
      BY <1>5 DEF DeviceReply
    <2>2. Applied' = Applied /\ r \in Applied
      BY <2>1, <1>0 DEF Applied
    <2>3. R \in SUBSET Reqs /\ \A q \in R : phase[q] = "sent"
      BY DEF IInv, PendingIndexed
    <2> QED BY <2>1, <2>2, <2>3, SettleImplements DEF Outcomes
  <1>6. CASE RelayTimeout(r)
    <2>1. Settle({r}, "device_timeout") /\ leg' = leg /\ phase[r] = "sent"
      BY <1>6 DEF RelayTimeout, IInv, PendingIndexed
    <2>2. Applied' = Applied
      BY <2>1 DEF Applied
    <2> QED BY <2>1, <2>2, SettleImplements DEF Outcomes
  <1> QED BY <1>1, <1>2, <1>3, <1>4, <1>5, <1>6 DEF RequestStep

\* Sockets, maps and timers implement the promise a caller relies on.
THEOREM RelayKeepsPromise == Spec => PromiseKept
  <1>1. Init => Promise!Init
    BY DEF Init, Promise!Init, CallStatus, Applied
  <1>2. ASSUME IInv, [Next]_vars PROVE [Promise!Next]_<<CallStatus, Applied>>
    <2>0. USE <1>2
    <2>1. CASE UNCHANGED <<phase, outcome, leg>>
      BY <2>1 DEF CallStatus, Applied
    <2>2. CASE ~UNCHANGED <<phase, outcome, leg>>
      <3>1. ASSUME NEW s \in Sockets, SocketStep(s) PROVE [Promise!Next]_<<CallStatus, Applied>>
        <4>1. CloseEvent(s) /\ auth[s] = "yes"
          BY <2>2, <3>1 DEF SocketStep, Open, AuthFrame, CloseUnauthenticated, AuthRejected,
                            AuthAccepted, Pong, PeerCloses, CloseEvent, reqVars
        <4> DEFINE R == reqIdsByDevice[DeviceOf[s]] \cap pendingRequests
        <4>2. Settle(R, "device_offline") /\ leg' = leg
          BY <4>1 DEF CloseEvent, RejectPendingForDevice
        <4>3. R \in SUBSET Reqs /\ \A q \in R : phase[q] = "sent"
          BY DEF IInv, PendingIndexed
        <4>4. Applied' = Applied
          BY <4>2 DEF Applied
        <4> QED BY <4>2, <4>3, <4>4, SettleImplements DEF Outcomes
      <3>2. ASSUME NEW r \in Reqs, RequestStep(r) PROVE [Promise!Next]_<<CallStatus, Applied>>
        BY <3>2, RequestStepImplements
      <3> QED BY <2>2, <3>1, <3>2 DEF Next, DisconnectDevice, HeartbeatTick, vars, reqVars
    <2> QED BY <2>1, <2>2
  <1> QED BY Invariance, <1>1, <1>2, PTL DEF Spec, PromiseKept, Promise!Spec, Promise!pvars

=============================================================================
