----------------------------- MODULE BoardsProofs -----------------------------
(* What is claimed of the relays of the two boards, for any number of channels. *)
(* First the ESP8266 (ChannelControl), of its own specification, for any wiring *)
(* of the wall switches and any pushes; then the tasks of the ESP32            *)
(* (Esp32Relays), whose steps are those of MCSpec, for any configuration.      *)
EXTENDS MCBoards, FiniteSetTheorems, TLAPS

-----------------------------------------------------------------------------
(* The ESP8266.                                                            *)

\* channel_control.cpp keeps lastState[] current on every change.
LastIsOn == cfg.last = on

\* The file is as exclusive as the relays were when it was written.
FileHolds == flash.hw.interlock => overlapped \/ AtMostOne(flash.last)

RelayInv == LastIsOn /\ ArmedIsOn /\ InterlockHolds /\ FileHolds /\ CleanIsRestorable

\* A live input whose contact has not moved is confirmed where it stands.
InputInv == \A c \in Channels : hasBaseline[c] /\ ~moved[c] => debounced[c] = contact[c]

IInv == TypeOK /\ RelayInv /\ InputInv

USE DEF Config, Hardware

LEMMA DefaultIsConfig == loadDefault \in Config /\ loadDefault.last = AllOff
BY DEF loadDefault, AllOff, Modes

LEMMA InitIInv == Init => IInv
<1> SUFFICES ASSUME Init PROVE IInv
  OBVIOUS
<1> USE DEF Init
<1>1. TypeOK
  BY DefaultIsConfig DEF TypeOK, AllOff
<1>2. RelayInv
  BY DefaultIsConfig DEF RelayInv, LastIsOn, ArmedIsOn, InterlockHolds, FileHolds,
     CleanIsRestorable, AtMostOne, AllOff
<1>3. InputInv
  BY DEF InputInv, AllOff
<1> QED BY <1>1, <1>2, <1>3 DEF IInv

-----------------------------------------------------------------------------
\* channelControlSetState keeps the relays' part of the invariant, whoever calls.
LEMMA SetStateKeeps ==
    ASSUME TypeOK, RelayInv, NEW c \in Channels, NEW v \in BOOLEAN,
           channelControlSetState(c, v), overlapped' = overlapped
    PROVE  /\ on' \in [Channels -> BOOLEAN]
           /\ armed' \in [Channels -> BOOLEAN]
           /\ cfg' \in Config
           /\ dirty' \in BOOLEAN /\ fresh' \in BOOLEAN
           /\ RelayInv'
<1> DEFINE others == Forced(c, v)
<1>1. /\ on' = After(on, c, v, others)
      /\ cfg' = [cfg EXCEPT !.last = After(cfg.last, c, v, others)]
      /\ armed' = After(armed, c, v /\ cfg.hw.inching[c], others)
      /\ dirty' = TRUE
      /\ flash' = flash
  BY DEF channelControlSetState, markDirty
<1>2. on \in [Channels -> BOOLEAN] /\ armed \in [Channels -> BOOLEAN] /\ cfg \in Config
  BY DEF TypeOK
<1>3. on' \in [Channels -> BOOLEAN] /\ armed' \in [Channels -> BOOLEAN]
  BY <1>1, <1>2 DEF After
<1>4. LastIsOn'
  BY <1>1, <1>2 DEF RelayInv, LastIsOn
<1>5. cfg' \in Config /\ cfg'.hw = cfg.hw
  BY <1>1, <1>2, <1>3, <1>4 DEF LastIsOn
<1>6. \A d \in Channels : /\ on'[d] = IF d = c THEN v ELSE on[d] /\ d \notin others
                          /\ armed'[d] = IF d = c THEN v /\ cfg.hw.inching[c]
                                                  ELSE armed[d] /\ d \notin others
  BY <1>1 DEF After
<1>7. ArmedIsOn'
  BY <1>6 DEF RelayInv, ArmedIsOn
<1>8. InterlockHolds'
  <2> SUFFICES ASSUME cfg.hw.interlock, ~overlapped PROVE AtMostOne(on)'
    BY <1>5 DEF InterlockHolds
  <2>1. AtMostOne(on)
    BY DEF RelayInv, InterlockHolds
  <2>2. CASE v
    <3>1. \A d \in Channels : on'[d] => d = c
      BY <1>6, <2>2 DEF Forced
    <3> QED BY <3>1 DEF AtMostOne
  <2>3. CASE ~v
    <3>1. \A d \in Channels : on'[d] => on[d]
      BY <1>6, <2>3
    <3> QED BY <2>1, <3>1 DEF AtMostOne
  <2> QED BY <2>2, <2>3
<1>9. FileHolds' /\ CleanIsRestorable'
  BY <1>1 DEF RelayInv, FileHolds, CleanIsRestorable
<1>10. dirty' \in BOOLEAN /\ fresh' \in BOOLEAN
  BY DEF channelControlSetState, markDirty
<1> QED BY <1>3, <1>4, <1>5, <1>7, <1>8, <1>9, <1>10 DEF RelayInv

\* A boot from a file that is well formed and as exclusive as it must be.
LEMMA SetupKeeps ==
    ASSUME TypeOK, NEW k \in Config, k.hw.interlock => overlapped \/ AtMostOne(k.last),
           setup(k), flash' = k, failed' = FALSE
    PROVE  IInv'
<1> USE DEF setup
<1>1. /\ on' = k.last /\ cfg' = k /\ flash' = k /\ armed' = AllOff
      /\ overlapped' = overlapped /\ hasBaseline' = AllOff
  OBVIOUS
<1>2. TypeOK'
  <2>1. active' \in [Channels -> BOOLEAN] /\ \A c \in Channels : active'[c] => c \in HasInput
    BY DEF WantActive
  <2> QED BY <2>1 DEF TypeOK, AllOff
<1>3. RelayInv'
  BY <1>1 DEF RelayInv, LastIsOn, ArmedIsOn, InterlockHolds, FileHolds, CleanIsRestorable,
     AtMostOne, AllOff
<1>4. InputInv'
  BY <1>1 DEF InputInv, AllOff
<1> QED BY <1>2, <1>3, <1>4 DEF IInv

-----------------------------------------------------------------------------
LEMMA CommandsKeep ==
    ASSUME IInv, NEW c \in Channels,
           \/ \E v \in BOOLEAN : Command(c, v)
           \/ InchingExpires(c)
    PROVE  IInv'
<1>1. PICK v \in BOOLEAN :
        /\ channelControlSetState(c, v)
        /\ UNCHANGED <<pending, contact, inputs, overlapped>>
  BY DEF Command, InchingExpires
<1>2. TypeOK /\ RelayInv /\ InputInv
  BY DEF IInv
<1>3. /\ on' \in [Channels -> BOOLEAN]
      /\ armed' \in [Channels -> BOOLEAN]
      /\ cfg' \in Config
      /\ dirty' \in BOOLEAN /\ fresh' \in BOOLEAN
      /\ RelayInv'
  BY <1>1, <1>2, SetStateKeeps
<1>4. UNCHANGED <<flash, failed, pending, contact, inputs, overlapped>>
  BY <1>1 DEF channelControlSetState
<1>5. TypeOK'
  BY <1>2, <1>3, <1>4 DEF TypeOK, inputs
<1>6. InputInv'
  BY <1>2, <1>4 DEF InputInv, inputs
<1> QED BY <1>3, <1>5, <1>6 DEF IInv

LEMMA AllOffKeeps == IInv /\ TurnAllOff => IInv'
<1> SUFFICES ASSUME IInv, TurnAllOff PROVE IInv'
  OBVIOUS
<1> USE DEF TurnAllOff, markDirty
<1>1. TypeOK /\ RelayInv /\ InputInv
  BY DEF IInv
<1>2. \A c \in Channels : ~on'[c] /\ ~armed'[c]
  BY <1>1 DEF AllOff, RelayInv, ArmedIsOn
<1>3. cfg'.last = on' /\ cfg'.hw = cfg.hw /\ cfg' \in Config
  BY <1>1 DEF RelayInv, LastIsOn, TypeOK, AllOff
<1>4. TypeOK'
  BY <1>1, <1>3 DEF TypeOK, AllOff, inputs
<1>5. RelayInv'
  BY <1>1, <1>2, <1>3 DEF RelayInv, LastIsOn, ArmedIsOn, InterlockHolds, FileHolds,
     CleanIsRestorable, AtMostOne
<1>6. InputInv'
  BY <1>1 DEF InputInv, inputs
<1> QED BY <1>4, <1>5, <1>6 DEF IInv

LEMMA PushKeeps ==
    ASSUME IInv, NEW hw \in Pushes, handleHwConfigPush(hw)
    PROVE  IInv'
<1> USE DEF handleHwConfigPush, markDirty, relays
<1>1. TypeOK /\ RelayInv /\ InputInv /\ hw \in Hardware
  BY PushesAreHardware DEF IInv
<1>2. cfg'.last = cfg.last /\ cfg'.hw = hw /\ cfg' \in Config
  BY <1>1 DEF TypeOK
<1>3. overlapped' \in BOOLEAN
  BY <1>1 DEF TypeOK
<1>4. TypeOK'
  BY <1>1, <1>2, <1>3 DEF TypeOK, inputs
<1>5. overlapped => overlapped'
  OBVIOUS
<1>6. RelayInv'
  BY <1>1, <1>2, <1>5 DEF RelayInv, LastIsOn, ArmedIsOn, InterlockHolds, FileHolds,
     CleanIsRestorable, AtMostOne
<1>7. InputInv'
  BY <1>1 DEF InputInv, inputs
<1> QED BY <1>4, <1>6, <1>7 DEF IInv

LEMMA FlushKeeps ==
    ASSUME IInv, NEW ok \in BOOLEAN, loop(ok)
    PROVE  IInv'
<1> USE DEF loop, save, relays, inputs
<1>1. TypeOK /\ RelayInv /\ InputInv
  BY DEF IInv
<1>2. TypeOK'
  BY <1>1 DEF TypeOK
<1>3. RelayInv'
  BY <1>1 DEF RelayInv, LastIsOn, ArmedIsOn, InterlockHolds, FileHolds, CleanIsRestorable,
     AtMostOne
<1>4. InputInv'
  BY <1>1 DEF InputInv
<1> QED BY <1>2, <1>3, <1>4 DEF IInv

\* The wall switch: only a confirmed change reaches the relays.
LEMMA InputsKeep ==
    ASSUME IInv, NEW c \in Channels, MoveContact(c) \/ Poll(c)
    PROVE  IInv'
<1> USE DEF IInv
<1>1. ASSUME UNCHANGED <<relays, store, overlapped>> PROVE RelayInv'
  BY <1>1 DEF RelayInv, LastIsOn, ArmedIsOn, InterlockHolds, FileHolds, CleanIsRestorable,
     AtMostOne, relays, store
<1>2. CASE MoveContact(c)
  <2>1. TypeOK' /\ InputInv'
    BY <1>2 DEF MoveContact, TypeOK, InputInv, relays, store
  <2> QED BY <2>1, <1>1, <1>2 DEF MoveContact
<1>3. CASE refreshActive(c)
  <2>1. active'[c] => c \in HasInput
    BY <1>3 DEF refreshActive, WantActive, TypeOK
  <2>2. TypeOK'
    BY <1>3, <2>1 DEF refreshActive, TypeOK, relays, store
  <2>3. InputInv'
    BY <1>3 DEF refreshActive, TypeOK, InputInv
  <2> QED BY <2>2, <2>3, <1>1, <1>3 DEF refreshActive
<1>4. CASE PollBounce(c)
  <2>1. TypeOK' /\ InputInv'
    BY <1>4 DEF PollBounce, TypeOK, InputInv, relays, store
  <2> QED BY <2>1, <1>1, <1>4 DEF PollBounce
<1>5. CASE PollBaseline(c)
  <2>1. TypeOK' /\ InputInv'
    BY <1>5 DEF PollBaseline, TypeOK, InputInv, relays, store
  <2> QED BY <2>1, <1>1, <1>5 DEF PollBaseline
<1>6. CASE PollConfirms(c)
  <2>1. InputInv'
    BY <1>6 DEF PollConfirms, TypeOK, InputInv
  <2>2. /\ debounced' \in [Channels -> BOOLEAN] /\ moved' \in [Channels -> BOOLEAN]
        /\ UNCHANGED <<pending, contact, active, engaged, hasBaseline, overlapped>>
    BY <1>6 DEF PollConfirms, TypeOK
  <2>3. CASE UNCHANGED <<relays, store>>
    <3>1. TypeOK'
      BY <2>2, <2>3 DEF TypeOK, relays, store
    <3> QED BY <1>1, <2>1, <2>2, <2>3, <3>1
  <2>4. CASE \E v \in BOOLEAN : channelControlSetState(c, v)
    <3>1. /\ on' \in [Channels -> BOOLEAN] /\ armed' \in [Channels -> BOOLEAN]
          /\ cfg' \in Config /\ dirty' \in BOOLEAN /\ fresh' \in BOOLEAN
          /\ RelayInv'
      BY <2>2, <2>4, SetStateKeeps
    <3>2. UNCHANGED <<flash, failed>>
      BY <2>4 DEF channelControlSetState
    <3>3. TypeOK'
      BY <2>2, <3>1, <3>2 DEF TypeOK
    <3> QED BY <2>1, <3>1, <3>3
  <2> QED BY <1>6, <2>3, <2>4 DEF PollConfirms, TypeOK
<1> QED BY <1>2, <1>3, <1>4, <1>5, <1>6 DEF Poll

LEMMA RequestsKeep ==
    IInv /\ (recoveryRequestReboot \/ recoveryRequestFactoryReset) => IInv'
<1> SUFFICES ASSUME IInv, recoveryRequestReboot \/ recoveryRequestFactoryReset PROVE IInv'
  OBVIOUS
<1> USE DEF IInv, recoveryRequestReboot, recoveryRequestFactoryReset, relays, store, inputs
<1>1. TypeOK'
  BY DEF TypeOK
<1>2. RelayInv'
  BY DEF RelayInv, LastIsOn, ArmedIsOn, InterlockHolds, FileHolds, CleanIsRestorable, AtMostOne
<1>3. InputInv'
  BY DEF InputInv
<1> QED BY <1>1, <1>2, <1>3

LEMMA RestartKeeps == IInv /\ Restart => IInv'
<1> SUFFICES ASSUME IInv, Restart PROVE IInv'
  OBVIOUS
<1>1. /\ TypeOK /\ flash \in Config /\ cfg \in Config
      /\ flash.hw.interlock => overlapped \/ AtMostOne(flash.last)
      /\ cfg.hw.interlock => overlapped \/ AtMostOne(cfg.last)
  BY DEF IInv, TypeOK, RelayInv, FileHolds, InterlockHolds, LastIsOn
<1>2. CASE PowerLoss \/ RequestedReboot
  BY <1>1, <1>2, SetupKeeps DEF PowerLoss, RequestedReboot
<1>3. ASSUME NEW ok \in BOOLEAN, NetworkRestart(ok) PROVE IInv'
  <2>1. setup(flash') /\ failed' = FALSE /\ flash' \in {cfg, flash}
    BY <1>3 DEF NetworkRestart
  <2>2. CASE flash' = cfg
    <3>1. setup(cfg)
      BY <2>1, <2>2 DEF setup
    <3> QED BY <1>1, <2>1, <2>2, <3>1, SetupKeeps
  <2>3. CASE flash' = flash
    <3>1. setup(flash)
      BY <2>1, <2>3 DEF setup
    <3> QED BY <1>1, <2>1, <2>3, <3>1, SetupKeeps
  <2> QED BY <2>1, <2>2, <2>3
<1>4. CASE doFactoryReset
  <2>1. loadDefault.hw.interlock = FALSE
    BY DEF loadDefault
  <2> QED BY <1>1, <1>4, <2>1, DefaultIsConfig, SetupKeeps DEF doFactoryReset
<1> QED BY <1>2, <1>3, <1>4 DEF Restart

LEMMA StutterKeeps == IInv /\ UNCHANGED vars => IInv'
BY DEF IInv, TypeOK, RelayInv, LastIsOn, ArmedIsOn, InterlockHolds, FileHolds,
   CleanIsRestorable, AtMostOne, InputInv, vars

LEMMA NextIInv == IInv /\ [Next]_vars => IInv'
<1> SUFFICES ASSUME IInv, [Next]_vars PROVE IInv'
  OBVIOUS
<1>1. ASSUME NEW c \in Channels, NEW v \in BOOLEAN, Command(c, v) PROVE IInv'
  BY <1>1, CommandsKeep
<1>2. CASE TurnAllOff
  BY <1>2, AllOffKeeps
<1>3. ASSUME NEW c \in Channels, InchingExpires(c) PROVE IInv'
  BY <1>3, CommandsKeep
<1>4. ASSUME NEW c \in Channels, MoveContact(c) \/ Poll(c) PROVE IInv'
  BY <1>4, InputsKeep
<1>5. ASSUME NEW hw \in Pushes, handleHwConfigPush(hw) PROVE IInv'
  BY <1>5, PushKeeps
<1>6. ASSUME NEW ok \in BOOLEAN, loop(ok) PROVE IInv'
  BY <1>6, FlushKeeps
<1>7. CASE recoveryRequestReboot \/ recoveryRequestFactoryReset
  BY <1>7, RequestsKeep
<1>8. CASE Restart
  BY <1>8, RestartKeeps
<1> QED BY <1>1, <1>2, <1>3, <1>4, <1>5, <1>6, <1>7, <1>8, StutterKeeps DEF Next

LEMMA IInvHolds == Spec => []IInv
BY InitIInv, NextIInv, PTL DEF Spec

-----------------------------------------------------------------------------
\* The relays, the two copies of the configuration and the inputs keep their types.
THEOREM TypeCorrect == Spec => []TypeOK
BY IInvHolds, PTL DEF IInv

\* A deadline is pending only on a channel that is ON.
THEOREM DeadlineOnlyOnOn == Spec => []ArmedIsOn
<1>1. IInv => ArmedIsOn
  BY DEF IInv, RelayInv
<1> QED BY <1>1, IInvHolds, PTL

\* The interlock is kept across commands, wall switches, flushes and restarts.
THEOREM InterlockKept == Spec => []InterlockHolds
<1>1. IInv => InterlockHolds
  BY DEF IInv, RelayInv
<1> QED BY <1>1, IInvHolds, PTL

\* When nothing is dirty the file is the board as it stands.
THEOREM CleanFileRestores == Spec => []CleanIsRestorable
<1>1. IInv => CleanIsRestorable
  BY DEF IInv, RelayInv
<1> QED BY <1>1, IInvHolds, PTL

\* A confirmed change of a live wall switch was made by a hand.
THEOREM OneMoveOnePress == Spec => NoPhantomPress
<1>1. ASSUME IInv, [Next]_vars, NEW c \in Channels,
             hasBaseline[c], hasBaseline'[c], debounced'[c] # debounced[c]
      PROVE  moved[c]
  <2>1. \E d \in Channels : PollConfirms(d) \/ PollBaseline(d) \/ Restart
    BY <1>1 DEF Next, vars, Command, TurnAllOff, InchingExpires, MoveContact, Poll,
       refreshActive, PollBounce, handleHwConfigPush, loop, recoveryRequestReboot,
       recoveryRequestFactoryReset, inputs
  <2>2. ~Restart
    BY <1>1 DEF Restart, PowerLoss, NetworkRestart, RequestedReboot, doFactoryReset, setup, AllOff
  <2>3. PICK d \in Channels : PollConfirms(d) \/ PollBaseline(d)
    BY <2>1, <2>2
  <2>4. d = c
    BY <1>1, <2>3 DEF IInv, TypeOK, PollConfirms, PollBaseline
  <2>5. PollConfirms(c)
    BY <1>1, <2>3, <2>4 DEF PollBaseline
  <2> QED BY <1>1, <2>5 DEF PollConfirms, IInv, InputInv
<1>2. IInv /\ [Next]_vars =>
        [\A c \in Channels : hasBaseline[c] /\ hasBaseline'[c] /\ debounced'[c] # debounced[c]
                               => moved[c]]_vars
  BY <1>1
<1> QED BY <1>2, IInvHolds, PTL DEF Spec, NoPhantomPress

-----------------------------------------------------------------------------
(* The tasks of the ESP32.                                                 *)

Walking == {"others", "stopother", "offother", "tellother"}
CloudPcs == {"idle", "copy", "read", "publish"}
CallPcs == Walking \cup CloudPcs \cup {"stop", "config", "own", "tell", "arm"}

\* A walk begins with the first channel and stays inside the board's; only an ON
\* command starts the timer.
InBoard(q) ==
    /\ q.pc \in {"idle", "stop", "config"} => q.at = 0
    /\ q.pc \in Walking \cup {"publish"} => q.at < Count
    /\ q.inch => q.on

\* The cloud's task only publishes.
CallsTyped ==
    /\ call \in [E!Tasks -> E!Calls] /\ \A t \in E!Tasks : InBoard(call[t])
    /\ call["cloud"].pc \in CloudPcs

TasksTyped == E!TypeOK /\ CallsTyped

\* The channels that a walk has passed are OFF, all but its own; after it, all of
\* the board's.
WalkedOff(t) ==
    /\ call[t].pc \in Walking => \A i \in relay : i < call[t].at => i = call[t].ch
    /\ call[t].pc = "tellother" => call[t].at \notin relay
    /\ call[t].pc = "own" /\ interlock => relay \subseteq {call[t].ch}

\* An ON command that is alone has kept OFF what it has passed, since nobody else
\* turns a channel ON.
AloneInv ==
    /\ alone => \A t \in E!Tasks : E!Turning(t) =>
           WalkedOff(t) /\ \A s \in E!Tasks : E!Turning(s) => s = t
    /\ sole => \A i, k \in relay : i = k

\* What the report that t has still to make will say.
WillSay(t) == call[t].on /\ call[t].pc # "tellother"

\* A channel whose reports have not crossed has at most one on its way, which says
\* how it stands; the connection has said so if it has none and comes to none.
Reported(c) ==
    c \notin unsure =>
        /\ \A t \in E!Tasks : E!Reporting(t, c) =>
               (WillSay(t) <=> c \in relay) /\ \A s \in E!Tasks : E!Reporting(s, c) => s = t
        /\ linked /\ c \in known =>
               \/ c \in told <=> c \in relay
               \/ c \in todo
               \/ \E t \in E!Tasks : E!Reporting(t, c)

\* What a connection has published or reported is forgotten with it, and it does
\* not end while it publishes.
ReportInv ==
    /\ \A c \in E!Relays : Reported(c)
    /\ ~linked => known = {} /\ call["cloud"].pc = "idle"
    /\ call["cloud"].pc \in {"idle", "copy"} => todo = {}

TasksInv == TasksTyped /\ E!InchingTimed /\ AloneInv /\ ReportInv

LEMMA RelaysAreFinite ==
    ASSUME NEW S \in SUBSET E!Relays
    PROVE  IsFiniteSet(S) /\ E!Cardinality(S) = Cardinality(S)
<1>1. Count \in Nat \ {0}
  BY TasksAssumption DEF E!CountsAssumption
<1>2. IsFiniteSet(E!Relays)
  BY <1>1, FS_Interval DEF E!Relays
<1>3. IsFiniteSet(S)
  BY <1>2, FS_Subset
<1>4. E!Cardinality(S) = Cardinality(S)
  BY DEF E!Cardinality, Cardinality
<1> QED BY <1>3, <1>4

\* At most one channel is ON, said with and without counting.
LEMMA AtMostOneOn ==
    ASSUME NEW S \in SUBSET E!Relays
    PROVE  E!Cardinality(S) <= 1 <=> \A i, k \in S : i = k
<1>1. IsFiniteSet(S) /\ E!Cardinality(S) = Cardinality(S)
  BY RelaysAreFinite
<1>2. ASSUME \A i, k \in S : i = k PROVE Cardinality(S) <= 1
  <2>1. CASE S = {}
    BY <2>1, FS_EmptySet
  <2>2. ASSUME NEW i \in S PROVE Cardinality(S) <= 1
    <3>1. S = {i}
      BY <1>2
    <3> QED BY <3>1, FS_Singleton
  <2> QED BY <2>1, <2>2
<1>3. ASSUME NEW i \in S, NEW k \in S, i # k PROVE ~ (Cardinality(S) <= 1)
  <2>1. IsFiniteSet({i}) /\ Cardinality({i}) = 1
    BY FS_Singleton
  <2>2. IsFiniteSet({i} \cup {k}) /\ Cardinality({i} \cup {k}) = 2
    BY <1>3, <2>1, FS_AddElement
  <2>3. Cardinality({i} \cup {k}) <= Cardinality(S)
    BY <1>1, <2>2, FS_Subset
  <2>4. Cardinality(S) \in Nat
    BY <1>1, FS_CardinalityType
  <2> QED BY <2>2, <2>3, <2>4
<1> QED BY <1>1, <1>2, <1>3

LEMMA SomeChannels == Count \in Nat \ {0} /\ MaxCalls \in Nat /\ MaxMisses \in Nat /\ 0 \in E!Relays
BY TasksAssumption DEF E!CountsAssumption, E!Relays

\* The records a call goes through.
LEMMA IdleCall ==
    /\ E!Idle \in E!Calls /\ InBoard(E!Idle) /\ E!Idle.pc = "idle" /\ E!Idle.at = 0
    /\ ~E!Idle.on /\ ~E!Idle.inch
BY SomeChannels DEF E!Idle, E!Calls, E!Relays, InBoard, Walking

LEMMA CallFields ==
    ASSUME NEW q \in E!Calls
    PROVE  /\ q.ch \in E!Relays /\ q.ch \in 0..Count /\ q.on \in BOOLEAN /\ q.inch \in BOOLEAN
           /\ q.at \in 0..Count /\ q.at \in Nat /\ q.pc \in CallPcs
BY SomeChannels DEF E!Calls, E!Relays, CallPcs, Walking, CloudPcs

\* What a step does to its task's record, and to nobody else's.
OthersKept(t) == \A s \in E!Tasks \ {t} : call'[s] = call[s]

Moved(t, p) ==
    /\ OthersKept(t) /\ call'[t].pc = p /\ call'[t].ch = call[t].ch /\ call'[t].on = call[t].on
    /\ call'[t].inch = call[t].inch /\ call'[t].at = call[t].at

WalksOn(t) ==
    /\ OthersKept(t) /\ call'[t].ch = call[t].ch /\ call'[t].on = call[t].on
    /\ call'[t].inch = call[t].inch /\ call'[t].at = call[t].at + 1
    /\ \/ call'[t].pc = "others" /\ call[t].at + 1 < Count
       \/ call'[t].pc = "own" /\ call[t].at + 1 = Count

LEMMA CallSet ==
    ASSUME CallsTyped, NEW t \in E!Tasks, NEW q \in E!Calls, InBoard(q), call' = [call EXCEPT ![t] = q],
           t = "cloud" => q.pc \in CloudPcs
    PROVE  CallsTyped' /\ OthersKept(t) /\ call'[t] = q
<1>1. call' \in [E!Tasks -> E!Calls] /\ OthersKept(t) /\ call'[t] = q
  BY DEF CallsTyped, OthersKept
<1>2. \A s \in E!Tasks : InBoard(call'[s])
  BY <1>1 DEF CallsTyped, OthersKept
<1>3. call'["cloud"].pc \in CloudPcs
  BY <1>1 DEF CallsTyped, OthersKept, E!Tasks
<1> QED BY <1>1, <1>2, <1>3 DEF CallsTyped

LEMMA CallBegins ==
    ASSUME CallsTyped, NEW t \in E!Tasks, t # "cloud", NEW c \in E!Relays, NEW v \in BOOLEAN, E!Begin(t, c, v)
    PROVE  /\ CallsTyped' /\ OthersKept(t) /\ call[t].pc = "idle" /\ call'[t].pc = "stop"
           /\ call'[t].ch = c /\ call'[t].on = v
<1> DEFINE q == [E!Idle EXCEPT !.pc = "stop", !.ch = c, !.on = v]
<1>1. call' = [call EXCEPT ![t] = q] /\ call[t].pc = "idle"
  BY DEF E!Begin, E!Busy
<1>2. q \in E!Calls /\ q.pc = "stop" /\ q.ch = c /\ q.on = v /\ q.at = 0 /\ ~q.inch
  BY IdleCall DEF E!Calls
<1> HIDE DEF q
<1>3. InBoard(q)
  BY <1>2 DEF InBoard, Walking
<1> QED BY <1>1, <1>2, <1>3, CallSet

LEMMA CallGoes ==
    ASSUME CallsTyped, NEW t \in E!Tasks, NEW p \in CallPcs, E!Go(t, p)
    PROVE  /\ Moved(t, p)
           /\ /\ p \in {"idle", "stop", "config"} => call[t].at = 0
              /\ p \in Walking \cup {"publish"} => call[t].at < Count
              /\ t = "cloud" => p \in CloudPcs
              => CallsTyped'
<1> DEFINE q == [call[t] EXCEPT !.pc = p]
<1>1. call' = [call EXCEPT ![t] = q] /\ call[t] \in E!Calls /\ InBoard(call[t])
  BY DEF E!Go, CallsTyped
<1>2. /\ q \in E!Calls /\ q.pc = p /\ q.ch = call[t].ch /\ q.on = call[t].on /\ q.at = call[t].at
      /\ q.inch = call[t].inch
  BY <1>1 DEF E!Calls, CallPcs, Walking, CloudPcs
<1> HIDE DEF q
<1>3. OthersKept(t) /\ call'[t] = q
  BY <1>1 DEF CallsTyped, OthersKept
<1>4. ASSUME p \in {"idle", "stop", "config"} => call[t].at = 0,
             p \in Walking \cup {"publish"} => call[t].at < Count, t = "cloud" => p \in CloudPcs
      PROVE  CallsTyped'
  <2>1. InBoard(q)
    BY <1>1, <1>2, <1>4 DEF InBoard
  <2> QED BY <1>1, <1>2, <1>4, <2>1, CallSet
<1> QED BY <1>2, <1>3, <1>4 DEF Moved

LEMMA CallReturns ==
    ASSUME CallsTyped, NEW t \in E!Tasks, E!Return(t)
    PROVE  CallsTyped' /\ OthersKept(t) /\ call'[t] = E!Idle /\ call'[t].pc = "idle"
BY IdleCall, CallSet DEF E!Return, CloudPcs

\* The walk goes on, or is over when all channels are passed.
LEMMA CallGoesOn ==
    ASSUME CallsTyped, NEW t \in E!Tasks, call[t].pc \in Walking, t # "cloud", E!NextOther(t)
    PROVE  CallsTyped' /\ WalksOn(t)
<1> DEFINE n == call[t].at + 1
           p == IF n < Count THEN "others" ELSE "own"
           q == [call[t] EXCEPT !.at = n, !.pc = p]
<1>1. call' = [call EXCEPT ![t] = q] /\ call[t] \in E!Calls /\ InBoard(call[t])
  BY DEF E!NextOther, CallsTyped
<1>2. /\ n \in 0..Count /\ p \in {"others", "own"} /\ (p = "others" => n < Count)
      /\ (p = "own" => n = Count)
  BY <1>1, SomeChannels, CallFields DEF InBoard
<1> HIDE DEF n, p
<1>3. q \in E!Calls
  BY <1>1, <1>2 DEF E!Calls
<1>4. /\ q.pc = p /\ q.ch = call[t].ch /\ q.on = call[t].on /\ q.at = n /\ q.inch = call[t].inch
  BY <1>1, <1>2 DEF E!Calls
<1> HIDE DEF q
<1>5. InBoard(q)
  BY <1>1, <1>2, <1>4 DEF InBoard, Walking
<1>6. CallsTyped' /\ OthersKept(t) /\ call'[t] = q
  BY <1>1, <1>3, <1>5, CallSet
<1> QED BY <1>2, <1>4, <1>6 DEF n, WalksOn

LEMMA CallReads ==
    ASSUME CallsTyped, NEW t \in E!Tasks, t # "cloud", E!ReadConfig(t)
    PROVE  /\ CallsTyped' /\ OthersKept(t) /\ call[t].pc = "config" /\ call[t].at = 0 /\ call'[t].at = 0
           /\ call'[t].pc = (IF call[t].on /\ interlock THEN "others" ELSE "own")
           /\ call'[t].ch = call[t].ch /\ call'[t].on = call[t].on
<1> DEFINE v == call[t].on /\ call[t].ch \in inching
           p == IF call[t].on /\ interlock THEN "others" ELSE "own"
           q == [call[t] EXCEPT !.pc = p, !.inch = v]
<1>1. /\ call' = [call EXCEPT ![t] = q] /\ call[t] \in E!Calls /\ InBoard(call[t])
      /\ call[t].pc = "config"
  BY DEF E!ReadConfig, E!At, CallsTyped
<1>2. v \in BOOLEAN /\ (v => call[t].on) /\ p \in {"others", "own"} /\ call[t].on \in BOOLEAN
  BY <1>1, CallFields
<1>3. call[t].at = 0
  BY <1>1 DEF InBoard
<1> HIDE DEF v, p
<1>4. q \in E!Calls
  BY <1>1, <1>2 DEF E!Calls
<1>5. q.pc = p /\ q.ch = call[t].ch /\ q.on = call[t].on /\ q.at = 0 /\ q.inch = v
  BY <1>1, <1>2, <1>3 DEF E!Calls
<1> HIDE DEF q
<1>6. InBoard(q)
  BY <1>2, <1>5, SomeChannels DEF InBoard
<1>7. CallsTyped' /\ OthersKept(t) /\ call'[t] = q
  BY <1>1, <1>4, <1>6, CallSet
<1> QED BY <1>1, <1>3, <1>5, <1>7 DEF p

\* The publication goes on, or is over.
LEMMA CloudGoesOn ==
    ASSUME CallsTyped, NEW left, E!GoOn(left)
    PROVE  /\ CallsTyped' /\ OthersKept("cloud") /\ todo' = left /\ call'["cloud"].pc \in {"idle", "read"}
           /\ call'["cloud"].pc = "idle" => left = {}
<1> DEFINE q == IF left = {} THEN E!Idle ELSE [E!Idle EXCEPT !.pc = "read"]
<1>1. call' = [call EXCEPT !["cloud"] = q] /\ todo' = left /\ "cloud" \in E!Tasks
  BY DEF E!GoOn, E!Tasks
<1>2. q \in E!Calls /\ q.pc \in {"idle", "read"} /\ (q.pc = "idle" => left = {}) /\ q.at = 0 /\ ~q.inch
  BY IdleCall DEF E!Calls
<1> HIDE DEF q
<1>3. InBoard(q)
  BY <1>2 DEF InBoard, Walking
<1> QED BY <1>1, <1>2, <1>3, CallSet DEF CloudPcs

LEMMA CloudReads ==
    ASSUME CallsTyped, NEW c \in E!Relays,
           call' = [call EXCEPT !["cloud"] = [E!Idle EXCEPT !.pc = "publish", !.at = c, !.on = c \in relay]]
    PROVE  /\ CallsTyped' /\ OthersKept("cloud") /\ call'["cloud"].pc = "publish"
           /\ call'["cloud"].at = c /\ call'["cloud"].on = (c \in relay)
<1> DEFINE v == c \in relay
           q == [E!Idle EXCEPT !.pc = "publish", !.at = c, !.on = v]
<1>1. call' = [call EXCEPT !["cloud"] = q] /\ "cloud" \in E!Tasks /\ v \in BOOLEAN
  BY DEF E!Tasks
<1>2. c \in 0..Count /\ c < Count
  BY SomeChannels DEF E!Relays
<1> HIDE DEF v
<1>3. q \in E!Calls /\ q.pc = "publish" /\ q.at = c /\ q.on = v /\ ~q.inch
  BY <1>1, <1>2, IdleCall DEF E!Calls
<1> HIDE DEF q
<1>4. InBoard(q)
  BY <1>2, <1>3 DEF InBoard, Walking
<1>5. CallsTyped' /\ OthersKept("cloud") /\ call'["cloud"] = q
  BY <1>1, <1>3, <1>4, CallSet DEF CloudPcs
<1> QED BY <1>3, <1>5 DEF v

-----------------------------------------------------------------------------
(* Types.                                                                  *)

\* The steps of a call by what they do to its record.
LEMMA StepCall ==
    ASSUME CallsTyped, NEW t \in E!Tasks, E!Step(t)
    PROVE  CallsTyped' /\ OthersKept(t) /\ t # "cloud"
<1> USE DEF E!At
<1>1. call[t] \in E!Calls /\ InBoard(call[t]) /\ call["cloud"].pc \in CloudPcs
  BY DEF CallsTyped
<1>2. t # "cloud"
  BY <1>1 DEF E!Step, E!StopTimer, E!ReadConfig, E!ReadOther, E!StopOther, E!TurnOtherOff,
     E!TellOther, E!SetOwn, E!TellOwn, E!Arm, CloudPcs
<1>3. CASE E!StopTimer(t)
  <2>1. E!Go(t, "config") /\ call[t].at = 0
    BY <1>1, <1>3 DEF E!StopTimer, InBoard
  <2> QED BY <1>2, <2>1, CallGoes DEF CallPcs, Walking, Moved
<1>4. CASE E!ReadConfig(t)
  BY <1>2, <1>4, CallReads
<1>5. CASE E!ReadOther(t) \/ E!StopOther(t) \/ E!TurnOtherOff(t) \/ E!TellOther(t)
  <2>1. call[t].pc \in Walking /\ call[t].at < Count
    BY <1>1, <1>5 DEF E!ReadOther, E!StopOther, E!TurnOtherOff, E!TellOther, InBoard, Walking
  <2>2. E!NextOther(t) \/ \E p \in Walking : E!Go(t, p)
    BY <1>5 DEF E!ReadOther, E!StopOther, E!TurnOtherOff, E!TellOther, E!SkipOther, Walking
  <2>3. CASE E!NextOther(t)
    BY <1>2, <2>1, <2>3, CallGoesOn DEF WalksOn
  <2>4. ASSUME NEW p \in Walking, E!Go(t, p) PROVE CallsTyped' /\ OthersKept(t)
    BY <1>2, <2>1, <2>4, CallGoes DEF CallPcs, Walking, Moved
  <2> QED BY <1>2, <2>2, <2>3, <2>4
<1>6. CASE E!SetOwn(t) \/ E!TellOwn(t) \/ E!Arm(t)
  <2>1. E!Return(t) \/ \E p \in {"tell", "arm"} : E!Go(t, p)
    BY <1>6 DEF E!SetOwn, E!TellOwn, E!Arm
  <2>2. ASSUME NEW p \in {"tell", "arm"}, E!Go(t, p) PROVE CallsTyped' /\ OthersKept(t)
    BY <1>2, <2>2, CallGoes DEF CallPcs, Walking, Moved
  <2> QED BY <1>2, <2>1, <2>2, CallReturns
<1> QED BY <1>2, <1>3, <1>4, <1>5, <1>6 DEF E!Step

LEMMA MissTyped ==
    ASSUME misses \in 0..MaxMisses, E!Miss
    PROVE  misses' \in 0..MaxMisses /\ misses' # 0
BY SomeChannels DEF E!Miss

LEMMA NotifyTyped ==
    ASSUME E!TypeOK, NEW c \in E!Relays, NEW v \in BOOLEAN, E!Notify(c, v)
    PROVE  /\ told' \subseteq E!Relays /\ known' \subseteq E!Relays /\ unsure' \subseteq E!Relays
           /\ misses' \in 0..MaxMisses /\ UNCHANGED <<timed, forced, alone, sole>>
<1>1. misses' \in 0..MaxMisses
  BY MissTyped DEF E!Notify, E!TypeOK
<1>2. E!With(told, c, v) \subseteq E!Relays
  BY DEF E!With, E!TypeOK
<1> QED BY <1>1, <1>2 DEF E!Notify, E!TypeOK

LEMMA ReportsTyped ==
    ASSUME E!TypeOK, NEW c \in E!Relays, E!Reports(c)
    PROVE  unsure' \subseteq E!Relays
BY DEF E!Reports, E!TypeOK

LEMMA StepTyped ==
    ASSUME TasksTyped, NEW t \in E!Tasks, E!Step(t)
    PROVE  TasksTyped'
<1>1. call[t] \in E!Calls /\ InBoard(call[t]) /\ E!TypeOK /\ CallsTyped
  BY DEF TasksTyped, CallsTyped
<1>2. CallsTyped' /\ call' \in [E!Tasks -> E!Calls]
  BY <1>1, StepCall DEF CallsTyped
<1>3. call[t].ch \in E!Relays /\ call[t].on \in BOOLEAN /\ call[t].inch \in BOOLEAN
  BY <1>1, CallFields
<1>4. call[t].pc \in Walking => call[t].at \in E!Relays
  BY <1>1, CallFields, SomeChannels DEF InBoard, E!Relays
<1>5. CASE E!StopTimer(t) \/ E!ReadConfig(t) \/ E!StopOther(t) \/ E!Arm(t)
  BY <1>1, <1>2, <1>3, <1>5 DEF E!StopTimer, E!ReadConfig, E!StopOther, E!Arm, E!history, E!config, E!TypeOK, TasksTyped
<1>6. CASE E!ReadOther(t)
  <2>1. UNCHANGED <<relay, timers, interlock, listed, inching, todo, told, linked, calls,
                    timed, forced, sole, known, unsure>>
    BY <1>6 DEF E!ReadOther, E!SkipOther, E!history, E!config
  <2>2. misses' \in 0..MaxMisses
    BY <1>1, <1>6, MissTyped DEF E!ReadOther, E!SkipOther, E!TypeOK
  <2>3. alone' = alone \/ alone' = FALSE
    BY <1>6, Zenon DEF E!ReadOther, E!SkipOther, E!history
  <2> QED BY <1>1, <1>2, <2>1, <2>2, <2>3 DEF E!TypeOK, TasksTyped
<1>7. CASE E!TurnOtherOff(t)
  <2>1. UNCHANGED <<timers, interlock, listed, inching, todo, told, linked, calls, sole, known>>
    BY <1>7 DEF E!TurnOtherOff, E!SkipOther, E!config
  <2>2. misses' \in 0..MaxMisses
    BY <1>1, <1>7, MissTyped DEF E!TurnOtherOff, E!SkipOther, E!TypeOK
  <2>3. alone' = alone \/ alone' = FALSE
    BY <1>7, Zenon DEF E!TurnOtherOff, E!SkipOther
  <2>4. unsure' \subseteq E!Relays
    BY <1>1, <1>4, <1>7, ReportsTyped DEF E!TurnOtherOff, E!SkipOther, E!At, Walking, E!TypeOK
  <2>5. relay' \subseteq E!Relays /\ timed' \subseteq relay' /\ forced' \subseteq relay'
    BY <1>1, <1>7 DEF E!TurnOtherOff, E!SkipOther, E!TypeOK
  <2> QED BY <1>1, <1>2, <2>1, <2>2, <2>3, <2>4, <2>5 DEF E!TypeOK, TasksTyped
<1>8. CASE E!TellOther(t)
  <2>1. call[t].at \in E!Relays
    BY <1>4, <1>8 DEF E!TellOther, E!At, Walking
  <2>2. /\ told' \subseteq E!Relays /\ known' \subseteq E!Relays /\ unsure' \subseteq E!Relays
        /\ misses' \in 0..MaxMisses /\ UNCHANGED <<timed, forced, alone, sole>>
    BY <1>1, <1>8, <2>1, NotifyTyped DEF E!TellOther
  <2> QED BY <1>1, <1>2, <1>8, <2>2 DEF E!TellOther, E!config, E!TypeOK, TasksTyped
<1>9. CASE E!SetOwn(t)
  <2>1. UNCHANGED <<timers, interlock, listed, inching, todo, told, linked, calls, known>>
    BY <1>9 DEF E!SetOwn, E!history, E!config
  <2>2. misses' \in 0..MaxMisses
    BY <1>1, <1>9, MissTyped DEF E!SetOwn, E!TypeOK
  <2>3. unsure' \subseteq E!Relays
    BY <1>1, <1>3, <1>9, ReportsTyped DEF E!SetOwn, E!history, E!TypeOK
  <2>4. call[t].inch => call[t].on
    BY <1>1 DEF InBoard
  <2>5. relay' \subseteq E!Relays /\ timed' \subseteq relay' /\ forced' \subseteq relay'
    BY <1>1, <1>3, <1>9, <2>4 DEF E!SetOwn, E!With, E!history, E!TypeOK
  <2>6. /\ sole' = (IF call[t].on THEN alone /\ interlock ELSE sole) \/ sole' = sole
        /\ alone' = (~call[t].on /\ alone) \/ alone' = alone
    BY <1>9, Zenon DEF E!SetOwn, E!history
  <2>7. alone \in BOOLEAN /\ sole \in BOOLEAN /\ interlock \in BOOLEAN
    BY <1>1 DEF E!TypeOK
  <2>8. sole' \in BOOLEAN /\ alone' \in BOOLEAN
    BY <1>3, <2>6, <2>7
  <2> QED BY <1>1, <1>2, <2>1, <2>2, <2>3, <2>5, <2>8 DEF E!TypeOK, TasksTyped
<1>10. CASE E!TellOwn(t)
  <2>1. /\ told' \subseteq E!Relays /\ known' \subseteq E!Relays /\ unsure' \subseteq E!Relays
        /\ misses' \in 0..MaxMisses /\ UNCHANGED <<timed, forced, alone, sole>>
    BY <1>1, <1>3, <1>10, NotifyTyped DEF E!TellOwn
  <2> QED BY <1>1, <1>2, <1>10, <2>1 DEF E!TellOwn, E!config, E!TypeOK, TasksTyped
<1> QED BY <1>5, <1>6, <1>7, <1>8, <1>9, <1>10 DEF E!Step

\* The other steps: callers, the configuration, the connection.
Rest ==
    \/ \E t \in E!Callers, c \in E!Relays, v \in BOOLEAN : E!Call(t, c, v)
    \/ \E c \in E!Relays : E!Press(c) \/ E!InchingTimerCb(c)
    \/ \E c \in E!Relays : E!DeleteSwitch(c) \/ \E inch \in BOOLEAN : E!SetSwitch(c, inch)
    \/ E!SetInterlock \/ E!Disconnected \/ E!Connected \/ E!CopySwitches \/ E!PublishSend
    \/ \E c \in E!Relays : E!PublishRead(c)

\* A command begins: one of a caller, a press or a timer that ran out.
Begins(t, c, v) ==
    /\ E!Begin(t, c, v) /\ UNCHANGED <<relay, interlock, listed, inching, todo, told, linked>>
    /\ timers' = timers \/ (t = "timer" /\ timers' = timers \ {c})
    /\ calls' \in 0..MaxCalls /\ misses' \in 0..MaxMisses /\ (misses' = 0 => misses = 0)

LEMMA RestBegins ==
    ASSUME E!TypeOK, Rest
    PROVE  \/ \E t \in E!Tasks \ {"cloud"}, c \in E!Relays, v \in BOOLEAN : Begins(t, c, v)
           \/ E!SetInterlock \/ E!Disconnected \/ E!Connected \/ E!CopySwitches \/ E!PublishSend
           \/ \E c \in E!Relays : \/ E!DeleteSwitch(c) \/ \E inch \in BOOLEAN : E!SetSwitch(c, inch)
                                  \/ E!PublishRead(c)
<1>1. calls \in 0..MaxCalls /\ misses \in 0..MaxMisses
  BY DEF E!TypeOK
<1>2. E!Callers \subseteq E!Tasks \ {"cloud"} /\ {"input", "timer"} \subseteq E!Tasks \ {"cloud"}
  BY DEF E!Callers, E!Tasks
<1>3. ASSUME NEW t \in E!Callers, NEW c \in E!Relays, NEW v \in BOOLEAN, E!Call(t, c, v)
      PROVE  Begins(t, c, v)
  BY <1>1, <1>3, SomeChannels DEF E!Call, E!config, Begins
<1>4. ASSUME NEW c \in E!Relays, E!Press(c) PROVE \E v \in BOOLEAN : Begins("input", c, v)
  <2>1. PICK v \in BOOLEAN : E!Begin("input", c, v) /\ (misses' = misses \/ E!Miss)
    <3>1. (c \notin relay) \in BOOLEAN
      OBVIOUS
    <3> QED BY <1>4, <3>1, Zenon DEF E!Press
  <2>2. misses' \in 0..MaxMisses /\ (misses' = 0 => misses = 0)
    BY <1>1, <2>1, MissTyped
  <2>3. calls < MaxCalls /\ calls' = calls + 1 /\ UNCHANGED <<relay, timers, interlock, listed, inching, todo, told, linked>>
    BY <1>4, Zenon DEF E!Press, E!config
  <2>4. calls' \in 0..MaxCalls
    BY <1>1, <2>3, SomeChannels
  <2> QED BY <2>1, <2>2, <2>3, <2>4 DEF Begins
<1>5. ASSUME NEW c \in E!Relays, E!InchingTimerCb(c) PROVE Begins("timer", c, FALSE)
  BY <1>1, <1>5 DEF E!InchingTimerCb, E!config, Begins
<1> QED BY <1>2, <1>3, <1>4, <1>5 DEF Rest

LEMMA RestTyped ==
    ASSUME TasksTyped, Rest
    PROVE  TasksTyped'
<1>1. E!TypeOK /\ CallsTyped /\ "cloud" \in E!Tasks
  BY DEF TasksTyped, E!Tasks
<1>2. ASSUME NEW t \in E!Tasks \ {"cloud"}, NEW c \in E!Relays, NEW v \in BOOLEAN, Begins(t, c, v)
      PROVE  TasksTyped'
  <2>1. CallsTyped' /\ call' \in [E!Tasks -> E!Calls]
    BY <1>1, <1>2, CallBegins DEF CallsTyped, Begins
  <2>2. alone' = (IF v THEN \A s \in E!Tasks : ~E!Turning(s) ELSE alone) /\ UNCHANGED <<timed, forced, sole, known, unsure>>
    BY <1>2, Zenon DEF Begins, E!Begin
  <2>3. alone \in BOOLEAN
    BY <1>1 DEF E!TypeOK
  <2>4. alone' \in BOOLEAN
    BY <2>2, <2>3, Zenon
  <2> QED BY <1>1, <1>2, <2>1, <2>2, <2>4 DEF Begins, TasksTyped, E!TypeOK
<1>3. CASE E!SetInterlock
  <2>1. alone' = FALSE /\ interlock' = ~interlock /\ calls' = calls + 1 /\ calls < MaxCalls
        /\ UNCHANGED <<relay, timers, listed, inching, call, todo, told, linked, misses, timed, forced, sole, known, unsure>>
    BY <1>3, Zenon DEF E!SetInterlock, E!Edit
  <2>2. calls' \in 0..MaxCalls
    BY <1>1, <2>1, SomeChannels DEF E!TypeOK
  <2> QED BY <1>1, <2>1, <2>2 DEF TasksTyped, CallsTyped, E!TypeOK
<1>4. ASSUME NEW c \in E!Relays, E!DeleteSwitch(c) \/ \E inch \in BOOLEAN : E!SetSwitch(c, inch)
      PROVE  TasksTyped'
  <2>1. calls' \in 0..MaxCalls
    BY <1>1, <1>4, SomeChannels DEF E!DeleteSwitch, E!SetSwitch, E!Edit, E!TypeOK
  <2>2. listed' \subseteq E!Relays /\ inching' \subseteq listed'
    BY <1>1, <1>4 DEF E!DeleteSwitch, E!SetSwitch, E!With, E!TypeOK
  <2>3. UNCHANGED <<relay, timers, interlock, call, todo, told, linked, misses, timed, forced, alone, sole, known, unsure>>
    BY <1>4 DEF E!DeleteSwitch, E!SetSwitch, E!history
  <2> QED BY <1>1, <2>1, <2>2, <2>3 DEF TasksTyped, CallsTyped, E!TypeOK
<1>5. CASE E!Disconnected
  <2>1. linked' = FALSE /\ known' = {}
        /\ UNCHANGED <<relay, timers, interlock, listed, inching, call, todo, told, calls, misses, timed, forced, alone, sole, unsure>>
    BY <1>5, Zenon DEF E!Disconnected, E!config
  <2> QED BY <1>1, <2>1 DEF TasksTyped, CallsTyped, E!TypeOK
<1>6. CASE E!Connected
  <2>1. linked' = TRUE /\ E!Go("cloud", "copy")
        /\ UNCHANGED <<relay, timers, interlock, listed, inching, todo, told, calls, misses, timed, forced, alone, sole, known, unsure>>
    BY <1>6, Zenon DEF E!Connected, E!config, E!history
  <2>2. CallsTyped' /\ call' \in [E!Tasks -> E!Calls]
    BY <1>1, <2>1, CallGoes DEF CallPcs, CloudPcs, Walking, CallsTyped
  <2> QED BY <1>1, <2>1, <2>2 DEF TasksTyped, E!TypeOK
<1>7. CASE E!CopySwitches
  <2>1. CallsTyped' /\ call' \in [E!Tasks -> E!Calls] /\ todo' = listed
    BY <1>1, <1>7, CloudGoesOn DEF E!CopySwitches, CallsTyped
  <2> QED BY <1>1, <1>7, <2>1 DEF E!CopySwitches, E!config, TasksTyped, E!TypeOK
<1>8. ASSUME NEW c \in E!Relays, E!PublishRead(c) PROVE TasksTyped'
  <2>1. CallsTyped' /\ call' \in [E!Tasks -> E!Calls] /\ todo' = todo \ {c}
    BY <1>1, <1>8, CloudGoesOn, CloudReads DEF E!PublishRead, CallsTyped
  <2>2. misses' \in 0..MaxMisses /\ unsure' \subseteq E!Relays
    BY <1>1, <1>8, MissTyped, ReportsTyped DEF E!PublishRead, E!TypeOK
  <2> QED BY <1>1, <1>8, <2>1, <2>2 DEF E!PublishRead, E!config, TasksTyped, E!TypeOK
<1>9. CASE E!PublishSend
  <2>1. call["cloud"] \in E!Calls /\ call["cloud"].at < Count
    BY <1>1, <1>9 DEF E!PublishSend, E!At, CallsTyped, InBoard
  <2>2. call["cloud"].at \in E!Relays /\ call["cloud"].on \in BOOLEAN
    BY <2>1, CallFields, SomeChannels DEF E!Relays
  <2>3. /\ told' \subseteq E!Relays /\ known' \subseteq E!Relays /\ unsure' \subseteq E!Relays
        /\ misses' \in 0..MaxMisses /\ UNCHANGED <<timed, forced, alone, sole>>
    BY <1>1, <1>9, <2>2, NotifyTyped DEF E!PublishSend
  <2>4. CallsTyped' /\ call' \in [E!Tasks -> E!Calls] /\ todo' = todo
    BY <1>1, <1>9, CloudGoesOn DEF E!PublishSend, CallsTyped
  <2> QED BY <1>1, <1>9, <2>3, <2>4 DEF E!PublishSend, E!config, TasksTyped, E!TypeOK
<1> QED BY <1>1, <1>2, <1>3, <1>4, <1>5, <1>6, <1>7, <1>8, <1>9, RestBegins

-----------------------------------------------------------------------------
(* The timers of inching.                                                  *)

\* Task t has still to switch channel c, or to start its timer.
WillEnd(t, c) ==
    \/ /\ call[t].ch = c
       /\ \/ call[t].pc \in {"stop", "config", "others", "stopother", "offother", "tellother", "own"}
          \/ call[t].inch /\ call[t].pc \in {"tell", "arm"}
    \/ call[t].pc = "offother" /\ call[t].at = c

\* A lock missed is never forgotten.
LEMMA StepMisses ==
    ASSUME TasksTyped, NEW t \in E!Tasks, E!Step(t)
    PROVE  misses' = 0 => misses = 0 /\ ~E!Miss
<1>1. misses \in 0..MaxMisses
  BY DEF TasksTyped, E!TypeOK
<1>2. misses' = misses \/ E!Miss
  BY DEF E!Step, E!StopTimer, E!ReadConfig, E!ReadOther, E!StopOther, E!TurnOtherOff, E!SkipOther,
     E!TellOther, E!SetOwn, E!TellOwn, E!Arm, E!Notify
<1> QED BY <1>1, <1>2, MissTyped

LEMMA StepTimed ==
    ASSUME TasksTyped, E!InchingTimed, NEW t \in E!Tasks, E!Step(t)
    PROVE  E!InchingTimed'
<1> SUFFICES ASSUME misses' = 0, NEW c, c \in timed'
             PROVE  c \in timers' \/ \E s \in E!Tasks : WillEnd(s, c)'
  BY DEF E!InchingTimed, E!Underway, WillEnd
<1> USE DEF E!At
<1>1. CallsTyped /\ call[t] \in E!Calls /\ InBoard(call[t]) /\ OthersKept(t) /\ t # "cloud"
  BY StepCall DEF TasksTyped, CallsTyped
<1>2. misses = 0 /\ ~E!Miss
  BY StepMisses
<1>3. c \in timed => c \in timers \/ \E s \in E!Tasks : WillEnd(s, c)
  BY <1>2 DEF E!InchingTimed, E!Underway, WillEnd
\* What the step has to keep.
<1>4. ASSUME c \in timed, WillEnd(t, c) => WillEnd(t, c)' \/ c \in timers',
             c \in timers => c \in timers' \/ WillEnd(t, c)'
      PROVE  c \in timers' \/ \E s \in E!Tasks : WillEnd(s, c)'
  <2>1. ASSUME NEW s \in E!Tasks, WillEnd(s, c), s # t PROVE WillEnd(s, c)'
    BY <1>1, <2>1 DEF WillEnd, OthersKept
  <2> QED BY <1>3, <1>4, <2>1
<1>5. CASE E!StopTimer(t)
  <2>1. call[t].pc = "stop" /\ timers' = timers \ {call[t].ch} /\ timed' = timed /\ Moved(t, "config")
    BY <1>1, <1>5, CallGoes DEF E!StopTimer, E!history, CallPcs
  <2> QED BY <1>4, <2>1 DEF WillEnd, Moved
<1>6. CASE E!ReadConfig(t)
  <2>1. /\ call[t].pc = "config" /\ call'[t].pc \in {"others", "own"} /\ call'[t].ch = call[t].ch
        /\ timers' = timers /\ timed' = timed
    BY <1>1, <1>6, CallReads DEF E!ReadConfig, E!history
  <2> QED BY <1>4, <2>1 DEF WillEnd
<1>7. CASE E!ReadOther(t)
  <2>1. call[t].pc = "others" /\ timers' = timers /\ timed' = timed
    BY <1>2, <1>7 DEF E!ReadOther, E!SkipOther, E!history
  <2>2. Moved(t, "stopother") \/ WalksOn(t)
    BY <1>1, <1>7, <2>1, CallGoes, CallGoesOn DEF E!ReadOther, E!SkipOther, CallPcs, Walking
  <2> QED BY <1>4, <2>1, <2>2 DEF WillEnd, Moved, WalksOn
<1>8. CASE E!StopOther(t)
  <2>1. call[t].pc = "stopother" /\ timers' = timers \ {call[t].at} /\ timed' = timed /\ Moved(t, "offother")
    BY <1>1, <1>8, CallGoes DEF E!StopOther, E!history, CallPcs, Walking
  <2> QED BY <1>4, <2>1 DEF WillEnd, Moved
<1>9. CASE E!TurnOtherOff(t)
  <2>1. call[t].pc = "offother" /\ timers' = timers /\ timed' = timed \ {call[t].at} /\ Moved(t, "tellother")
    BY <1>1, <1>2, <1>9, CallGoes DEF E!TurnOtherOff, E!SkipOther, CallPcs, Walking
  <2> QED BY <1>4, <2>1 DEF WillEnd, Moved
<1>10. CASE E!TellOther(t)
  <2>1. call[t].pc = "tellother" /\ timers' = timers /\ timed' = timed /\ WalksOn(t)
    BY <1>1, <1>10, CallGoesOn DEF E!TellOther, E!Notify, Walking
  <2> QED BY <1>4, <2>1 DEF WillEnd, WalksOn
<1>11. CASE E!SetOwn(t)
  <2>1. call[t].pc = "own" /\ timers' = timers /\ timed' = E!With(timed, call[t].ch, call[t].inch) /\ Moved(t, "tell")
    BY <1>1, <1>2, <1>11, CallGoes DEF E!SetOwn, CallPcs
  <2>2. CASE c = call[t].ch
    <3>1. call[t].inch
      BY <2>1, <2>2 DEF E!With
    <3>2. WillEnd(t, c)'
      BY <2>1, <2>2, <3>1 DEF WillEnd, Moved
    <3> QED BY <3>2
  <2>3. CASE c # call[t].ch
    <3>1. c \in timed
      BY <2>1, <2>3 DEF E!With
    <3> QED BY <1>4, <2>1, <2>3, <3>1 DEF WillEnd
  <2> QED BY <2>2, <2>3
<1>12. CASE E!TellOwn(t)
  <2>1. /\ call[t].pc = "tell" /\ timers' = timers /\ timed' = timed
        /\ call[t].inch => Moved(t, "arm")
    BY <1>1, <1>12, CallGoes DEF E!TellOwn, E!Notify, CallPcs
  <2> QED BY <1>4, <2>1 DEF WillEnd, Moved
<1>13. CASE E!Arm(t)
  <2>1. call[t].pc = "arm" /\ timers' = timers \cup {call[t].ch} /\ timed' = timed
    BY <1>13 DEF E!Arm, E!history
  <2> QED BY <1>4, <2>1 DEF WillEnd
<1> QED BY <1>5, <1>6, <1>7, <1>8, <1>9, <1>10, <1>11, <1>12, <1>13 DEF E!Step

\* A task that begins a command, or reports, ends nobody else's.
LEMMA RestTimed ==
    ASSUME TasksTyped, E!InchingTimed, Rest
    PROVE  E!InchingTimed'
<1>1. E!TypeOK /\ CallsTyped /\ "cloud" \in E!Tasks /\ call["cloud"].pc \in CloudPcs
  BY DEF TasksTyped, CallsTyped, E!Tasks
<1>2. ASSUME misses = 0, NEW c \in timed PROVE c \in timers \/ \E s \in E!Tasks : WillEnd(s, c)
  BY <1>2 DEF E!InchingTimed, E!Underway, WillEnd
\* What the step has to keep, of the one task whose record it changes.
<1>3. ASSUME NEW t \in E!Tasks, OthersKept(t), timed' = timed, misses' = 0 => misses = 0,
             \A c \in timed : ~WillEnd(t, c) /\ (c \in timers => c \in timers' \/ WillEnd(t, c)')
      PROVE  E!InchingTimed'
  <2> SUFFICES ASSUME misses' = 0, NEW c \in timed
               PROVE  c \in timers' \/ \E s \in E!Tasks : WillEnd(s, c)'
    BY <1>3 DEF E!InchingTimed, E!Underway, WillEnd
  <2>1. ASSUME NEW s \in E!Tasks, WillEnd(s, c), s # t PROVE WillEnd(s, c)'
    BY <1>3, <2>1 DEF WillEnd, OthersKept
  <2> QED BY <1>2, <1>3, <2>1
<1>4. ASSUME NEW t \in E!Tasks \ {"cloud"}, NEW c \in E!Relays, NEW v \in BOOLEAN, Begins(t, c, v)
      PROVE  E!InchingTimed'
  <2>1. OthersKept(t) /\ call[t].pc = "idle" /\ call'[t].pc = "stop" /\ call'[t].ch = c
    BY <1>1, <1>4, CallBegins DEF Begins
  <2>2. timed' = timed
    BY <1>4, Zenon DEF Begins, E!Begin
  <2>3. \A i \in timed : ~WillEnd(t, i) /\ (i \in timers => i \in timers' \/ WillEnd(t, i)')
    BY <1>4, <2>1 DEF WillEnd, Begins
  <2> QED BY <1>3, <1>4, <2>1, <2>2, <2>3 DEF Begins
<1>5. CASE \/ E!SetInterlock \/ E!Disconnected
           \/ \E c \in E!Relays : E!DeleteSwitch(c) \/ \E inch \in BOOLEAN : E!SetSwitch(c, inch)
  <2>1. UNCHANGED <<call, timers, timed, misses>>
    BY <1>5, Zenon DEF E!SetInterlock, E!Disconnected, E!DeleteSwitch, E!SetSwitch, E!history
  <2> QED BY <2>1 DEF E!InchingTimed, E!Underway
<1>6. CASE E!Connected \/ E!CopySwitches \/ E!PublishSend \/ \E c \in E!Relays : E!PublishRead(c)
  <2>1. timed' = timed /\ timers' = timers
    BY <1>6 DEF E!Connected, E!CopySwitches, E!PublishSend, E!PublishRead, E!Notify, E!history
  <2>2. misses' = misses \/ E!Miss
    BY <1>6 DEF E!Connected, E!CopySwitches, E!PublishSend, E!PublishRead, E!Notify
  <2>3. misses' = 0 => misses = 0
    BY <1>1, <2>2, MissTyped DEF E!TypeOK
  <2>4. OthersKept("cloud")
    BY <1>1, <1>6, CallGoes, CloudGoesOn, CloudReads DEF E!Connected, E!CopySwitches, E!PublishSend,
       E!PublishRead, Moved, CallPcs, CloudPcs
  <2>5. \A c \in timed : ~WillEnd("cloud", c)
    BY <1>1 DEF WillEnd, CloudPcs
  <2> QED BY <1>1, <1>3, <2>1, <2>3, <2>4, <2>5
<1> QED BY <1>1, <1>4, <1>5, <1>6, RestBegins

-----------------------------------------------------------------------------
(* An ON command that is alone.                                            *)

\* What is left to show of a step of task t that turns no channel ON.
LEMMA AloneStep ==
    ASSUME AloneInv, NEW t \in E!Tasks, OthersKept(t), relay' \subseteq relay,
           sole' = sole, interlock' = interlock,
           alone' => alone \/ \A s \in E!Tasks \ {t} : ~E!Turning(s),
           alone' /\ E!Turning(t)' =>
               WalkedOff(t)' /\ (E!Turning(t) \/ \A s \in E!Tasks \ {t} : ~E!Turning(s))
    PROVE  AloneInv'
<1>1. \A s \in E!Tasks \ {t} : E!Turning(s)' <=> E!Turning(s)
  BY DEF OthersKept, E!Turning
<1>2. \A s \in E!Tasks \ {t} : WalkedOff(s) => WalkedOff(s)'
  BY DEF OthersKept, WalkedOff
<1>3. sole' => \A i, k \in relay' : i = k
  BY DEF AloneInv
<1>4. ASSUME alone', NEW s \in E!Tasks, E!Turning(s)'
      PROVE  WalkedOff(s)' /\ \A r \in E!Tasks : E!Turning(r)' => r = s
  <2>1. CASE s = t
    BY <1>1, <1>4, <2>1 DEF AloneInv
  <2>2. CASE s # t
    BY <1>1, <1>2, <1>4, <2>2 DEF AloneInv
  <2> QED BY <2>1, <2>2
<1> QED BY <1>3, <1>4 DEF AloneInv

LEMMA StepAlone ==
    ASSUME TasksTyped, AloneInv, NEW t \in E!Tasks, E!Step(t)
    PROVE  AloneInv'
<1> USE DEF E!At
<1>1. /\ CallsTyped /\ call[t] \in E!Calls /\ InBoard(call[t]) /\ OthersKept(t) /\ t # "cloud"
      /\ call[t].at \in Nat /\ relay \subseteq E!Relays /\ call[t].on \in BOOLEAN
  BY StepCall, CallFields DEF TasksTyped, CallsTyped, E!TypeOK
<1>2. \A i \in relay : i \in Nat /\ i < Count
  BY <1>1, SomeChannels DEF E!Relays
<1>3. alone /\ E!Turning(t) => WalkedOff(t)
  BY DEF AloneInv
<1>4. interlock' = interlock
  BY DEF E!Step, E!StopTimer, E!ReadConfig, E!ReadOther, E!StopOther, E!TurnOtherOff,
     E!TellOther, E!SetOwn, E!TellOwn, E!Arm, E!config
\* All but the last write: nothing of the history but a lock missed.
<1>5. ASSUME relay' \subseteq relay, sole' = sole, alone' => alone,
             alone' /\ E!Turning(t)' => E!Turning(t) /\ WalkedOff(t)'
      PROVE  AloneInv'
  BY <1>1, <1>4, <1>5, AloneStep
<1>6. CASE E!StopTimer(t)
  <2>1. call[t].pc = "stop" /\ relay' = relay /\ sole' = sole /\ alone' = alone /\ Moved(t, "config")
    BY <1>1, <1>6, CallGoes DEF E!StopTimer, E!history, CallPcs
  <2> QED BY <1>5, <2>1 DEF Moved, E!Turning, WalkedOff, Walking
<1>7. CASE E!ReadConfig(t)
  <2>1. /\ call[t].pc = "config" /\ relay' = relay /\ sole' = sole /\ alone' = alone
        /\ call'[t].pc = (IF call[t].on /\ interlock THEN "others" ELSE "own")
        /\ call'[t].on = call[t].on /\ call'[t].at = 0
    BY <1>1, <1>7, CallReads DEF E!ReadConfig, E!history
  <2>2. E!Turning(t)' => E!Turning(t)
    BY <2>1 DEF E!Turning
  <2>3. E!Turning(t)' => WalkedOff(t)'
    BY <1>2, <1>4, <2>1 DEF E!Turning, WalkedOff, Walking
  <2> QED BY <1>5, <2>1, <2>2, <2>3
\* A walk goes on from a channel that is OFF, or its own.
<1>8. ASSUME call[t].pc \in Walking, WalksOn(t), relay' = relay, sole' = sole, alone' => alone,
             alone' /\ alone /\ E!Turning(t) => call[t].at = call[t].ch \/ call[t].at \notin relay
      PROVE  AloneInv'
  <2>1. E!Turning(t)' => E!Turning(t)
    BY <1>8 DEF E!Turning, WalksOn, Walking
  <2>2. ASSUME alone', E!Turning(t)' PROVE WalkedOff(t)'
    <3>1. \A i \in relay : i < call[t].at => i = call[t].ch
      BY <1>3, <1>8, <2>1, <2>2 DEF WalkedOff
    <3>2. \A i \in relay : i < call[t].at + 1 => i = call[t].ch
      BY <1>1, <1>2, <1>8, <2>1, <2>2, <3>1
    <3>3. \A i \in relay' : i < call'[t].at => i = call'[t].ch
      BY <1>8, <3>2 DEF WalksOn
    <3>4. call'[t].pc = "own" => relay' \subseteq {call'[t].ch}
      BY <1>2, <1>8, <3>3 DEF WalksOn
    <3>5. call'[t].pc # "tellother"
      BY <1>8 DEF WalksOn
    <3> QED BY <3>3, <3>4, <3>5 DEF WalkedOff
  <2> QED BY <1>5, <1>8, <2>1, <2>2
<1>9. CASE E!ReadOther(t)
  <2>1. call[t].pc = "others" /\ relay' = relay /\ sole' = sole
    BY <1>9 DEF E!ReadOther, E!SkipOther, E!history
  <2>2. \/ E!Go(t, "stopother") /\ alone' = alone
        \/ E!NextOther(t) /\ alone' = alone /\ (call[t].at = call[t].ch \/ call[t].at \notin relay)
        \/ E!NextOther(t) /\ alone' = FALSE
    BY <1>9, Zenon DEF E!ReadOther, E!SkipOther, E!history
  <2>3. CASE E!Go(t, "stopother") /\ alone' = alone
    <3>1. Moved(t, "stopother")
      BY <1>1, <2>3, CallGoes DEF CallPcs, Walking
    <3> QED BY <1>3, <1>5, <2>1, <2>3, <3>1 DEF Moved, E!Turning, WalkedOff, Walking
  <2>4. ASSUME E!NextOther(t), alone' => alone,
               alone' => call[t].at = call[t].ch \/ call[t].at \notin relay
        PROVE  AloneInv'
    <3>1. WalksOn(t)
      BY <1>1, <2>1, <2>4, CallGoesOn DEF Walking
    <3> QED BY <1>8, <2>1, <2>4, <3>1 DEF Walking
  <2> QED BY <2>2, <2>3, <2>4
<1>10. CASE E!StopOther(t)
  <2>1. call[t].pc = "stopother" /\ relay' = relay /\ sole' = sole /\ alone' = alone /\ Moved(t, "offother")
    BY <1>1, <1>10, CallGoes DEF E!StopOther, E!history, CallPcs, Walking
  <2> QED BY <1>3, <1>5, <2>1 DEF Moved, E!Turning, WalkedOff, Walking
<1>11. CASE E!TurnOtherOff(t)
  <2>1. call[t].pc = "offother"
    BY <1>11 DEF E!TurnOtherOff
  <2>2. CASE E!SkipOther(t) /\ UNCHANGED relay
    <3>1. WalksOn(t) /\ sole' = sole /\ alone' = FALSE
      BY <1>1, <2>1, <2>2, CallGoesOn DEF E!SkipOther, Walking
    <3> QED BY <1>8, <2>1, <2>2, <3>1 DEF Walking
  <2>3. CASE relay' = relay \ {call[t].at} /\ E!Go(t, "tellother") /\ UNCHANGED <<alone, sole>>
    <3>1. Moved(t, "tellother")
      BY <1>1, <2>3, CallGoes DEF CallPcs, Walking
    <3> QED BY <1>3, <1>5, <2>1, <2>3, <3>1 DEF Moved, E!Turning, WalkedOff, Walking
  <2> QED BY <1>11, <2>2, <2>3 DEF E!TurnOtherOff
<1>12. CASE E!TellOther(t)
  <2>1. call[t].pc = "tellother" /\ relay' = relay /\ sole' = sole /\ alone' = alone /\ WalksOn(t)
    BY <1>1, <1>12, CallGoesOn DEF E!TellOther, E!Notify, Walking
  <2>2. alone /\ E!Turning(t) => call[t].at \notin relay
    BY <1>3, <2>1 DEF WalkedOff
  <2> QED BY <1>8, <2>1, <2>2 DEF Walking
<1>13. CASE E!SetOwn(t)
  <2>1. call[t].pc = "own"
    BY <1>13 DEF E!SetOwn
  <2>2. CASE E!Return(t) /\ UNCHANGED <<relay, alone, sole>>
    <3>1. call'[t].pc = "idle"
      BY <1>1, <2>2, CallReturns
    <3> QED BY <1>5, <2>2, <3>1 DEF E!Turning
  <2>3. CASE /\ relay' = E!With(relay, call[t].ch, call[t].on) /\ E!Go(t, "tell")
             /\ sole' = (IF call[t].on THEN alone /\ interlock ELSE sole)
             /\ alone' = (~call[t].on /\ alone)
    <3>1. Moved(t, "tell")
      BY <1>1, <2>3, CallGoes DEF CallPcs
    <3>2. CASE call[t].on
      <4>1. ~alone' /\ (sole' <=> alone /\ interlock) /\ relay' = relay \cup {call[t].ch}
        BY <2>3, <3>2 DEF E!With
      <4>2. alone /\ interlock => relay \subseteq {call[t].ch}
        BY <1>3, <2>1, <3>2 DEF WalkedOff, E!Turning
      <4>3. sole' => \A i, k \in relay' : i = k
        BY <4>1, <4>2
      <4> QED BY <4>1, <4>3 DEF AloneInv
    <3>3. CASE ~call[t].on
      <4>1. relay' \subseteq relay /\ sole' = sole /\ (alone' => alone)
        BY <2>3, <3>3 DEF E!With
      <4>2. ~E!Turning(t)'
        BY <3>1 DEF Moved, E!Turning
      <4> QED BY <1>5, <4>1, <4>2
    <3> QED BY <3>2, <3>3
  <2>4. \/ E!Return(t) /\ UNCHANGED <<relay, alone, sole>>
        \/ /\ relay' = E!With(relay, call[t].ch, call[t].on) /\ E!Go(t, "tell")
           /\ sole' = (IF call[t].on THEN alone /\ interlock ELSE sole)
           /\ alone' = (~call[t].on /\ alone)
    BY <1>13, Zenon DEF E!SetOwn, E!history
  <2> QED BY <2>2, <2>3, <2>4
<1>14. CASE E!TellOwn(t) \/ E!Arm(t)
  <2>1. call[t].pc \in {"tell", "arm"} /\ relay' = relay /\ sole' = sole /\ alone' = alone
    BY <1>14 DEF E!TellOwn, E!Arm, E!Notify, E!history
  <2>2. E!Go(t, "arm") \/ E!Return(t)
    BY <1>14 DEF E!TellOwn, E!Arm
  <2>3. call'[t].pc \in {"arm", "idle"}
    BY <1>1, <2>2, CallGoes, CallReturns DEF CallPcs, Moved
  <2> QED BY <1>5, <2>1, <2>3 DEF E!Turning
<1> QED BY <1>6, <1>7, <1>9, <1>10, <1>11, <1>12, <1>13, <1>14 DEF E!Step

LEMMA RestAlone ==
    ASSUME TasksTyped, AloneInv, Rest
    PROVE  AloneInv'
<1>1. E!TypeOK /\ CallsTyped /\ "cloud" \in E!Tasks /\ call["cloud"].pc \in CloudPcs
  BY DEF TasksTyped, CallsTyped, E!Tasks
<1>2. ASSUME NEW t \in E!Tasks \ {"cloud"}, NEW c \in E!Relays, NEW v \in BOOLEAN, Begins(t, c, v)
      PROVE  AloneInv'
  <2>1. /\ OthersKept(t) /\ call'[t].pc = "stop" /\ call'[t].on = v
        /\ relay' = relay /\ interlock' = interlock
    BY <1>1, <1>2, CallBegins DEF Begins
  <2>2. sole' = sole /\ alone' = (IF v THEN \A s \in E!Tasks : ~E!Turning(s) ELSE alone)
    BY <1>2, Zenon DEF Begins, E!Begin
  <2>3. WalkedOff(t)'
    BY <2>1 DEF WalkedOff, Walking
  <2>4. CASE v
    <3>1. alone' => \A s \in E!Tasks \ {t} : ~E!Turning(s)
      BY <2>2, <2>4
    <3> QED BY <2>1, <2>2, <2>3, <3>1, AloneStep
  <2>5. CASE ~v
    <3>1. ~E!Turning(t)' /\ (alone' => alone)
      BY <2>1, <2>2, <2>5 DEF E!Turning
    <3> QED BY <2>1, <2>2, <3>1, AloneStep
  <2> QED BY <2>4, <2>5
<1>3. CASE E!SetInterlock
  <2>1. alone' = FALSE /\ relay' = relay /\ sole' = sole
    BY <1>3, Zenon DEF E!SetInterlock
  <2> QED BY <2>1 DEF AloneInv
<1>4. CASE \/ E!Disconnected
           \/ \E c \in E!Relays : E!DeleteSwitch(c) \/ \E inch \in BOOLEAN : E!SetSwitch(c, inch)
  <2>1. UNCHANGED <<call, relay, interlock, alone, sole>>
    BY <1>4 DEF E!Disconnected, E!DeleteSwitch, E!SetSwitch, E!config, E!history
  <2> QED BY <2>1 DEF AloneInv, WalkedOff, E!Turning
<1>5. CASE E!Connected \/ E!CopySwitches \/ E!PublishSend \/ \E c \in E!Relays : E!PublishRead(c)
  <2>1. UNCHANGED <<relay, interlock, alone, sole>>
    BY <1>5 DEF E!Connected, E!CopySwitches, E!PublishSend, E!PublishRead, E!Notify, E!config, E!history
  <2>2. OthersKept("cloud") /\ call'["cloud"].pc \in CloudPcs
    BY <1>1, <1>5, CallGoes, CloudGoesOn, CloudReads DEF E!Connected, E!CopySwitches, E!PublishSend,
       E!PublishRead, Moved, CallPcs, CloudPcs
  <2>3. ~E!Turning("cloud")'
    BY <2>2 DEF E!Turning, CloudPcs
  <2> QED BY <1>1, <2>1, <2>2, <2>3, AloneStep
<1> QED BY <1>1, <1>2, <1>3, <1>4, <1>5, RestBegins

-----------------------------------------------------------------------------
(* The reports.                                                            *)

\* A step that has nothing to do with the channel keeps what is said of it.
LEMMA NotItsReport ==
    ASSUME NEW c, Reported(c), NEW t \in E!Tasks, OthersKept(t),
           ~E!Reporting(t, c), ~E!Reporting(t, c)', c \in relay' <=> c \in relay,
           c \in told' <=> c \in told, c \notin unsure' => c \notin unsure,
           linked' /\ c \in known' => (linked /\ c \in known /\ (c \in todo => c \in todo')) \/ c \in todo'
    PROVE  Reported(c)'
<1>1. \A s \in E!Tasks \ {t} : (E!Reporting(s, c)' <=> E!Reporting(s, c)) /\ (WillSay(s)' <=> WillSay(s))
  BY DEF OthersKept, E!Reporting, E!At, WillSay
<1> QED BY <1>1 DEF Reported

\* One that reads or writes its relay has a report to make.
LEMMA ItsReportBegins ==
    ASSUME NEW c, NEW t \in E!Tasks, OthersKept(t), E!Reporting(t, c)', WillSay(t)' <=> c \in relay',
           E!Reports(c)
    PROVE  Reported(c)'
<1>1. c \notin unsure' => \A s \in E!Tasks : ~E!Reporting(s, c)
  BY DEF E!Reports
<1>2. \A s \in E!Tasks \ {t} : E!Reporting(s, c)' <=> E!Reporting(s, c)
  BY DEF OthersKept, E!Reporting, E!At
<1> QED BY <1>1, <1>2 DEF Reported

\* One that makes it leaves the backend with what it says.
LEMMA ItsReportEnds ==
    ASSUME NEW c, Reported(c), NEW t \in E!Tasks, OthersKept(t), E!Reporting(t, c),
           ~E!Reporting(t, c)', relay' = relay, linked' = linked, E!Notify(c, WillSay(t))
    PROVE  Reported(c)'
<1>1. \A s \in E!Tasks \ {t} : (E!Reporting(s, c)' <=> E!Reporting(s, c)) /\ (WillSay(s)' <=> WillSay(s))
  BY DEF OthersKept, E!Reporting, E!At, WillSay
<1> SUFFICES ASSUME c \notin unsure' PROVE Reported(c)'
  BY DEF Reported
<1>2. c \notin unsure /\ (linked => told' = E!With(told, c, WillSay(t)))
  BY DEF E!Notify
<1>3. (WillSay(t) <=> c \in relay) /\ \A s \in E!Tasks : E!Reporting(s, c) => s = t
  BY <1>2 DEF Reported
<1>4. linked => (c \in told' <=> c \in relay)
  BY <1>2, <1>3 DEF E!With
<1>5. \A s \in E!Tasks : ~E!Reporting(s, c)'
  BY <1>1, <1>3
<1> QED BY <1>4, <1>5 DEF Reported

\* A report is of one channel, and so is what is forgotten or doubted by it.
LEMMA NotifyOther ==
    ASSUME NEW c, NEW d, c # d, NEW v, E!Notify(d, v)
    PROVE  /\ c \in told' <=> c \in told
           /\ c \in known' <=> c \in known
           /\ c \in unsure' <=> c \in unsure
BY DEF E!Notify, E!With

LEMMA StepReports ==
    ASSUME TasksTyped, ReportInv, NEW t \in E!Tasks, E!Step(t)
    PROVE  ReportInv'
<1> USE DEF E!At
<1>1. /\ CallsTyped /\ call[t] \in E!Calls /\ InBoard(call[t]) /\ OthersKept(t) /\ t # "cloud"
      /\ "cloud" \in E!Tasks
  BY StepCall DEF TasksTyped, CallsTyped, E!Tasks
<1>2. linked' = linked /\ todo' = todo /\ call'["cloud"] = call["cloud"] /\ (~linked => known' = known)
  <2>1. linked' = linked /\ todo' = todo
    BY DEF E!Step, E!StopTimer, E!ReadConfig, E!ReadOther, E!StopOther, E!TurnOtherOff,
       E!TellOther, E!SetOwn, E!TellOwn, E!Arm
  <2>2. ~linked => known' = known
    BY DEF E!Step, E!StopTimer, E!ReadConfig, E!ReadOther, E!StopOther, E!TurnOtherOff, E!SkipOther,
       E!TellOther, E!SetOwn, E!TellOwn, E!Arm, E!Notify, E!history
  <2> QED BY <1>1, <2>1, <2>2 DEF OthersKept
<1>3. SUFFICES ASSUME NEW c \in E!Relays PROVE Reported(c)'
  BY <1>2 DEF ReportInv
<1>4. Reported(c)
  BY DEF ReportInv
\* Most steps say and hear nothing of any channel.
<1>5. ASSUME UNCHANGED <<relay, told, known, unsure>>, call[t].pc \notin {"tell", "tellother"},
             call'[t].pc \notin {"tell", "tellother", "publish"}, call[t].pc # "publish"
      PROVE  Reported(c)'
  <2>1. ~E!Reporting(t, c) /\ ~E!Reporting(t, c)'
    BY <1>5 DEF E!Reporting
  <2> QED BY <1>1, <1>2, <1>4, <1>5, <2>1, NotItsReport
<1>6. CASE E!StopTimer(t) \/ E!StopOther(t)
  <2>1. UNCHANGED <<relay, told, known, unsure>> /\ call[t].pc \in {"stop", "stopother"}
    BY <1>6 DEF E!StopTimer, E!StopOther, E!history
  <2>2. call'[t].pc \in {"config", "offother"}
    BY <1>1, <1>6, CallGoes DEF E!StopTimer, E!StopOther, Moved, CallPcs, Walking
  <2> QED BY <1>5, <2>1, <2>2
<1>7. CASE E!ReadConfig(t)
  <2>1. UNCHANGED <<relay, told, known, unsure>> /\ call[t].pc = "config"
    BY <1>7 DEF E!ReadConfig, E!history
  <2>2. call'[t].pc \in {"others", "own"}
    BY <1>1, <1>7, CallReads
  <2> QED BY <1>5, <2>1, <2>2
<1>8. CASE E!ReadOther(t)
  <2>1. UNCHANGED <<relay, told, known, unsure>> /\ call[t].pc = "others"
    BY <1>8 DEF E!ReadOther, E!SkipOther, E!history
  <2>2. call'[t].pc \in {"stopother", "others", "own"}
    BY <1>1, <1>8, CallGoes, CallGoesOn DEF E!ReadOther, E!SkipOther, Moved, WalksOn, CallPcs, Walking
  <2> QED BY <1>5, <2>1, <2>2
<1>9. CASE E!TurnOtherOff(t)
  <2>1. call[t].pc = "offother"
    BY <1>9 DEF E!TurnOtherOff
  <2>2. CASE E!SkipOther(t) /\ UNCHANGED <<relay, told>>
    <3>1. call'[t].pc \in {"others", "own"}
      BY <1>1, <2>1, <2>2, CallGoesOn DEF E!SkipOther, WalksOn, Walking
    <3> QED BY <1>5, <2>1, <2>2, <3>1 DEF E!SkipOther
  <2>3. CASE /\ relay' = relay \ {call[t].at} /\ E!Go(t, "tellother") /\ E!Reports(call[t].at)
             /\ UNCHANGED <<known, told>>
    <3>1. Moved(t, "tellother")
      BY <1>1, <2>3, CallGoes DEF CallPcs, Walking
    <3>2. CASE c = call[t].at
      <4>1. E!Reporting(t, c)' /\ ~WillSay(t)' /\ c \notin relay'
        BY <2>3, <3>1, <3>2 DEF Moved, E!Reporting, WillSay
      <4> QED BY <1>1, <2>3, <3>2, <4>1, ItsReportBegins
    <3>3. CASE c # call[t].at
      <4>1. ~E!Reporting(t, c) /\ ~E!Reporting(t, c)'
        BY <2>1, <3>1, <3>3 DEF Moved, E!Reporting
      <4>2. (c \in relay' <=> c \in relay) /\ (c \in unsure' <=> c \in unsure)
        BY <2>3, <3>3 DEF E!Reports
      <4> QED BY <1>1, <1>2, <1>4, <2>3, <4>1, <4>2, NotItsReport
    <3> QED BY <3>2, <3>3
  <2> QED BY <1>9, <2>2, <2>3 DEF E!TurnOtherOff
<1>10. CASE E!TellOther(t)
  <2>1. call[t].pc = "tellother" /\ relay' = relay /\ E!Notify(call[t].at, FALSE) /\ WalksOn(t)
    BY <1>1, <1>10, CallGoesOn DEF E!TellOther, Walking
  <2>2. ~E!Reporting(t, c)'
    BY <2>1 DEF WalksOn, E!Reporting
  <2>3. CASE c = call[t].at
    <3>1. E!Reporting(t, c) /\ WillSay(t) = FALSE
      BY <2>1, <2>3 DEF E!Reporting, WillSay
    <3>2. E!Notify(c, WillSay(t))
      BY <2>1, <2>3, <3>1, Zenon
    <3> QED BY <1>1, <1>2, <1>4, <2>1, <2>2, <3>1, <3>2, ItsReportEnds
  <2>4. CASE c # call[t].at
    <3>1. ~E!Reporting(t, c)
      BY <2>1, <2>4 DEF E!Reporting
    <3>2. (c \in told' <=> c \in told) /\ (c \in known' <=> c \in known) /\ (c \in unsure' <=> c \in unsure)
      BY <2>1, <2>4, NotifyOther
    <3> QED BY <1>1, <1>2, <1>4, <2>1, <2>2, <3>1, <3>2, NotItsReport
  <2> QED BY <2>3, <2>4
<1>11. CASE E!SetOwn(t)
  <2>1. call[t].pc = "own" /\ UNCHANGED <<told, known>>
    BY <1>11 DEF E!SetOwn, E!history
  <2>2. CASE E!Return(t) /\ UNCHANGED <<relay, unsure>>
    BY <1>1, <1>5, <2>1, <2>2, CallReturns
  <2>3. CASE relay' = E!With(relay, call[t].ch, call[t].on) /\ E!Go(t, "tell") /\ E!Reports(call[t].ch)
    <3>1. Moved(t, "tell")
      BY <1>1, <2>3, CallGoes DEF CallPcs
    <3>2. CASE c = call[t].ch
      <4>1. E!Reporting(t, c)' /\ (WillSay(t)' <=> call[t].on)
        BY <3>1, <3>2 DEF Moved, E!Reporting, WillSay
      <4>2. c \in relay' <=> call[t].on
        BY <2>3, <3>2 DEF E!With
      <4> QED BY <1>1, <2>3, <3>2, <4>1, <4>2, ItsReportBegins
    <3>3. CASE c # call[t].ch
      <4>1. ~E!Reporting(t, c) /\ ~E!Reporting(t, c)'
        BY <2>1, <3>1, <3>3 DEF Moved, E!Reporting
      <4>2. (c \in relay' <=> c \in relay) /\ (c \in unsure' <=> c \in unsure)
        BY <2>3, <3>3 DEF E!Reports, E!With
      <4> QED BY <1>1, <1>2, <1>4, <2>1, <4>1, <4>2, NotItsReport
    <3> QED BY <3>2, <3>3
  <2> QED BY <1>11, <2>2, <2>3 DEF E!SetOwn, E!history
<1>12. CASE E!TellOwn(t)
  <2>1. call[t].pc = "tell" /\ relay' = relay /\ E!Notify(call[t].ch, call[t].on)
    BY <1>12 DEF E!TellOwn
  <2>2. call'[t].pc \in {"arm", "idle"}
    BY <1>1, <1>12, CallGoes, CallReturns DEF E!TellOwn, Moved, CallPcs
  <2>3. ~E!Reporting(t, c)'
    BY <2>2 DEF E!Reporting
  <2>4. CASE c = call[t].ch
    <3>1. E!Reporting(t, c) /\ WillSay(t) = call[t].on
      <4>1. call[t].on \in BOOLEAN
        BY <1>1, CallFields
      <4> QED BY <2>1, <2>4, <4>1 DEF E!Reporting, WillSay
    <3>2. E!Notify(c, WillSay(t))
      BY <2>1, <2>4, <3>1
    <3> QED BY <1>1, <1>2, <1>4, <2>1, <2>3, <3>1, <3>2, ItsReportEnds
  <2>5. CASE c # call[t].ch
    <3>1. ~E!Reporting(t, c)
      BY <2>1, <2>5 DEF E!Reporting
    <3>2. (c \in told' <=> c \in told) /\ (c \in known' <=> c \in known) /\ (c \in unsure' <=> c \in unsure)
      BY <2>1, <2>5, NotifyOther
    <3> QED BY <1>1, <1>2, <1>4, <2>1, <2>3, <3>1, <3>2, NotItsReport
  <2> QED BY <2>4, <2>5
<1>13. CASE E!Arm(t)
  <2>1. UNCHANGED <<relay, told, known, unsure>> /\ call[t].pc = "arm"
    BY <1>13 DEF E!Arm, E!history
  <2>2. call'[t].pc = "idle"
    BY <1>1, <1>13, CallReturns DEF E!Arm
  <2> QED BY <1>5, <2>1, <2>2
<1> QED BY <1>6, <1>7, <1>8, <1>9, <1>10, <1>11, <1>12, <1>13 DEF E!Step

LEMMA RestReports ==
    ASSUME TasksTyped, ReportInv, Rest
    PROVE  ReportInv'
<1> USE DEF E!At, E!Busy
<1>1. E!TypeOK /\ CallsTyped /\ "cloud" \in E!Tasks /\ call["cloud"].pc \in CloudPcs
  BY DEF TasksTyped, CallsTyped, E!Tasks
<1>2. \A c \in E!Relays : Reported(c)
  BY DEF ReportInv
<1>3. ASSUME NEW t \in E!Tasks \ {"cloud"}, NEW i \in E!Relays, NEW v \in BOOLEAN, Begins(t, i, v)
      PROVE  ReportInv'
  <2>1. /\ OthersKept(t) /\ call[t].pc = "idle" /\ call'[t].pc = "stop"
        /\ UNCHANGED <<relay, told, linked, todo>>
    BY <1>1, <1>3, CallBegins DEF Begins
  <2>2. UNCHANGED <<known, unsure>>
    BY <1>3, Zenon DEF Begins, E!Begin
  <2>3. \A c \in E!Relays : ~E!Reporting(t, c) /\ ~E!Reporting(t, c)'
    BY <2>1 DEF E!Reporting
  <2>4. \A c \in E!Relays : Reported(c)'
    BY <1>2, <2>1, <2>2, <2>3, NotItsReport
  <2>5. call'["cloud"] = call["cloud"]
    BY <1>1, <2>1 DEF OthersKept
  <2> QED BY <2>1, <2>2, <2>4, <2>5 DEF ReportInv
<1>4. CASE \/ E!SetInterlock
           \/ \E c \in E!Relays : E!DeleteSwitch(c) \/ \E inch \in BOOLEAN : E!SetSwitch(c, inch)
  <2>1. UNCHANGED <<call, relay, told, linked, todo, known, unsure>>
    BY <1>4, Zenon DEF E!SetInterlock, E!DeleteSwitch, E!SetSwitch, E!history
  <2> QED BY <2>1 DEF ReportInv, Reported, E!Reporting, WillSay
<1>5. CASE E!Disconnected
  <2>1. /\ linked' = FALSE /\ known' = {} /\ call["cloud"].pc = "idle"
        /\ UNCHANGED <<call, relay, told, todo, unsure>>
    BY <1>5 DEF E!Disconnected
  <2> QED BY <2>1 DEF ReportInv, Reported, E!Reporting, WillSay
<1>6. CASE E!Connected
  <2>1. /\ linked' = TRUE /\ ~linked /\ E!Go("cloud", "copy") /\ call["cloud"].pc = "idle"
        /\ UNCHANGED <<relay, told, todo, known, unsure>>
    BY <1>6 DEF E!Connected, E!history
  <2>2. OthersKept("cloud") /\ call'["cloud"].pc = "copy"
    BY <1>1, <2>1, CallGoes DEF Moved, CallPcs, CloudPcs
  <2>3. \A c \in E!Relays : ~E!Reporting("cloud", c) /\ ~E!Reporting("cloud", c)'
    BY <2>1, <2>2 DEF E!Reporting
  <2>4. known' = {} /\ todo' = {}
    BY <2>1 DEF ReportInv
  <2>5. \A c \in E!Relays : Reported(c)'
    BY <1>1, <1>2, <2>1, <2>2, <2>3, <2>4, NotItsReport
  <2> QED BY <2>1, <2>2, <2>4, <2>5 DEF ReportInv
<1>7. CASE E!CopySwitches
  <2>1. /\ call["cloud"].pc = "copy" /\ E!GoOn(listed) /\ known' = known \cup listed
        /\ UNCHANGED <<relay, told, linked, unsure>>
    BY <1>7 DEF E!CopySwitches
  <2>2. /\ OthersKept("cloud") /\ todo' = listed /\ call'["cloud"].pc \in {"idle", "read"}
        /\ call'["cloud"].pc = "idle" => listed = {}
    BY <1>1, <2>1, CloudGoesOn
  <2>3. \A c \in E!Relays : ~E!Reporting("cloud", c) /\ ~E!Reporting("cloud", c)'
    BY <2>1, <2>2 DEF E!Reporting
  <2>4. todo = {} /\ linked
    BY <2>1 DEF ReportInv
  <2>5. \A c \in E!Relays : Reported(c)'
    BY <1>1, <1>2, <2>1, <2>2, <2>3, <2>4, NotItsReport
  <2>6. linked' /\ (call'["cloud"].pc \in {"idle", "copy"} => todo' = {})
    BY <2>1, <2>2, <2>4
  <2> QED BY <2>5, <2>6 DEF ReportInv
<1>8. ASSUME NEW d \in E!Relays, E!PublishRead(d) PROVE ReportInv'
  <2>1. /\ call["cloud"].pc = "read" /\ linked' = linked /\ linked
        /\ UNCHANGED <<relay, told, known>>
    BY <1>8 DEF E!PublishRead, ReportInv
  <2>2. CASE /\ call' = [call EXCEPT !["cloud"] = [E!Idle EXCEPT !.pc = "publish", !.at = d, !.on = d \in relay]]
             /\ todo' = todo \ {d} /\ E!Reports(d)
    <3>1. /\ OthersKept("cloud") /\ call'["cloud"].pc = "publish" /\ call'["cloud"].at = d
          /\ call'["cloud"].on = (d \in relay)
      BY <1>1, <2>2, CloudReads
    <3>2. E!Reporting("cloud", d)' /\ (WillSay("cloud")' <=> d \in relay')
      BY <2>1, <3>1 DEF E!Reporting, WillSay
    <3>3. Reported(d)'
      BY <1>1, <2>2, <3>1, <3>2, ItsReportBegins
    <3>4. ASSUME NEW c \in E!Relays, c # d PROVE Reported(c)'
      <4>1. ~E!Reporting("cloud", c) /\ ~E!Reporting("cloud", c)'
        BY <2>1, <3>1, <3>4 DEF E!Reporting
      <4>2. (c \in unsure' <=> c \in unsure) /\ (c \in todo' <=> c \in todo)
        BY <2>2, <3>4 DEF E!Reports
      <4> QED BY <1>1, <1>2, <2>1, <3>1, <4>1, <4>2, NotItsReport
    <3> QED BY <2>1, <3>1, <3>3, <3>4 DEF ReportInv
  <2>3. CASE E!GoOn(todo \ {d}) /\ unsure' = unsure \cup {d}
    <3>1. /\ OthersKept("cloud") /\ todo' = todo \ {d} /\ call'["cloud"].pc \in {"idle", "read"}
          /\ call'["cloud"].pc = "idle" => todo' = {}
      BY <1>1, <2>3, CloudGoesOn
    <3>2. \A c \in E!Relays : ~E!Reporting("cloud", c) /\ ~E!Reporting("cloud", c)'
      BY <2>1, <3>1 DEF E!Reporting
    <3>3. Reported(d)'
      BY <2>3 DEF Reported
    <3>4. ASSUME NEW c \in E!Relays, c # d PROVE Reported(c)'
      <4>1. (c \in unsure' <=> c \in unsure) /\ (c \in todo' <=> c \in todo)
        BY <2>3, <3>1, <3>4
      <4> QED BY <1>1, <1>2, <2>1, <3>1, <3>2, <4>1, NotItsReport
    <3> QED BY <2>1, <3>1, <3>3, <3>4 DEF ReportInv
  <2> QED BY <1>8, <2>2, <2>3 DEF E!PublishRead
<1>9. CASE E!PublishSend
  <2>1. PICK d \in E!Relays : d = call["cloud"].at
    <3>1. call["cloud"] \in E!Calls /\ InBoard(call["cloud"]) /\ call["cloud"].pc = "publish"
      BY <1>1, <1>9 DEF E!PublishSend, CallsTyped
    <3> QED BY <3>1, CallFields, SomeChannels DEF InBoard, E!Relays
  <2>2. /\ call["cloud"].pc = "publish" /\ E!Notify(d, call["cloud"].on) /\ E!GoOn(todo)
        /\ linked' = linked /\ linked /\ relay' = relay
    BY <1>9, <2>1 DEF E!PublishSend, ReportInv
  <2>3. /\ OthersKept("cloud") /\ todo' = todo /\ call'["cloud"].pc \in {"idle", "read"}
        /\ call'["cloud"].pc = "idle" => todo' = {}
    BY <1>1, <2>2, CloudGoesOn
  <2>4. \A c \in E!Relays : ~E!Reporting("cloud", c)'
    BY <2>3 DEF E!Reporting
  <2>5. Reported(d)'
    <3>1. call["cloud"].on \in BOOLEAN
      BY <1>1, CallFields DEF CallsTyped
    <3>2. WillSay("cloud") = call["cloud"].on /\ E!Reporting("cloud", d)
      BY <2>1, <2>2, <3>1 DEF WillSay, E!Reporting
    <3>3. E!Notify(d, WillSay("cloud"))
      BY <2>2, <3>2
    <3> QED BY <1>1, <1>2, <2>1, <2>2, <2>3, <2>4, <3>2, <3>3, ItsReportEnds
  <2>6. ASSUME NEW c \in E!Relays, c # d PROVE Reported(c)'
    <3>1. ~E!Reporting("cloud", c)
      BY <2>1, <2>2, <2>6 DEF E!Reporting
    <3>2. (c \in told' <=> c \in told) /\ (c \in known' <=> c \in known) /\ (c \in unsure' <=> c \in unsure)
      BY <2>2, <2>6, NotifyOther
    <3> QED BY <1>1, <1>2, <2>2, <2>3, <2>4, <3>1, <3>2, NotItsReport
  <2>7. \A c \in E!Relays : Reported(c)'
    BY <2>5, <2>6
  <2> QED BY <2>2, <2>3, <2>7 DEF ReportInv
<1> QED BY <1>1, <1>3, <1>4, <1>5, <1>6, <1>7, <1>8, <1>9, RestBegins

-----------------------------------------------------------------------------
LEMMA TasksInit == E!Init => TasksInv
<1> SUFFICES ASSUME E!Init PROVE TasksInv
  OBVIOUS
<1> USE DEF E!Init
<1>1. \A t \in E!Tasks : call[t] = E!Idle
  OBVIOUS
<1>2. "cloud" \in E!Tasks
  BY DEF E!Tasks
<1>3. CallsTyped
  BY <1>1, <1>2, IdleCall DEF CallsTyped, CloudPcs
<1>4. {interlock, linked, alone, sole} \subseteq BOOLEAN
  OBVIOUS
<1>5. TasksTyped
  BY <1>3, <1>4, SomeChannels DEF TasksTyped, CallsTyped, E!TypeOK
<1>6. E!InchingTimed
  BY DEF E!InchingTimed
<1>7. AloneInv
  BY DEF AloneInv
<1>8. \A t \in E!Tasks, c \in E!Relays : ~E!Reporting(t, c)
  BY <1>1, IdleCall DEF E!Reporting, E!At
<1>9. ReportInv
  BY <1>1, <1>2, <1>8, IdleCall DEF ReportInv, Reported
<1> QED BY <1>5, <1>6, <1>7, <1>9 DEF TasksInv

LEMMA TasksStep == TasksInv /\ [E!Next]_taskVars => TasksInv'
<1> SUFFICES ASSUME TasksInv, [E!Next]_taskVars PROVE TasksInv'
  OBVIOUS
<1>1. ASSUME NEW t \in E!Tasks, E!Step(t) PROVE TasksInv'
  BY <1>1, StepTyped, StepTimed, StepAlone, StepReports DEF TasksInv
<1>2. CASE UNCHANGED taskVars
  BY <1>2 DEF taskVars, TasksInv, TasksTyped, CallsTyped, E!TypeOK, E!InchingTimed, E!Underway, AloneInv,
     WalkedOff, E!Turning, ReportInv, Reported, E!Reporting, E!At, WillSay
<1>3. CASE Rest
  BY <1>3, RestTyped, RestTimed, RestAlone, RestReports DEF TasksInv
<1>4. E!Next => Rest \/ \E t \in E!Tasks : E!Step(t)
  BY DEF E!Next, Rest
<1> QED BY <1>1, <1>2, <1>3, <1>4

\* Of the ESP32, MCSpec is what Esp32Relays says, whichever part moves.
LEMMA TasksHold == MCSpec => []TasksInv
<1>1. MCInit => TasksInv
  BY TasksInit DEF MCInit
<1>2. TasksInv /\ [MCNext]_<<part, vars, taskVars>> => TasksInv'
  <2>1. [MCNext]_<<part, vars, taskVars>> => [E!Next]_taskVars
    BY DEF MCNext
  <2> QED BY <2>1, TasksStep
<1> QED BY <1>1, <1>2, PTL DEF MCSpec

\* The relays, the timers, the switches, the calls under way and the reports keep
\* their types.
THEOREM TasksTypeCorrect == MCSpec => []E!TypeOK
<1>1. TasksInv => E!TypeOK
  BY DEF TasksInv, TasksTyped
<1> QED BY <1>1, TasksHold, PTL

\* A channel turned ON by a command that found inching is left ON with neither a
\* timer nor a task that will switch it by no overlap of the tasks and no change of
\* its switch, however many channels there are.
THEOREM InchingIsTimed == MCSpec => []InchingTimed
<1>1. TasksInv => InchingTimed
  BY DEF TasksInv, InchingTimed
<1> QED BY <1>1, TasksHold, PTL

\* Whatever was ON before, an ON command that no other comes across makes the
\* interlock hold, for any number of channels.
THEOREM InterlockKeptAlone == MCSpec => []InterlockAlone
<1>1. TasksInv => InterlockAlone
  <2> SUFFICES ASSUME TasksInv, sole PROVE E!Cardinality(relay) <= 1
    BY DEF InterlockAlone, E!InterlockAlone
  <2>1. relay \subseteq E!Relays /\ \A i, k \in relay : i = k
    BY DEF TasksInv, TasksTyped, E!TypeOK, AloneInv
  <2> QED BY <2>1, AtMostOneOn
<1> QED BY <1>1, TasksHold, PTL

\* When all is quiet the backend has the state of every channel published or
\* commanded on this connection, but for a last report that was lost or crossed
\* another of its channel, for any number of channels and switches.
THEOREM ReportsAreTrue == MCSpec => []ReportedAlone
<1>1. TasksInv => ReportedAlone
  <2> SUFFICES ASSUME TasksInv, linked, \A t \in E!Tasks : ~E!Busy(t), NEW c \in known \ unsure
               PROVE  c \in told <=> c \in relay
    BY DEF ReportedAlone, E!ReportedAlone
  <2>1. c \in E!Relays /\ "cloud" \in E!Tasks
    BY DEF TasksInv, TasksTyped, E!TypeOK, E!Tasks
  <2>2. \A t \in E!Tasks : ~E!Reporting(t, c)
    BY DEF E!Busy, E!Reporting, E!At
  <2>3. todo = {}
    BY <2>1 DEF TasksInv, ReportInv, E!Busy
  <2> QED BY <2>1, <2>2, <2>3 DEF TasksInv, ReportInv, Reported
<1> QED BY <1>1, TasksHold, PTL
=============================================================================
