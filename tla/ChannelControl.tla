---------------------------- MODULE ChannelControl ----------------------------
(***************************************************************************)
(* The relays of one ESP8266 board (firmware-esp8266): every change of a   *)
(* channel goes through channelControlSetState, which applies the          *)
(* interlock, keeps the restore cache current and arms the inching timer.  *)
(* Around it run, in one cooperative loop(), the debounced flush of the    *)
(* configuration to flash, the polling of the wall switches and the        *)
(* deferred reboots; and at any moment the power may fail.                 *)
(*                                                                         *)
(* One action is one handler, or one iteration of a loop over channels     *)
(* (the code lets nothing run between two iterations: the interleavings    *)
(* this adds only make the properties stronger).  Time is not counted: a   *)
(* deadline that is set may expire, and a pending flush may happen, at any *)
(* later step.                                                             *)
(***************************************************************************)
EXTENDS Naturals

CONSTANTS
    Channels,   \* the relays of the board
    HasInput,   \* those with a wall-switch GPIO (SS_INPUT_GPIO[i] >= 0)
    Pushes      \* the hardware configurations the backend may push

Modes == {"DISABLED", "TOGGLE", "EDGE"}

\* SsConfig, cut to what the relays depend on.  inching[c]: inchingMs > 0.
Hardware == [mode: [Channels -> Modes], inching: [Channels -> BOOLEAN], interlock: BOOLEAN]
Config == [last: [Channels -> BOOLEAN], hw: Hardware]

ASSUME InputsAreChannels == HasInput \subseteq Channels
ASSUME PushesAreHardware == Pushes \subseteq Hardware

VARIABLES
    on,          \* relay_hal s_state: the relays
    armed,       \* s_inchingDeadlineMs # 0
    cfg,         \* configStore._cfg, in RAM
    dirty,       \* configStore._dirty
    fresh,       \* what is dirty was marked after the pending reboot was requested
    flash,       \* /config.json
    failed,      \* history: the last save did not reach the flash
    pending,     \* recovery_button s_pending
    contact,     \* environment: the wall switch is engaged
    active,      \* s_active
    engaged,     \* s_lastEngaged
    hasBaseline, \* s_hasBaseline
    debounced,   \* s_debounced
    moved,       \* history: the contact moved since it was last confirmed
    overlapped   \* history: the interlock was enabled over two ON channels

relays == <<on, armed>>
store == <<cfg, dirty, fresh, flash, failed>>
inputs == <<active, engaged, hasBaseline, debounced, moved>>
vars == <<on, armed, cfg, dirty, fresh, flash, failed, pending, contact,
          active, engaged, hasBaseline, debounced, moved, overlapped>>

AllOff == [c \in Channels |-> FALSE]

AtMostOne(f) == \A c, d \in Channels : f[c] /\ f[d] => c = d

-----------------------------------------------------------------------------
\* config_store.cpp

loadDefault ==
    [last |-> AllOff,
     hw |-> [mode |-> [c \in Channels |-> "DISABLED"], inching |-> AllOff, interlock |-> FALSE]]

\* The 500 ms debounce is shorter than the 800 ms between a reboot request and
\* the reboot: only what was marked after the request can miss its flush.
markDirty ==
    /\ dirty' = TRUE
    /\ fresh' = (pending # "none")

\* save(): the whole configuration replaces the file, or nothing does.
save(ok) ==
    /\ flash' = IF ok THEN cfg ELSE flash
    /\ failed' = ~ok

\* mutant of loop: only the relay cache is written, not the hardware part.
loopSavesCacheOnly(ok) ==
    /\ dirty
    /\ flash' = IF ok THEN [flash EXCEPT !.last = cfg.last] ELSE flash
    /\ failed' = ~ok
    /\ dirty' = FALSE
    /\ fresh' = FALSE
    /\ UNCHANGED <<relays, cfg, pending, contact, inputs, overlapped>>

\* ConfigStore::loop(): a failed save is not retried, _dirty is cleared.
loop(ok) ==
    /\ dirty
    /\ save(ok)
    /\ dirty' = FALSE
    /\ fresh' = FALSE
    /\ UNCHANGED <<relays, cfg, pending, contact, inputs, overlapped>>

-----------------------------------------------------------------------------
\* channel_control.cpp

\* The channels the interlock turns off when c is set to v.
Forced(c, v) == IF v /\ cfg.hw.interlock THEN {d \in Channels \ {c} : on[d]} ELSE {}

\* f after c is set to v and the forced channels are cleared.
After(f, c, v, forced) == [d \in Channels |-> IF d = c THEN v ELSE f[d] /\ d \notin forced]

\* mutant of channelControlSetState: the restore cache of the forced channels
\* is not updated.
SetStateForgetsForced(c, v) ==
    /\ on' = After(on, c, v, Forced(c, v))
    /\ cfg' = [cfg EXCEPT !.last[c] = v]
    /\ armed' = After(armed, c, v /\ cfg.hw.inching[c], Forced(c, v))
    /\ markDirty
    /\ UNCHANGED <<flash, failed>>

channelControlSetState(c, v) ==
    /\ on' = After(on, c, v, Forced(c, v))
    /\ cfg' = [cfg EXCEPT !.last = After(cfg.last, c, v, Forced(c, v))]
    /\ armed' = After(armed, c, v /\ cfg.hw.inching[c], Forced(c, v))
    /\ markDirty
    /\ UNCHANGED <<flash, failed>>

\* A command of the backend, of the LAN API, of the hotspot page or of a local
\* schedule.
Command(c, v) ==
    /\ channelControlSetState(c, v)
    /\ UNCHANGED <<pending, contact, inputs, overlapped>>

\* handleAllOff of the hotspot page.
TurnAllOff ==
    /\ \E c \in Channels : on[c]
    /\ on' = AllOff
    /\ cfg' = [cfg EXCEPT !.last = [c \in Channels |-> cfg.last[c] /\ ~on[c]]]
    /\ armed' = [c \in Channels |-> armed[c] /\ ~on[c]]
    /\ markDirty
    /\ UNCHANGED <<flash, failed, pending, contact, inputs, overlapped>>

\* channelControlLoop: the inching deadline of c has passed.
InchingExpires(c) ==
    /\ armed[c]
    /\ channelControlSetState(c, FALSE)
    /\ UNCHANGED <<pending, contact, inputs, overlapped>>

\* handleHwConfigPush: the push is the complete picture; nothing is enforced
\* on the relays and no deadline is armed or cancelled.
handleHwConfigPush(hw) ==
    /\ cfg' = [cfg EXCEPT !.hw = hw]
    /\ markDirty
    /\ overlapped' = (overlapped \/ (hw.interlock /\ ~AtMostOne(on)))
    /\ UNCHANGED <<relays, flash, failed, pending, contact, inputs>>

-----------------------------------------------------------------------------
\* physical_input.cpp

\* Somebody moves the wall switch of c.
MoveContact(c) ==
    /\ c \in HasInput
    /\ contact' = [contact EXCEPT ![c] = ~contact[c]]
    /\ moved' = [moved EXCEPT ![c] = TRUE]
    /\ UNCHANGED <<relays, store, pending, active, engaged, hasBaseline, debounced, overlapped>>

\* mutant of WantActive: a channel without a GPIO is polled too.
WantActiveAnyPin(c, k) == k.hw.mode[c] # "DISABLED"

\* refreshActive's condition, under configuration k.
WantActive(c, k) == c \in HasInput /\ k.hw.mode[c] # "DISABLED"

\* mutant of refreshActive: the baseline of an earlier activation is kept.
refreshActiveKeepsBaseline(c) ==
    /\ WantActive(c, cfg) # active[c]
    /\ active' = [active EXCEPT ![c] = ~active[c]]
    /\ moved' = [moved EXCEPT ![c] = FALSE]
    /\ engaged' = [engaged EXCEPT ![c] = IF active'[c] THEN contact[c] ELSE engaged[c]]
    /\ UNCHANGED <<relays, store, pending, contact, hasBaseline, debounced, overlapped>>

\* The poll that finds the input of c enabled or disabled by a push.  It drops
\* the baseline and restarts the debounce, so it confirms nothing itself.
refreshActive(c) ==
    /\ WantActive(c, cfg) # active[c]
    /\ active' = [active EXCEPT ![c] = ~active[c]]
    /\ hasBaseline' = [hasBaseline EXCEPT ![c] = FALSE]
    /\ moved' = [moved EXCEPT ![c] = FALSE]
    /\ engaged' = [engaged EXCEPT ![c] = IF active'[c] THEN contact[c] ELSE engaged[c]]
    /\ UNCHANGED <<relays, store, pending, contact, debounced, overlapped>>

\* A poll of an input that was already active.
Polled(c) == active[c] /\ WantActive(c, cfg)

\* The raw reading changed: the debounce restarts.
PollBounce(c) ==
    /\ Polled(c)
    /\ contact[c] # engaged[c]
    /\ engaged' = [engaged EXCEPT ![c] = contact[c]]
    /\ UNCHANGED <<relays, store, pending, contact, active, hasBaseline, debounced, moved,
                   overlapped>>

\* Stable for 50 ms, first time: only the baseline.
PollBaseline(c) ==
    /\ Polled(c)
    /\ contact[c] = engaged[c]
    /\ ~hasBaseline[c]
    /\ debounced' = [debounced EXCEPT ![c] = contact[c]]
    /\ hasBaseline' = [hasBaseline EXCEPT ![c] = TRUE]
    /\ moved' = [moved EXCEPT ![c] = FALSE]
    /\ UNCHANGED <<relays, store, pending, contact, active, engaged, overlapped>>

\* Stable for 50 ms in the other position: a confirmed change.
PollConfirms(c) ==
    /\ Polled(c)
    /\ contact[c] = engaged[c]
    /\ hasBaseline[c]
    /\ contact[c] # debounced[c]
    /\ debounced' = [debounced EXCEPT ![c] = contact[c]]
    /\ moved' = [moved EXCEPT ![c] = FALSE]
    /\ \/ /\ cfg.hw.mode[c] = "TOGGLE"
          /\ channelControlSetState(c, contact[c])
       \/ /\ cfg.hw.mode[c] = "EDGE"
          /\ contact[c]
          /\ channelControlSetState(c, ~on[c])
       \/ /\ cfg.hw.mode[c] = "EDGE"
          /\ ~contact[c]
          /\ UNCHANGED <<relays, store>>
    /\ UNCHANGED <<pending, contact, active, engaged, hasBaseline, overlapped>>

-----------------------------------------------------------------------------
\* main.cpp setup(), recovery_button.cpp

\* setup() from the file k: relays restored verbatim, no deadline, no interlock,
\* inputs without a baseline.
setup(k) ==
    /\ on' = k.last
    /\ armed' = AllOff
    /\ cfg' = k
    /\ dirty' = FALSE
    /\ fresh' = FALSE
    /\ pending' = "none"
    /\ active' = [c \in Channels |-> WantActive(c, k)]
    /\ engaged' = AllOff
    /\ hasBaseline' = AllOff
    /\ debounced' = AllOff
    /\ moved' = AllOff
    /\ UNCHANGED <<contact, overlapped>>

PowerLoss ==
    /\ setup(flash)
    /\ flash' = flash
    /\ failed' = FALSE

\* POST /api/network: setStaticIp saves at once, then ESP.restart().
NetworkRestart(ok) ==
    /\ flash' = IF ok THEN cfg ELSE flash
    /\ failed' = FALSE
    /\ setup(flash')

\* A repeated request postpones the reboot; it never downgrades a reset.
recoveryRequestReboot ==
    /\ pending # "factory"
    /\ pending' = "reboot"
    /\ fresh' = FALSE
    /\ UNCHANGED <<relays, cfg, dirty, flash, failed, contact, inputs, overlapped>>

recoveryRequestFactoryReset ==
    /\ pending # "factory"
    /\ pending' = "factory"
    /\ UNCHANGED <<relays, store, contact, inputs, overlapped>>

\* servicePendingAction, a requested reboot: nothing flushes what is dirty.
RequestedReboot ==
    /\ pending = "reboot"
    /\ dirty => fresh
    /\ setup(flash)
    /\ flash' = flash
    /\ failed' = FALSE

\* doFactoryReset, requested or by holding the boot button.  If the save after
\* the format fails, begin() finds no file and loads the same defaults.
doFactoryReset ==
    /\ flash' = loadDefault
    /\ failed' = FALSE
    /\ setup(loadDefault)

-----------------------------------------------------------------------------
\* A board as flashed, after its first setup().
Init ==
    /\ on = AllOff
    /\ armed = AllOff
    /\ cfg = loadDefault
    /\ dirty = FALSE
    /\ fresh = FALSE
    /\ flash = loadDefault
    /\ failed = FALSE
    /\ pending = "none"
    /\ contact \in {f \in [Channels -> BOOLEAN] : \A c \in Channels \ HasInput : ~f[c]}
    /\ active = AllOff
    /\ engaged = AllOff
    /\ hasBaseline = AllOff
    /\ debounced = AllOff
    /\ moved = AllOff
    /\ overlapped = FALSE

Poll(c) == refreshActive(c) \/ PollBounce(c) \/ PollBaseline(c) \/ PollConfirms(c)

Restart ==
    \/ RequestedReboot
    \/ PowerLoss
    \/ \E ok \in BOOLEAN : NetworkRestart(ok)
    \/ doFactoryReset

Next ==
    \/ \E c \in Channels, v \in BOOLEAN : Command(c, v)
    \/ TurnAllOff
    \/ \E c \in Channels : InchingExpires(c) \/ MoveContact(c) \/ Poll(c)
    \/ \E hw \in Pushes : handleHwConfigPush(hw)
    \/ \E ok \in BOOLEAN : loop(ok)
    \/ recoveryRequestReboot
    \/ recoveryRequestFactoryReset
    \/ Restart

Spec == Init /\ [][Next]_vars

\* channelControlLoop runs on every iteration of loop().
FairSpec == Spec /\ \A c \in Channels : WF_vars(InchingExpires(c))

-----------------------------------------------------------------------------
TypeOK ==
    /\ on \in [Channels -> BOOLEAN]
    /\ armed \in [Channels -> BOOLEAN]
    /\ cfg \in Config
    /\ dirty \in BOOLEAN
    /\ fresh \in BOOLEAN
    /\ flash \in Config
    /\ failed \in BOOLEAN
    /\ pending \in {"none", "reboot", "factory"}
    /\ contact \in [Channels -> BOOLEAN]
    /\ active \in [Channels -> BOOLEAN]
    /\ \A c \in Channels : active[c] => c \in HasInput
    /\ engaged \in [Channels -> BOOLEAN]
    /\ hasBaseline \in [Channels -> BOOLEAN]
    /\ debounced \in [Channels -> BOOLEAN]
    /\ moved \in [Channels -> BOOLEAN]
    /\ overlapped \in BOOLEAN

\* A deadline is pending only on a channel that is ON: no cancelled or expired
\* inching timer of channelControlSetState can turn a channel off later.
ArmedIsOn == \A c \in Channels : armed[c] => on[c]

\* With the interlock enabled at most one channel is ON, through every command,
\* wall switch, expiry, flush and restart from an older file, unless a push
\* enabled the interlock while two channels were ON.
InterlockHolds == cfg.hw.interlock => overlapped \/ AtMostOne(on)

\* Once the configuration is clean (and the last save reached the flash), the
\* file holds the relays as they are and the hardware configuration in force:
\* a power failure then changes nothing.
CleanIsRestorable == ~dirty /\ ~failed => flash.hw = cfg.hw /\ flash.last = on

\* A live wall switch confirms a change only if somebody moved it since its
\* last confirmed position: enabling an input, or a reboot, presses nothing.
NoPhantomPress ==
    [][\A c \in Channels :
          hasBaseline[c] /\ hasBaseline'[c] /\ debounced'[c] # debounced[c] => moved[c]]_vars

\* switch_config.dart:92-95: a channel turned ON with inching set is turned
\* back OFF by the device, whatever turned it on.
InchingReverses == \A c \in Channels : armed[c] ~> ~on[c]
=============================================================================
