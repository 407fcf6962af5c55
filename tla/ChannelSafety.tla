----------------------------- MODULE ChannelSafety -----------------------------
(***************************************************************************)
(* The rules that protect what hangs on a channel: a lock and a minimum    *)
(* OFF time that every remote command is checked against (safety/guard.js) *)
(* and a maximum ON time that a scheduler enforces (safety/scheduler.js).  *)
(* Both judge by the cached state and by state_since, which the device's   *)
(* reports keep up to date (ws/deviceServer.js recordStateChange) as long  *)
(* as it is connected; a wall switch asks nobody.                          *)
(*                                                                         *)
(* One channel of one device.  Time is kept as ages, each cut off at the   *)
(* bound beyond which nothing looks at it.  How a connection authenticates *)
(* is DeviceSession's business, how a relayed call ends is DeviceRelay's.  *)
(***************************************************************************)
EXTENDS Naturals, SequencesExt

CONSTANTS
    MaxOn,       \* max_on_s
    MinOff,      \* min_off_s
    Cooldown,    \* COOLDOWN_MS
    Commands,    \* remote channel-state commands
    MaxMishaps,  \* bound: wall presses, lost connections, failed relays and
                 \* restarts of the backend, all together
    MaxReports   \* bound: reports on their way before the relay is set again

ASSUME TimesAssumption ==
    /\ MaxOn \in Nat \ {0} /\ MinOff \in Nat \ {0} /\ Cooldown \in Nat \ {0}
    /\ MaxMishaps \in Nat /\ MaxReports \in Nat \ {0}

VARIABLES
    relay,      \* the device: the relay
    age,        \* how long it has been in this state
    online,     \* the device is connected and registered
    wire,       \* state_changed frames on their way
    upserts,    \* recordStateChange statements issued, oldest first
    cached,     \* cached_channel_state.state
    sinceAge,   \* the age of cached_channel_state.state_since
    locked,     \* device_switches.locked_at is set
    command,    \* command -> [pc, state]
    tick,       \* runSafetyTick: its next step
    inFlight,   \* the channel is in inFlight
    lastAge,    \* the age of its lastAttemptAt, Cooldown when there is none
    mishaps,
    missed,     \* history: a change was not reported, or out of order, since
                \* the cache last changed to the truth
    overtaken   \* history: a report was recorded before an older one

device == <<relay, age, wire>>
cache == <<upserts, cached, sinceAge>>
scheduler == <<tick, inFlight, lastAge>>
history == <<missed, overtaken>>
vars == <<relay, age, online, wire, upserts, cached, sinceAge, locked, command,
          tick, inFlight, lastAge, mishaps, missed, overtaken>>

States == {"ON", "OFF"}
MaxAge == IF MaxOn > MinOff THEN MaxOn ELSE MinOff

TypeOK ==
    /\ relay \in States /\ age \in 0..MaxAge
    /\ online \in BOOLEAN /\ wire \in Seq(States) /\ upserts \in Seq(States)
    /\ cached \in States /\ sinceAge \in 0..MaxAge
    /\ locked \in BOOLEAN
    /\ command \in [Commands -> [pc : {"idle", "checked", "done"}, state : States]]
    /\ tick \in {"idle", "selected", "try", "sleep"}
    /\ inFlight \in BOOLEAN /\ lastAge \in 0..Cooldown
    /\ mishaps \in 0..MaxMishaps /\ missed \in BOOLEAN /\ overtaken \in BOOLEAN

\* A connected device that has been OFF, and shown so, for long enough.
Init ==
    /\ relay = "OFF" /\ age = MaxAge /\ online = TRUE /\ wire = <<>>
    /\ upserts = <<>> /\ cached = "OFF" /\ sinceAge = MaxAge
    /\ locked = FALSE
    /\ command \in [Commands -> [pc : {"idle"}, state : States]]
    /\ tick = "idle" /\ inFlight = FALSE /\ lastAge = Cooldown
    /\ mishaps = 0 /\ missed = FALSE /\ overtaken = FALSE

Mishap == mishaps < MaxMishaps /\ mishaps' = mishaps + 1

-----------------------------------------------------------------------------
(* Time.                                                                   *)

Older(a, bound) == IF a < bound THEN a + 1 ELSE a

Clock ==
    /\ age' = Older(age, MaxAge) /\ sinceAge' = Older(sinceAge, MaxAge)
    /\ lastAge' = Older(lastAge, Cooldown)
    /\ UNCHANGED <<relay, online, wire, upserts, cached, locked, command, tick, inFlight,
                   mishaps, history>>

-----------------------------------------------------------------------------
(* The device.                                                             *)

\* channelControlSetState and the report it sends, changed or not, when the
\* device is connected.
SetState(s) ==
    /\ Len(wire) + Len(upserts) < MaxReports
    /\ relay' = s
    /\ age' = IF s = relay THEN age ELSE 0
    /\ wire' = IF online THEN Append(wire, s) ELSE wire
    /\ missed' = (missed \/ (s # relay /\ ~online))

Press ==
    /\ Mishap
    /\ SetState(IF relay = "ON" THEN "OFF" ELSE "ON")
    /\ UNCHANGED <<online, cache, locked, command, scheduler, overtaken>>

\* The connection is lost, with the reports it carried.
Disconnect ==
    /\ online /\ Mishap
    /\ online' = FALSE /\ wire' = <<>>
    /\ missed' = (missed \/ wire # <<>>)
    /\ UNCHANGED <<relay, age, cache, locked, command, scheduler, overtaken>>

\* It connects again and replays its state.
Reconnect ==
    /\ ~online
    /\ online' = TRUE /\ wire' = <<relay>>
    /\ UNCHANGED <<relay, age, cache, locked, command, scheduler, mishaps, history>>

-----------------------------------------------------------------------------
(* The cache.                                                              *)

HandleFrame ==
    /\ wire # <<>>
    /\ upserts' = Append(upserts, Head(wire)) /\ wire' = Tail(wire)
    /\ UNCHANGED <<relay, age, online, cached, sinceAge, locked, command, scheduler,
                   mishaps, history>>

\* Only a real change moves state_since.
StateSince(s) ==
    /\ cached' = s
    /\ sinceAge' = IF s = cached THEN sinceAge ELSE 0

\* The statements run on a pool: any of those issued may be the next.
RecordStateChange(i) ==
    LET s == upserts[i]
        alone == Len(upserts) = 1 /\ wire = <<>> /\ s = relay IN
    /\ StateSince(s)
    /\ upserts' = RemoveAt(upserts, i)
    /\ overtaken' = (overtaken \/ i > 1)
    /\ missed' = IF s # cached /\ alone THEN FALSE ELSE missed \/ i > 1
    /\ UNCHANGED <<relay, age, online, wire, locked, command, scheduler, mishaps>>

-----------------------------------------------------------------------------
(* Remote commands.                                                        *)

\* The lock is set or taken off.
UpsertSwitch ==
    /\ locked' = ~locked
    /\ UNCHANGED <<device, online, cache, command, scheduler, mishaps, history>>

\* Mutant: the minimum OFF time is only looked at for a channel that is ON.
BlocksOnOnly(s) == locked \/ (s = "ON" /\ cached = "ON" /\ sinceAge < MinOff)

\* What checkChannelCommand blocks.
Blocks(s) == locked \/ (s = "ON" /\ cached = "OFF" /\ sinceAge < MinOff)

Goto(c, pc) == command' = [command EXCEPT ![c].pc = pc]

\* relayCommand: offline is looked at first, then the guard.
CheckChannelCommand(c) ==
    /\ command[c].pc = "idle"
    /\ Goto(c, IF ~online \/ Blocks(command[c].state) THEN "done" ELSE "checked")
    /\ UNCHANGED <<device, online, cache, locked, scheduler, mishaps, history>>

\* The command goes out and is carried out, or comes to nothing.
RelayCommand(c) ==
    /\ command[c].pc = "checked" /\ Goto(c, "done")
    /\ \/ online /\ SetState(command[c].state) /\ UNCHANGED mishaps
       \/ ~online /\ UNCHANGED <<device, mishaps, missed>>
       \/ Mishap /\ UNCHANGED <<device, missed>>
    /\ UNCHANGED <<online, cache, locked, scheduler, overtaken>>

-----------------------------------------------------------------------------
(* The max-runtime scheduler.                                              *)

\* runTick, unless one is in flight: the SELECT of the overdue channels.
RunTick ==
    /\ tick = "idle" /\ cached = "ON" /\ sinceAge >= MaxOn
    /\ tick' = "selected"
    /\ UNCHANGED <<device, online, cache, locked, command, inFlight, lastAge, mishaps, history>>

\* The rows that are due are fired at; the others are left alone.
FireDue ==
    LET due == online /\ ~inFlight /\ lastAge >= Cooldown IN
    /\ tick = "selected"
    /\ tick' = IF due THEN "try" ELSE "idle"
    /\ inFlight' = (inFlight \/ due)
    /\ lastAge' = IF due THEN 0 ELSE lastAge
    /\ UNCHANGED <<device, online, cache, locked, command, mishaps, history>>

\* fireSafetyOff goes on after an attempt: the first failure is retried after
\* a pause; the end of it, good or bad, starts the cooldown again.
FireSafetyOff(ok) ==
    IF ok \/ tick = "sleep"
    THEN tick' = "idle" /\ inFlight' = FALSE /\ lastAge' = 0
    ELSE tick' = "sleep" /\ UNCHANGED <<inFlight, lastAge>>

\* Mutant: the auto-OFF is subject to the guard like any command.
TurnOffOnceGuarded ==
    /\ tick \in {"try", "sleep"}
    /\ \/ online /\ ~Blocks("OFF") /\ SetState("OFF") /\ FireSafetyOff(TRUE) /\ UNCHANGED mishaps
       \/ ~online /\ UNCHANGED <<device, mishaps, missed>> /\ FireSafetyOff(FALSE)
       \/ Blocks("OFF") /\ UNCHANGED <<device, mishaps, missed>> /\ FireSafetyOff(FALSE)
       \/ online /\ Mishap /\ FireSafetyOff(FALSE)
            /\ (SetState("OFF") \/ UNCHANGED <<device, missed>>)
    /\ UNCHANGED <<online, cache, locked, command, overtaken>>

\* turnOffOnce, past the guard: carried out and answered, offline, or failed
\* with or without the device having carried it out.
TurnOffOnce ==
    /\ tick \in {"try", "sleep"}
    /\ \/ online /\ SetState("OFF") /\ FireSafetyOff(TRUE) /\ UNCHANGED mishaps
       \/ ~online /\ UNCHANGED <<device, mishaps, missed>> /\ FireSafetyOff(FALSE)
       \/ online /\ Mishap /\ FireSafetyOff(FALSE)
            /\ (SetState("OFF") \/ UNCHANGED <<device, missed>>)
    /\ UNCHANGED <<online, cache, locked, command, overtaken>>

\* The backend restarts: what it had in memory or under way is gone, and the
\* device's connection with it.
Restart ==
    /\ Mishap
    /\ online' = FALSE /\ wire' = <<>> /\ upserts' = <<>>
    /\ tick' = "idle" /\ inFlight' = FALSE /\ lastAge' = Cooldown
    /\ command' = [c \in Commands |-> [command[c] EXCEPT !.pc = "done"]]
    /\ missed' = (missed \/ wire # <<>> \/ upserts # <<>>)
    /\ UNCHANGED <<relay, age, cached, sinceAge, locked, overtaken>>

-----------------------------------------------------------------------------

Device == Press \/ Disconnect \/ Reconnect

Report == HandleFrame \/ \E i \in 1..Len(upserts) : RecordStateChange(i)

Safety == RunTick \/ FireDue \/ TurnOffOnce

Next ==
    \/ Clock
    \/ Device
    \/ Report
    \/ UpsertSwitch
    \/ \E c \in Commands : CheckChannelCommand(c) \/ RelayCommand(c)
    \/ Safety
    \/ Restart

Spec == Init /\ [][Next]_vars

\* Time passes, the device connects again when it has lost its connection
\* (computeReconnectIntervalMs), frames and statements are worked off, and the
\* interval and the continuations of the safety scheduler run.
FairSpec ==
    /\ Spec
    /\ WF_vars(Clock) /\ WF_vars(Reconnect) /\ WF_vars(Report) /\ WF_vars(Safety)

-----------------------------------------------------------------------------

\* All reports are in, in order, and the cache tells the truth.
Settled == ~missed /\ cached = relay /\ wire = <<>> /\ upserts = <<>>

\* state_since is never older than the change it stands for: with the cache
\* telling the truth and no report under way, a channel has been ON or OFF at
\* least as long as the guard and the scheduler believe, unless a change since
\* went unreported (a press while offline) or was recorded out of order.
ClockTrusted == Settled => sinceAge <= age

\* safety/guard.js, the minimum OFF time: it is judged by the backend's clock
\* and cache and meant for the device's relay. With all reports in, a remote ON
\* that passes the check finds the relay OFF for at least min_off_s.
MinOffKept ==
    [][\A c \in Commands :
         /\ command[c] = [pc |-> "idle", state |-> "ON"] /\ command'[c].pc = "checked"
         /\ Settled /\ relay = "OFF"
         => age >= MinOff]_vars

\* safety/scheduler.js: the max-runtime protection "turns OFF any channel that
\* has been ON" for too long, and "wins over a lock". Whatever presses, locks,
\* lost connections, failures and restarts there were, a relay that is ON is
\* turned OFF, unless a report was overtaken and the cache no longer knows.
MaxOnEnforced == relay = "ON" ~> relay = "OFF" \/ overtaken
=============================================================================
