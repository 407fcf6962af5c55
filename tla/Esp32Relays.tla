------------------------------ MODULE Esp32Relays ------------------------------
(***************************************************************************)
(* The relays of the ESP32 board (firmware/components): one function,      *)
(* channel_control_set_state, is called by four tasks of FreeRTOS at their *)
(* own times, and takes no lock of its own.  relay_hal takes a mutex for a *)
(* single read or write and gives up after 50 ms; config_store hands out a *)
(* copy of the configuration.  Every access to something shared is a step. *)
(* A command on a channel, and with it the auto-reverse of inching, is     *)
(* carried out by the task that runs it, from Call to its return.  Any     *)
(* channel can be commanded; whether it boots ON, has inching or is        *)
(* published on connect is up to its switch, which may be deleted.         *)
(***************************************************************************)
EXTENDS Naturals, FiniteSets

CONSTANTS Count,        \* channels of the board, numbered from 0
          MaxCalls,     \* bound: commands, and changes of the configuration, by the
                        \* HTTP, the schedules' and the switches' tasks
          MaxMisses     \* bound: times a lock is not had in the time a task waits for it

Relays == 0..Count - 1

\* The HTTP server's worker (the loopback of the cloud's commands included), the
\* schedules' task, the wall switches' task, the task of esp_timer, and that of the
\* cloud's connection, which only publishes.
Callers == {"http", "schedule", "input"}
Tasks == Callers \cup {"timer", "cloud"}

CountsAssumption ==
    /\ Count \in Nat \ {0} /\ MaxCalls \in Nat /\ MaxMisses \in Nat

VARIABLES
    relay,      \* s_state: the channels that are ON
    armed,      \* the inching timers that run
    interlock,  \* interlock_enabled, as config_store has it
    listed,     \* the channels that have a switch, as config_store has them
    inching,    \* those whose switch has inching_ms > 0
    call,       \* what each task is doing in channel_control_set_state, or publishing
    todo,       \* the switches in its copy that the publication has still to come to
    told,       \* the channels the backend believes ON: the last report of each
    linked,     \* the cloud's connection is up
    calls, misses,
    \* History:
    timed,      \* channels ON by a command that found inching in its copy
    forced,     \* channels ON by a command that has gone over all the others
    alone,      \* an ON command is under way, and no other ON command, missed lock
                \* or change of the setting has come across it
    sole,       \* the last command to turn a channel ON was alone, the interlock on
    known,      \* channels that this connection has published or reported, or will
    unsure      \* channels whose last report was lost, or crossed another of theirs

config == <<interlock, listed, inching>>
history == <<timed, forced, alone, sole, known, unsure>>
vars == <<relay, armed, config, call, todo, told, linked, calls, misses, history>>

Idle == [pc |-> "idle", ch |-> 0, on |-> FALSE, inch |-> FALSE, at |-> 0]
Busy(t) == call[t].pc # "idle"
At(t, pc) == call[t].pc = pc

\* At boot every switch's default_boot_state is set, whatever the interlock says; a
\* channel without a switch stays OFF.
Init ==
    /\ interlock \in BOOLEAN /\ listed \in SUBSET Relays
    /\ inching \in SUBSET listed /\ relay \in SUBSET listed
    /\ told = {} /\ armed = {} /\ todo = {}
    /\ call = [t \in Tasks |-> Idle]
    /\ linked = FALSE /\ calls = 0 /\ misses = 0
    /\ timed = {} /\ forced = {} /\ alone = FALSE /\ sole = FALSE
    /\ known = {} /\ unsure = {}

With(set, c, on) == IF on THEN set \cup {c} ELSE set \ {c}

Go(t, pc) == call' = [call EXCEPT ![t].pc = pc]
Return(t) == call' = [call EXCEPT ![t] = Idle]

Miss == misses < MaxMisses /\ misses' = misses + 1

\* An ON command that has still to write its own relay.
Turning(t) ==
    /\ call[t].on
    /\ call[t].pc \in {"stop", "config", "others", "stopother", "offother", "tellother", "own"}

\* A task that has written or read c's relay, and has still to report it.
Reporting(t, c) ==
    \/ At(t, "tell") /\ call[t].ch = c
    \/ call[t].pc \in {"tellother", "publish"} /\ call[t].at = c

\* History: a report of c is on its way. One that is alone makes up for what
\* became of those before it.
Reports(c) ==
    unsure' = IF \E t \in Tasks : Reporting(t, c) THEN unsure \cup {c} ELSE unsure \ {c}

-----------------------------------------------------------------------------
(* The callers.                                                            *)

Begin(t, c, on) ==
    /\ ~Busy(t)
    /\ call' = [call EXCEPT ![t] = [Idle EXCEPT !.pc = "stop", !.ch = c, !.on = on]]
    /\ alone' = (IF on THEN \A s \in Tasks : ~Turning(s) ELSE alone)
    /\ UNCHANGED <<timed, forced, sole, known, unsure>>

\* http_api's handler, schedule_exec's fire(), a wall switch in TOGGLE mode.
Call(t, c, on) ==
    /\ t \in Callers /\ calls < MaxCalls
    /\ Begin(t, c, on)
    /\ calls' = calls + 1
    /\ UNCHANGED <<relay, armed, config, todo, told, linked, misses>>

\* A wall switch in EDGE mode reads the relay first and asks for the opposite. A
\* read that finds the mutex taken leaves the FALSE it began with.
Press(c) ==
    /\ calls < MaxCalls /\ calls' = calls + 1
    /\ \/ Begin("input", c, c \notin relay) /\ UNCHANGED misses
       \/ Miss /\ Begin("input", c, TRUE)
    /\ UNCHANGED <<relay, armed, config, todo, told, linked>>

\* An inching timer runs out; esp_timer has one task for all of them.
InchingTimerCb(c) ==
    /\ c \in armed /\ armed' = armed \ {c}
    /\ Begin("timer", c, FALSE)
    /\ UNCHANGED <<relay, config, todo, told, linked, calls, misses>>

-----------------------------------------------------------------------------
(* channel_control_set_state, one access at a time.                        *)

StopTimer(t) ==
    /\ At(t, "stop") /\ armed' = armed \ {call[t].ch} /\ Go(t, "config")
    /\ UNCHANGED <<relay, config, todo, told, linked, calls, misses, history>>

\* The rest of the call works from a copy of the configuration: whether the
\* interlock is looked at, and the timer started, is decided here.
ReadConfig(t) ==
    /\ At(t, "config")
    /\ call' = [call EXCEPT ![t].pc = IF call[t].on /\ interlock THEN "others" ELSE "own",
                            ![t].inch = call[t].on /\ call[t].ch \in inching]
    /\ UNCHANGED <<relay, armed, config, todo, told, linked, calls, misses, history>>

\* Mutant: the walk over the channels ends one too early.
NextOtherShort(t) ==
    call' = [call EXCEPT ![t].at = @ + 1, ![t].pc = IF call[t].at + 2 < Count THEN "others" ELSE "own"]

\* On to the next of the other channels, and then to the task's own.
NextOther(t) ==
    call' = [call EXCEPT ![t].at = @ + 1, ![t].pc = IF call[t].at + 1 < Count THEN "others" ELSE "own"]

\* The lock was not had: the walk goes on without the channel.
SkipOther(t) ==
    /\ Miss /\ NextOther(t) /\ alone' = FALSE
    /\ UNCHANGED <<timed, forced, sole, known, unsure>>

\* A read that gives up counts as OFF.
ReadOther(t) ==
    LET i == call[t].at
    IN  /\ At(t, "others")
        /\ \/ /\ i # call[t].ch /\ i \in relay
              /\ Go(t, "stopother") /\ UNCHANGED <<misses, history>>
           \/ /\ i = call[t].ch \/ i \notin relay
              /\ NextOther(t) /\ UNCHANGED <<misses, history>>
           \/ i # call[t].ch /\ SkipOther(t)
        /\ UNCHANGED <<relay, armed, config, todo, told, linked, calls>>

StopOther(t) ==
    /\ At(t, "stopother") /\ armed' = armed \ {call[t].at} /\ Go(t, "offother")
    /\ UNCHANGED <<relay, config, todo, told, linked, calls, misses, history>>

\* A channel whose relay could not be written is neither OFF nor reported so.
TurnOtherOff(t) ==
    /\ At(t, "offother")
    /\ \/ /\ relay' = relay \ {call[t].at} /\ Go(t, "tellother")
          /\ timed' = timed \ {call[t].at} /\ forced' = forced \ {call[t].at}
          /\ Reports(call[t].at) /\ UNCHANGED <<misses, alone, sole, known>>
       \/ SkipOther(t) /\ UNCHANGED relay
    /\ UNCHANGED <<armed, config, todo, told, linked, calls>>

\* cloud_client_notify_state_changed: dropped when there is no connection, or when
\* another task is sending.
Notify(c, on) ==
    /\ \/ linked /\ told' = With(told, c, on) /\ known' = known \cup {c} /\ UNCHANGED <<misses, unsure>>
       \/ ~linked /\ UNCHANGED <<told, known, misses, unsure>>
       \/ linked /\ Miss /\ unsure' = unsure \cup {c} /\ UNCHANGED <<told, known>>
    /\ UNCHANGED <<timed, forced, alone, sole>>

\* Mutant: the channels that the interlock turns OFF are not reported.
TellOtherNot(t) ==
    /\ At(t, "tellother") /\ NextOther(t)
    /\ UNCHANGED <<relay, armed, config, todo, told, linked, calls, misses, history>>

TellOther(t) ==
    /\ At(t, "tellother") /\ Notify(call[t].at, FALSE) /\ NextOther(t)
    /\ UNCHANGED <<relay, armed, config, todo, linked, calls>>

SetOwn(t) ==
    LET c == call[t].ch
        on == call[t].on
    IN  /\ At(t, "own")
        /\ \/ /\ relay' = With(relay, c, on) /\ Go(t, "tell") /\ Reports(c)
              /\ timed' = With(timed, c, call[t].inch)
              /\ forced' = With(forced, c, on /\ call[t].at = Count)
              /\ sole' = (IF on THEN alone /\ interlock ELSE sole)
              /\ alone' = (~on /\ alone) /\ UNCHANGED <<misses, known>>
           \/ Miss /\ Return(t) /\ UNCHANGED <<relay, history>>
        /\ UNCHANGED <<armed, config, todo, told, linked, calls>>

\* Mutant: without a connection the call returns before it starts the timer.
TellOwnReturns(t) ==
    /\ At(t, "tell") /\ Notify(call[t].ch, call[t].on)
    /\ IF linked /\ call[t].inch THEN Go(t, "arm") ELSE Return(t)
    /\ UNCHANGED <<relay, armed, config, todo, linked, calls>>

TellOwn(t) ==
    /\ At(t, "tell") /\ Notify(call[t].ch, call[t].on)
    /\ IF call[t].inch THEN Go(t, "arm") ELSE Return(t)
    /\ UNCHANGED <<relay, armed, config, todo, linked, calls>>

\* esp_timer_start_once refuses a timer that runs already, and it goes on running.
Arm(t) ==
    /\ At(t, "arm") /\ armed' = armed \cup {call[t].ch} /\ Return(t)
    /\ UNCHANGED <<relay, config, todo, told, linked, calls, misses, history>>

Step(t) ==
    \/ StopTimer(t) \/ ReadConfig(t) \/ ReadOther(t) \/ StopOther(t) \/ TurnOtherOff(t)
    \/ TellOther(t) \/ SetOwn(t) \/ TellOwn(t) \/ Arm(t)

-----------------------------------------------------------------------------
(* The configuration, changed by the HTTP worker, which runs no command    *)
(* meanwhile; no relay and no timer is touched.                            *)

Edit == ~Busy("http") /\ calls < MaxCalls /\ calls' = calls + 1

\* POST /api/settings.
SetInterlock ==
    /\ Edit /\ interlock' = ~interlock /\ alone' = FALSE
    /\ UNCHANGED <<relay, armed, listed, inching, call, todo, told, linked, misses,
                   timed, forced, sole, known, unsure>>

\* POST /api/switches, with inching or without.
SetSwitch(c, inch) ==
    /\ Edit /\ listed' = listed \cup {c} /\ inching' = With(inching, c, inch)
    /\ UNCHANGED <<relay, armed, interlock, call, todo, told, linked, misses, history>>

\* DELETE /api/switches/:idx.
DeleteSwitch(c) ==
    /\ Edit /\ c \in listed /\ listed' = listed \ {c} /\ inching' = inching \ {c}
    /\ UNCHANGED <<relay, armed, interlock, call, todo, told, linked, misses, history>>

-----------------------------------------------------------------------------
(* The connection: the handler of its events, by its own task.             *)

Disconnected ==
    /\ linked /\ linked' = FALSE /\ ~Busy("cloud") /\ known' = {}
    /\ UNCHANGED <<relay, armed, config, call, todo, told, calls, misses, timed, forced, alone, sole,
                   unsure>>

Connected ==
    /\ ~linked /\ linked' = TRUE /\ ~Busy("cloud") /\ Go("cloud", "copy")
    /\ UNCHANGED <<relay, armed, config, todo, told, calls, misses, history>>

\* publish_full_state: the switches of a copy, each with a read and a report. They
\* come in the order of their slots, which deleted and new ones may make any order.
GoOn(left) ==
    /\ todo' = left
    /\ call' = [call EXCEPT !["cloud"] = IF left = {} THEN Idle ELSE [Idle EXCEPT !.pc = "read"]]

CopySwitches ==
    /\ At("cloud", "copy") /\ GoOn(listed) /\ known' = known \cup listed
    /\ UNCHANGED <<relay, armed, config, told, linked, calls, misses, timed, forced, alone, sole,
                   unsure>>

\* A switch whose relay could not be read is passed over.
PublishRead(c) ==
    /\ At("cloud", "read") /\ c \in todo
    /\ \/ /\ call' = [call EXCEPT !["cloud"] = [Idle EXCEPT !.pc = "publish", !.at = c, !.on = c \in relay]]
          /\ todo' = todo \ {c} /\ Reports(c) /\ UNCHANGED misses
       \/ Miss /\ GoOn(todo \ {c}) /\ unsure' = unsure \cup {c}
    /\ UNCHANGED <<relay, armed, config, told, linked, calls, timed, forced, alone, sole, known>>

PublishSend ==
    /\ At("cloud", "publish") /\ Notify(call["cloud"].at, call["cloud"].on) /\ GoOn(todo)
    /\ UNCHANGED <<relay, armed, config, linked, calls>>

Next ==
    \/ \E t \in Callers, c \in Relays, on \in BOOLEAN : Call(t, c, on)
    \/ \E c \in Relays : Press(c) \/ InchingTimerCb(c)
    \/ \E t \in Tasks : Step(t)
    \/ \E c \in Relays : DeleteSwitch(c) \/ \E inch \in BOOLEAN : SetSwitch(c, inch)
    \/ SetInterlock \/ Disconnected \/ Connected \/ CopySwitches \/ PublishSend
    \/ \E c \in Relays : PublishRead(c)

\* The operating system runs every task, and timers run out.
Fairness ==
    /\ \A t \in Tasks : WF_vars(Step(t))
    /\ \A c \in Relays : WF_vars(InchingTimerCb(c))

Spec == Init /\ [][Next]_vars /\ Fairness

-----------------------------------------------------------------------------
Calls == [pc : {"idle", "stop", "config", "others", "stopother", "offother", "tellother",
                "own", "tell", "arm", "copy", "read", "publish"},
          ch : Relays, on : BOOLEAN, inch : BOOLEAN, at : 0..Count]

\* The relays, the timers, the switches, the calls under way and the reports have
\* their types.
TypeOK ==
    /\ relay \subseteq Relays /\ armed \subseteq Relays /\ told \subseteq Relays
    /\ listed \subseteq Relays /\ inching \subseteq listed /\ todo \subseteq Relays
    /\ timed \subseteq relay /\ forced \subseteq relay
    /\ known \subseteq Relays /\ unsure \subseteq Relays
    /\ call \in [Tasks -> Calls]
    /\ {interlock, linked, alone, sole} \subseteq BOOLEAN
    /\ calls \in 0..MaxCalls /\ misses \in 0..MaxMisses

\* A call that has still to switch the channel, or to start its timer.
Underway(c) ==
    \E t \in Tasks :
        \/ /\ call[t].ch = c
           /\ \/ call[t].pc \in {"stop", "config", "others", "stopother", "offother", "tellother", "own"}
              \/ call[t].inch /\ call[t].pc \in {"tell", "arm"}
        \/ call[t].pc = "offother" /\ call[t].at = c

\* However the four tasks overlap, and whatever becomes of its switch, a channel
\* turned ON by a command that found inching in its configuration is never left ON
\* with nothing to turn it OFF again, as long as no lock is missed
\* (channel_control.c:55,94-111).
InchingTimed ==
    misses = 0 => \A c \in timed : c \in armed \/ Underway(c)

\* ... and so it goes OFF by itself, unless a command without inching takes over.
InchingEnds ==
    \A c \in Relays : c \in timed ~> c \notin timed \/ misses > 0

\* The interlock holds again from the next command that turns a channel ON with
\* no other such command, missed lock or change of the setting across it: no other
\* channel is ON, whatever was ON at boot, with the interlock off or after a race,
\* and whatever turns channels OFF meanwhile (channel_control.c:63-98).
InterlockAlone == sole => Cardinality(relay) <= 1

\* With a connection, and nothing under way, the backend has the state of every
\* channel that had a switch when the board connected, and of every other that was
\* commanded since (cloud_client.c:198-208,297-314): a report that was lost or that
\* crossed another of its channel is made up for by the next one alone.
ReportedAlone ==
    linked /\ (\A t \in Tasks : ~Busy(t)) =>
        \A c \in known \ unsure : c \in told <=> c \in relay

\* What the interlock is for: "turning any channel ON forces every other channel
\* OFF (mutually-exclusive relay group, e.g. motorized curtain/valve pairs)"
\* (config_store.h:132-133). Two tasks that look at each other's relay before
\* either writes its own leave both ON.
MutuallyExclusive == misses = 0 => Cardinality(forced) <= 1
=============================================================================
