--------------------------- MODULE AutomationCascade ---------------------------
(***************************************************************************)
(* State-triggered automations and their protection against loops.  Whoever*)
(* sends a channel command first notes the echo it expects, with the depth *)
(* and chain of automations behind it (ws/attribution.js); a guard check   *)
(* later the command goes out (ws/registry.js relayCommand); the device    *)
(* answers with state_changed echoes, which say nothing of their origin;   *)
(* the echo's handler takes the oldest note for its channel and state and  *)
(* fires the automations it triggers (automations/engine.js).              *)
(*                                                                         *)
(* One device, which stays in its household and sets a channel the way     *)
(* firmware-esp8266/src/channel_control.cpp does, interlock included.      *)
(***************************************************************************)
EXTENDS Naturals, FiniteSets, SequencesExt

CONSTANTS
    Channels, Automations,
    Trigger,      \* automation -> its trigger, a change <<channel, state>>
    Actions,      \* automation -> the sequence of changes it commands
    MaxDepth,     \* MAX_AUTOMATION_HOP_DEPTH
    Interlock,    \* the device's interlockEnabled
    AppCommands,  \* commands of users (REST or client socket)
    AppChanges,   \* the changes they may ask for
    Slots,        \* bound: evaluations under way at once
    MaxMishaps    \* bound: relayed commands that fail, notes that outlive
                  \* TTL_MS and presses of a wall switch, all together

Changes == Channels \X {"ON", "OFF"}

ConstantsAssumption ==
    /\ Trigger \in [Automations -> Changes]
    /\ \A a \in Automations : Actions[a] \in Seq(Changes) /\ Actions[a] # <<>>
    /\ MaxDepth \in Nat /\ Interlock \in BOOLEAN /\ MaxMishaps \in Nat
    /\ AppChanges \subseteq Changes
    /\ IsFiniteSet(Channels) /\ IsFiniteSet(Automations)

VARIABLES
    relay,     \* the device: channel -> state
    echoes,    \* state_changed frames on their way, each with its true ancestry
    notes,     \* all the queues of pending, as one sequence in order of noting,
               \* each with the true ancestry of its command (history)
    app,       \* user command -> [pc, change]
    slot,      \* slot -> an evaluation under way
    mixed,     \* history: an echo took the note of a command with another
               \* ancestry, or found none although an automation sent it
    mishaps    \* failures, expiries and presses so far

vars == <<relay, echoes, notes, app, slot, mixed, mishaps>>

Free == [pc |-> "free", todo |-> <<>>, step |-> 0, depth |-> 0, chain |-> {}, ancestry |-> {}]

TypeOK ==
    /\ relay \in [Channels -> {"ON", "OFF"}]
    /\ \A i \in 1..Len(echoes) :
         echoes[i] \in [change : Changes, ancestry : SUBSET Automations]
    /\ \A i \in 1..Len(notes) :
         notes[i] \in [change : Changes, depth : 0..MaxDepth, chain : SUBSET Automations,
                       ancestry : SUBSET Automations]
    /\ app \in [AppCommands -> [pc : {"idle", "noted", "done"}, change : AppChanges]]
    /\ \A s \in Slots : slot[s] = Free \/
         /\ slot[s].pc \in {"fire", "note", "relay", "sleep", "again"}
         /\ slot[s].todo \in Seq(Automations) /\ slot[s].todo # <<>>
         /\ slot[s].step \in 1..Len(Actions[slot[s].todo[1]])
    /\ mixed \in BOOLEAN
    /\ mishaps \in 0..MaxMishaps

Init ==
    /\ relay = [c \in Channels |-> "OFF"]
    /\ echoes = <<>> /\ notes = <<>>
    /\ app \in [AppCommands -> [pc : {"idle"}, change : AppChanges]]
    /\ slot = [s \in Slots |-> Free]
    /\ mixed = FALSE /\ mishaps = 0

Mishap == mishaps < MaxMishaps /\ mishaps' = mishaps + 1

-----------------------------------------------------------------------------
(* The device.                                                             *)

\* channelControlSetState: an echo for every channel the interlock turns off,
\* then one for the channel itself, even if it does not change.
SetState(change, ancestry) ==
    LET on == change[2] = "ON"
        others == IF on /\ Interlock THEN {c \in Channels \ {change[1]} : relay[c] = "ON"} ELSE {}
        order == SetToSeq(others)
        offs == [i \in DOMAIN order |-> [change |-> <<order[i], "OFF">>, ancestry |-> ancestry]]
    IN  /\ relay' = [c \in Channels |-> IF c = change[1] THEN change[2]
                                        ELSE IF c \in others THEN "OFF" ELSE relay[c]]
        /\ echoes' = echoes \o offs \o <<[change |-> change, ancestry |-> ancestry]>>

\* A press of a wall switch.
Press(c) ==
    /\ Mishap
    /\ SetState(<<c, IF relay[c] = "ON" THEN "OFF" ELSE "ON">>, {})
    /\ UNCHANGED <<notes, app, slot, mixed>>

-----------------------------------------------------------------------------
(* attribution.js.                                                         *)

\* Mutant: the chain is not carried forward.
NoteForgetsChain(change, depth, chain, ancestry) ==
    notes' = Append(notes, [change |-> change, depth |-> 0, chain |-> {}, ancestry |-> ancestry])

\* The code keeps the depth and the chain; the ancestry is history.
NoteExpectedStateChange(change, depth, chain, ancestry) ==
    notes' = Append(notes, [change |-> change, depth |-> depth, chain |-> chain, ancestry |-> ancestry])

Noted(change) == {i \in 1..Len(notes) : notes[i].change = change}

\* discardRecentExpectedStateChange: the newest note of the key.
DiscardRecent(change) ==
    \/ Noted(change) = {} /\ notes' = notes
    \/ \E i \in Noted(change) : (\A j \in Noted(change) : j <= i) /\ notes' = RemoveAt(notes, i)

\* A note outlives its TTL: they do so in the order they were made.
Expire ==
    /\ notes # <<>> /\ Mishap
    /\ notes' = Tail(notes)
    /\ UNCHANGED <<relay, echoes, app, slot, mixed>>

-----------------------------------------------------------------------------
(* relayCommand, for whoever sends one: what can become of the command.    *)

\* It is carried out and answered.
Applied(change, ancestry) == SetState(change, ancestry) /\ UNCHANGED <<notes, mishaps>>

\* A guard refuses it.
Refused(change) ==
    /\ Mishap
    /\ DiscardRecent(change)
    /\ UNCHANGED <<relay, echoes>>

\* The device is offline, or it carries the command out and the answer is lost.
Fails(change, ancestry) ==
    /\ Mishap
    /\ SetState(change, ancestry) \/ UNCHANGED <<relay, echoes>>
    /\ UNCHANGED notes

-----------------------------------------------------------------------------
(* A user's command (clientServer.js, routes/devices.js).                  *)

AppNotes(u) ==
    /\ app[u].pc = "idle"
    /\ app' = [app EXCEPT ![u].pc = "noted"]
    /\ NoteExpectedStateChange(app[u].change, 0, {}, {})
    /\ UNCHANGED <<relay, echoes, slot, mixed, mishaps>>

AppRelays(u) ==
    /\ app[u].pc = "noted"
    /\ app' = [app EXCEPT ![u].pc = "done"]
    /\ Applied(app[u].change, {}) \/ Refused(app[u].change) \/ Fails(app[u].change, {})
    /\ UNCHANGED <<slot, mixed>>

-----------------------------------------------------------------------------
(* The state_changed handler and evaluateStateTriggeredAutomations.        *)

\* The automations that the change triggers are gone through one by one.
Triggers(s, echo, depth, chain) ==
    LET fires == {a \in Automations : Trigger[a] = echo.change} IN
    slot' = IF fires = {} THEN slot
            ELSE [slot EXCEPT ![s] = [pc |-> "fire", todo |-> SetToSeq(fires), step |-> 1,
                                      depth |-> depth, chain |-> chain,
                                      ancestry |-> echo.ancestry]]

\* The oldest note of the key is taken, if there is one.
HandleEcho(s) ==
    LET echo == Head(echoes)
        noted == Noted(echo.change)
    IN  /\ echoes # <<>> /\ slot[s] = Free
        /\ echoes' = Tail(echoes)
        /\ \/ /\ noted = {} /\ notes' = notes
              /\ Triggers(s, echo, 0, {})
              /\ mixed' = (mixed \/ echo.ancestry # {})
           \/ \E i \in noted : /\ \A j \in noted : i <= j
                              /\ notes' = RemoveAt(notes, i)
                              /\ Triggers(s, echo, notes[i].depth, notes[i].chain)
                              /\ mixed' = (mixed \/ echo.ancestry # notes[i].ancestry)
        /\ UNCHANGED <<relay, app, mishaps>>

-----------------------------------------------------------------------------
(* fireAutomation.                                                         *)

Automation(s) == Head(slot[s].todo)
Action(s) == Actions[Automation(s)][slot[s].step]
Goto(s, pc) == slot' = [slot EXCEPT ![s].pc = pc]

NextAutomation(s) ==
    LET rest == Tail(slot[s].todo) IN
    slot' = IF rest = <<>> THEN [slot EXCEPT ![s] = Free]
            ELSE [slot EXCEPT ![s].pc = "fire", ![s].todo = rest, ![s].step = 1]

\* The action is done with, whatever became of it.
NextAction(s) ==
    IF slot[s].step < Len(Actions[Automation(s)])
    THEN slot' = [slot EXCEPT ![s].pc = "note", ![s].step = @ + 1]
    ELSE NextAutomation(s)

\* Neither the depth nor the chain refuses it.
MayFire(s) == slot[s].depth < MaxDepth /\ Automation(s) \notin slot[s].chain

FireAutomation(s) ==
    /\ slot[s].pc = "fire"
    /\ \/ MayFire(s) /\ Goto(s, "note")
       \/ ~MayFire(s) /\ NextAutomation(s)
    /\ UNCHANGED <<relay, echoes, notes, app, mixed, mishaps>>

\* The expected echo is noted before each of the two attempts.
NoteAction(s) ==
    LET with == {Automation(s)} IN
    /\ \/ slot[s].pc = "note" /\ Goto(s, "relay")
       \/ slot[s].pc = "sleep" /\ Goto(s, "again")
    /\ NoteExpectedStateChange(Action(s), slot[s].depth + 1,
                               slot[s].chain \cup with, slot[s].ancestry \cup with)
    /\ UNCHANGED <<relay, echoes, app, mixed, mishaps>>

RelayAction(s) ==
    LET ancestry == slot[s].ancestry \cup {Automation(s)} IN
    /\ slot[s].pc \in {"relay", "again"}
    /\ \/ Applied(Action(s), ancestry) /\ NextAction(s)
       \/ Refused(Action(s)) /\ NextAction(s)
       \/ /\ Fails(Action(s), ancestry)
          /\ IF slot[s].pc = "relay" THEN Goto(s, "sleep") ELSE NextAction(s)
    /\ UNCHANGED <<app, mixed>>

-----------------------------------------------------------------------------

AppStep(u) == AppNotes(u) \/ AppRelays(u)

Evaluate(s) == HandleEcho(s) \/ FireAutomation(s) \/ NoteAction(s) \/ RelayAction(s)

Next ==
    \/ \E c \in Channels : Press(c)
    \/ Expire
    \/ \E u \in AppCommands : AppStep(u)
    \/ \E s \in Slots : Evaluate(s)

Spec == Init /\ [][Next]_vars

\* The event loop runs every handler and continuation there is: commands are
\* answered or time out, echoes are handled.
FairSpec ==
    /\ Spec
    /\ \A u \in AppCommands : WF_vars(AppStep(u))
    /\ \A s \in Slots : WF_vars(Evaluate(s))

-----------------------------------------------------------------------------

Firing(s) == slot[s].pc \in {"note", "relay", "sleep", "again"}

\* engine.js: "an automation whose own actions feed back into itself (directly
\* or via another automation already in this cascade) is refused".
NoFeedback == \A s \in Slots : Firing(s) => Automation(s) \notin slot[s].ancestry

\* The automations behind a command reach the evaluation of its echo: through
\* the note, a refusal, a failure and the retry after a pause, however many
\* commands, echoes and evaluations cross.  So while every echo has found the
\* note of a command with its own ancestry, no automation fires in its own
\* cascade, and none fires behind MAX_AUTOMATION_HOP_DEPTH others.  (Chain and
\* depth are what the code carries; the ancestry is who really sent it.)
LoopsRefused ==
    ~mixed => /\ NoFeedback
              /\ \A s \in Slots : Firing(s) => Cardinality(slot[s].ancestry) < MaxDepth

AtRest == \A s \in Slots : slot[s] = Free

\* Every cascade comes to an end.
CascadeEnds == <>[]AtRest
=============================================================================
