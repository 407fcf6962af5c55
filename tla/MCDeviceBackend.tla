--------------------------- MODULE MCDeviceBackend ---------------------------
(***************************************************************************)
(* What the backend keeps of one device, in six parts that share no        *)
(* state: its connections and cached state (DeviceSession), its            *)
(* configuration (HwConfigSync), the log of its switch with the statistics *)
(* made of it (UsageStats), its schedules as a dashboard edits them        *)
(* (ScheduleEditing), one of them as the ticks see it (ScheduleTicks), and *)
(* the automations that its changes trigger (AutomationCascade).           *)
(* part says which of them moves in a behaviour.                           *)
(*                                                                         *)
(* Three connections and a change are enough for a replay to supersede     *)
(* two others; two requests and two connections for every pair of handlers *)
(* to cross a reconnect.  Two days of five hours, and zones on either side *)
(* of UTC that change their offset two hours after a midnight, or at one   *)
(* that they skip or repeat.  Two schedules, two versions and two changes  *)
(* of the user, so that two switches, or a switch and the dialog, cross    *)
(* with a change of somebody else's.  A day of two minutes and the first of*)
(* the next, a catch-up window of one minute that may end at midnight, two *)
(* ticks at once, two edits, so that a schedule is disabled and armed      *)
(* again.  Two automations that feed back into one another over two        *)
(* channels, one failure, expiry or press in between.                      *)
(***************************************************************************)
EXTENDS DeviceSession, Integers, TLC

CONSTANTS Parts,       \* the parts that are checked
          HwChannels,  \* HwConfigSync: the channels of the board,
          HwReqs,      \* the requests,
          Bodies,      \* what they may ask for,
          HwConns,     \* the connections of the board,
          Claimed,     \* and whether it was claimed before the first
          MaxHours,    \* UsageStats, bound: the last hour,
          DayHours,    \* the hours in a day,
          TimeZones,   \* the zones of the household,
          MaxDays,     \* bound: days asked for,
          MaxEvents,   \* bound: changes of the switch, its connection or hands
          Schedules,   \* ScheduleEditing: the ids of schedules,
          MaxWrites,   \* bound: versions of all rows together
          MaxClicks,   \* bound: changes the user asks for
          MaxMinutes,  \* ScheduleTicks, bound: the last minute,
          DayMinutes,  \* the minutes in a day,
          Grace,       \* CATCH_UP_GRACE_MINUTES,
          Duration,    \* of a countdown,
          Ticks,       \* ticks that may be in flight at once,
          MaxEdits,    \* bound: edits
          Outlets,     \* AutomationCascade: the channels of the device,
          Automations,
          Trigger,     \* automation -> its trigger, a change <<channel, state>>
          Actions,     \* automation -> the changes it commands
          MaxDepth,    \* MAX_AUTOMATION_HOP_DEPTH
          Interlock,   \* the device's interlockEnabled
          AppCommands, \* commands of users
          AppChanges,  \* the changes they may ask for
          Slots,       \* bound: evaluations under way at once
          MaxFaults    \* bound: failed commands, expired notes and presses

Symmetry == Permutations(Schedules)

Omitted == "omitted"
SettingsOf(i, p) == [kind |-> "settings", interlock |-> i, place |-> p]
SwitchOf(k, n, z, m) ==
    [kind |-> k, ch |-> 0, name |-> n, zone |-> z, mode |-> m]

\* One request of each kind, and each field alone.
MCBodies ==
    {SettingsOf("on", Omitted), SettingsOf(Omitted, "here"),
     [kind |-> "timezone"],
     SwitchOf("post", "given", Omitted, "TOGGLE"),
     SwitchOf("post", Omitted, "hall", Omitted),
     SwitchOf("patch", "given", Omitted, Omitted),
     SwitchOf("patch", Omitted, "hall", Omitted),
     [kind |-> "delete", ch |-> 0]}

\* The requests of the instances that look for one disagreement each.
MCSettingsBodies == {SettingsOf("on", Omitted), SettingsOf(Omitted, "here")}
MCPatchBodies == {SwitchOf("patch", "given", Omitted, Omitted),
                  SwitchOf("patch", Omitted, "hall", Omitted)}
MCModeBodies == {SwitchOf("patch", Omitted, Omitted, "TOGGLE"),
                 SwitchOf("patch", Omitted, Omitted, "DISABLED")}
MCZoneBodies == {SwitchOf("post", Omitted, "hall", Omitted)}
MCTimezoneBodies == {[kind |-> "timezone"]}

ZoneAt(before, after, at) == [before |-> before, after |-> after, at |-> at]
MCZones == {ZoneAt(1, 2, 4), ZoneAt(-2, -1, 9), ZoneAt(1, 0, 7), ZoneAt(-1, -2, 7)}

\* "When 1 turns on, turn 2 on and 1 off"; "when 2 turns on, turn 1 on".
BlinkTrigger == "blink" :> <<1, "ON">> @@ "follow" :> <<2, "ON">>
BlinkActions == "blink" :> <<<<2, "ON">>, <<1, "OFF">>>> @@ "follow" :> <<<<1, "ON">>>>
MCChanges == {<<1, "ON">>, <<1, "OFF">>}

VARIABLES
    part,
    \* HwConfigSync
    settings, switches, hwPc, op, seen, read, online, hwLink, cache, seeded, removed,
    calm,
    \* UsageStats
    zone, now, switch, linked, owner, log, fresh, told, truth, events,
    \* ScheduleEditing
    rows, writes, view, dirty, fetch, dialog, mut, clicks, owed,
    \* ScheduleTicks
    minute, row, edits, tick, ticked, fired,
    \* AutomationCascade
    outlet, echoes, notes, app, slot, mixed, faults

hwVars == <<settings, switches, hwPc, op, seen, read, online, hwLink, cache, seeded,
            removed, calm>>

usageVars == <<zone, now, switch, linked, owner, log, fresh, told, truth, events>>

editingVars == <<rows, writes, view, dirty, fetch, dialog, mut, clicks, owed>>

tickVars == <<minute, row, edits, tick, ticked, fired>>

cascadeVars == <<outlet, echoes, notes, app, slot, mixed, faults>>

H == INSTANCE HwConfigSync WITH
         Channels <- HwChannels, Reqs <- HwReqs, Conns <- HwConns, pc <- hwPc, link <- hwLink
U == INSTANCE UsageStats WITH
         MaxTime <- MaxHours, DayLength <- DayHours, Zones <- TimeZones, relay <- switch
E == INSTANCE ScheduleEditing
K == INSTANCE ScheduleTicks WITH MaxTime <- MaxMinutes, DayLength <- DayMinutes, now <- minute
C == INSTANCE AutomationCascade WITH
         Channels <- Outlets, MaxMishaps <- MaxFaults, relay <- outlet, mishaps <- faults

ASSUME PartsAssumption ==
    H!ConstantsAssumption /\ U!ConstantsAssumption /\ E!ConstantsAssumption
    /\ K!ConstantsAssumption /\ C!ConstantsAssumption

Nothing == "nothing"

\* A part that does not move has no state, or begins in one way only.
MCInit ==
    /\ part \in Parts /\ Init
    /\ \/ part = "config" /\ H!Init
       \/ /\ part # "config"
          /\ settings = Nothing /\ switches = Nothing /\ hwPc = Nothing
          /\ op = Nothing /\ seen = Nothing /\ read = Nothing /\ online = Nothing
          /\ hwLink = Nothing /\ cache = Nothing /\ seeded = Nothing
          /\ removed = Nothing /\ calm = Nothing
    /\ \/ part = "usage" /\ U!Init
       \/ /\ part # "usage"
          /\ zone = Nothing /\ now = Nothing /\ switch = Nothing
          /\ linked = Nothing /\ owner = Nothing /\ log = Nothing
          /\ fresh = Nothing /\ told = Nothing /\ truth = Nothing
          /\ events = Nothing
    /\ \/ part = "schedules" /\ E!Init
       \/ /\ part # "schedules"
          /\ rows = Nothing /\ writes = Nothing /\ view = Nothing /\ dirty = Nothing
          /\ fetch = Nothing /\ dialog = Nothing /\ mut = Nothing /\ clicks = Nothing
          /\ owed = Nothing
    /\ \/ part = "ticks" /\ K!Init
       \/ /\ part # "ticks"
          /\ minute = Nothing /\ row = Nothing /\ edits = Nothing /\ tick = Nothing
          /\ ticked = Nothing /\ fired = Nothing
    /\ \/ part = "cascade" /\ C!Init
       \/ /\ part # "cascade"
          /\ outlet = Nothing /\ echoes = Nothing /\ notes = Nothing /\ app = Nothing
          /\ slot = Nothing /\ mixed = Nothing /\ faults = Nothing

MCNext ==
    /\ UNCHANGED part
    /\ \/ part = "session" /\ Next
       \/ part # "session" /\ UNCHANGED vars
    /\ \/ part = "config" /\ H!Next
       \/ part # "config" /\ UNCHANGED hwVars
    /\ \/ part = "usage" /\ U!Next
       \/ part # "usage" /\ UNCHANGED usageVars
    /\ \/ part = "schedules" /\ E!Next
       \/ part # "schedules" /\ UNCHANGED editingVars
    /\ \/ part = "ticks" /\ K!Next
       \/ part # "ticks" /\ UNCHANGED tickVars
    /\ \/ part = "cascade" /\ C!Next
       \/ part # "cascade" /\ UNCHANGED cascadeVars

allVars == <<part, vars, hwVars, usageVars, editingVars, tickVars, cascadeVars>>

MCSpec == MCInit /\ [][MCNext]_allVars

-----------------------------------------------------------------------------
\* The properties of the parts that are instances; each is stated where it is
\* defined.  Without overlaps the board works by the stored configuration.
CalmMeansCurrent == part = "config" => H!CalmMeansCurrent

\* A location is wholly set or wholly absent, and what a user deleted stays so.
RowsSound == part = "config" => H!PlaceWhole /\ H!DeletedStaysDeleted

\* Each day of the statistics counts the hours the switch was on.
OnTimeCounted == part = "usage" => U!OnTimeCounted

\* At rest the dashboard shows what it confirmed to its user.
ShowsOwnChanges == part = "schedules" => E!ShowsOwnChanges

\* A tick whose SELECT came after a fire was recorded does not fire it again.
RecordedNotRepeated == part = "ticks" => K!RecordedNotRepeated

\* While every echo took its command's note, no automation fires in its own
\* cascade, and no cascade goes deeper than MAX_AUTOMATION_HOP_DEPTH.
LoopsRefused == part = "cascade" => C!LoopsRefused

\* What the source says and the code does not keep.
OmittedPlaceKept == H!OmittedPlaceKept
RenameKeepsZone == H!RenameKeepsZone
CurrentWhenQuiet == part = "config" => H!CurrentWhenQuiet
LabelsCurrent == part = "config" => H!LabelsCurrent
SeededOnConnect == part = "config" => H!SeededOnConnect
EditKeepsFlag == E!EditKeepsFlag
ToggleKeepsContent == E!ToggleKeepsContent
OncePerDay == part = "ticks" => K!OncePerDay
=============================================================================
