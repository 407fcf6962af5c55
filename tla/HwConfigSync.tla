--------------------------- MODULE HwConfigSync ---------------------------
(***************************************************************************)
(* The configuration of one device: its rows in device_settings and        *)
(* device_switches, the requests that change them, and the copy of the     *)
(* hardware part that the backend pushes to the board.                     *)
(*                                                                         *)
(* Each request is a handler with awaits: between two of its database      *)
(* calls any other handler may run.  A push reads two tables, over two     *)
(* connections of the pool, and is sent when both answers have arrived;    *)
(* the socket delivers frames in the order they were sent.                 *)
(***************************************************************************)
EXTENDS Naturals, Sequences, FiniteSets

CONSTANTS
    Channels,   \* the channels of the board
    Reqs,       \* the requests that may be made, numbered as they come in
    Conns,      \* the connections the board may make, likewise; not in Reqs
    Bodies,     \* what a request may ask for: a subset of AllBodies
    Claimed     \* TRUE: the device was claimed before it first connected

Omitted == "omitted"
Unset == "unset"

Names == {"", "default", "given"}
Zones == {"", "hall"}
Modes == {"DISABLED", "TOGGLE"}
Flags == {"off", "on"}
Places == {Unset, "here"}

\* A row of device_switches; a channel without one reads as the defaults.
Switches == [row : BOOLEAN, name : Names, zone : Zones, mode : Modes]
NoSwitch == [row |-> FALSE, name |-> "", zone |-> "", mode |-> "DISABLED"]
DefaultSwitch == [row |-> TRUE, name |-> "default", zone |-> "", mode |-> "DISABLED"]

Settings == [row : BOOLEAN, interlock : Flags, place : Places, placeSet : BOOLEAN]

SettingsBodies == [kind : {"settings"}, interlock : Flags \union {Omitted},
                   place : {"here", Omitted}]
TimezoneBodies == [kind : {"timezone"}]
SwitchBodies == [kind : {"post", "patch"}, ch : Channels,
                 name : {"given", Omitted}, zone : Zones \union {Omitted},
                 mode : Modes \union {Omitted}]
DeleteBodies == [kind : {"delete"}, ch : Channels]
AllBodies == SettingsBodies \union TimezoneBodies \union SwitchBodies
             \union DeleteBodies

ConstantsAssumption ==
    /\ Channels # {} /\ Bodies \subseteq AllBodies
    /\ Reqs \subseteq Nat /\ Conns \subseteq Nat \ Reqs

VARIABLES
    settings,   \* the device_settings row, with its defaults when there is none
    switches,   \* the device_switches rows
    pc,         \* what each request, and the handler of each connection, does next
    op,         \* the body of each request
    seen,       \* the rows a request has read
    read,       \* what each push has read so far
    online,     \* the board has an open, authenticated socket
    link,       \* the frames on their way to the board
    cache,      \* the board's copy of the hardware configuration
    seeded,     \* some connection has run ensureDeviceDefaults to its end
    removed,    \* history: channels whose switch was deleted after the seed
    calm        \* history: since the board connected no two handlers overlapped

vars == <<settings, switches, pc, op, seen, read, online, link, cache, seeded,
          removed, calm>>

Procs == Reqs \union Conns
Started(p) == pc[p] \notin {"idle", "done"}
Busy == {p \in Procs : Started(p)}

\* A board out of the box: every channel disabled, no interlock.
BlankCache == [hw |-> [c \in Channels |-> [mode |-> "DISABLED", name |-> ""]],
               interlock |-> "off"]
NothingRead == [switches |-> <<>>, interlock |-> Unset]

DefaultSettings == [row |-> FALSE, interlock |-> "off", place |-> Unset,
                    placeSet |-> FALSE]
NothingSeen == [settings |-> DefaultSettings, switch |-> NoSwitch]
NoOp == [kind |-> "none"]

Init ==
    /\ settings = DefaultSettings
    /\ switches = [c \in Channels |-> NoSwitch]
    /\ pc = [p \in Procs |-> "idle"]
    /\ op = [r \in Reqs |-> NoOp]
    /\ seen = [r \in Reqs |-> NothingSeen]
    /\ read = [p \in Procs |-> NothingRead]
    /\ online = FALSE
    /\ link = <<>>
    /\ cache = BlankCache
    /\ seeded = FALSE
    /\ removed = {}
    /\ calm = FALSE

-----------------------------------------------------------------------------
(* The requests *)

\* The first step of the handler that the dispatch table names.
FirstStep(body) ==
    CASE body.kind \in {"settings", "patch"} -> "read"
      [] body.kind \in {"post", "timezone"} -> "write"
      [] body.kind = "delete" -> "delete"

\* p is the next to come of the requests, or of the connections.
Upcoming(p, set) == pc[p] = "idle" /\ \A q \in set : q < p => pc[q] # "idle"

\* The row is written: the rest of the handler needs neither body nor rows.
Forget(r) == op' = [op EXCEPT ![r] = NoOp] /\ seen' = [seen EXCEPT ![r] = NothingSeen]

\* A request arrives and is dispatched to its handler.  Only a device of a
\* household has members who may ask; an unclaimed one is claimed after it
\* has connected.
Begin(r, body) ==
    /\ Upcoming(r, Reqs)
    /\ Claimed \/ seeded
    /\ pc' = [pc EXCEPT ![r] = FirstStep(body)]
    /\ op' = [op EXCEPT ![r] = body]
    /\ calm' = (calm /\ Busy = {})
    /\ UNCHANGED <<settings, switches, seen, read, online, link, cache, seeded,
                   removed>>

\* getSettings, or PATCH /switches/:idx's SELECT of the stored row.
ReadCurrent(r) ==
    /\ pc[r] = "read"
    /\ seen' = [seen EXCEPT ![r] =
                   IF op[r].kind = "settings" THEN [@ EXCEPT !.settings = settings]
                   ELSE [@ EXCEPT !.switch = switches[op[r].ch]]]
    /\ pc' = [pc EXCEPT ![r] = "write"]
    /\ UNCHANGED <<settings, switches, op, read, online, link, cache, seeded,
                   removed, calm>>

Given(value, default) == IF value = Omitted THEN default ELSE value

\* Mutant: whether a location is set is taken from the request alone.
MergedSettingsUnset(r) ==
    [row |-> TRUE,
     interlock |-> Given(op[r].interlock, seen[r].settings.interlock),
     place |-> Given(op[r].place, seen[r].settings.place),
     placeSet |-> op[r].place # Omitted]

\* The row setSettings writes: the fields of the request over the row it read.
MergedSettings(r) ==
    [row |-> TRUE,
     interlock |-> Given(op[r].interlock, seen[r].settings.interlock),
     place |-> Given(op[r].place, seen[r].settings.place),
     placeSet |-> IF op[r].place # Omitted THEN TRUE ELSE seen[r].settings.placeSet]

\* Mutant: the settings are stored and the board is not told.
WriteSettingsUntold(r) ==
    /\ pc[r] = "write" /\ op[r].kind = "settings"
    /\ settings' = MergedSettings(r)
    /\ pc' = [pc EXCEPT ![r] = "done"]
    /\ Forget(r)
    /\ UNCHANGED <<switches, read, online, link, cache, seeded, removed, calm>>

\* setSettings' upsert; it pushes when the request names the interlock.
WriteSettings(r) ==
    /\ pc[r] = "write"
    /\ op[r].kind = "settings"
    /\ settings' = MergedSettings(r)
    /\ pc' = [pc EXCEPT ![r] = IF op[r].interlock # Omitted THEN "push" ELSE "done"]
    /\ Forget(r)
    /\ UNCHANGED <<switches, read, online, link, cache, seeded, removed, calm>>

\* setTimezone: the row is created if need be; the offset itself is not modelled.
WriteTimezone(r) ==
    /\ pc[r] = "write"
    /\ op[r].kind = "timezone"
    /\ settings' = [settings EXCEPT !.row = TRUE]
    /\ pc' = [pc EXCEPT ![r] = "done"]
    /\ Forget(r)
    /\ UNCHANGED <<switches, read, online, link, cache, seeded, removed, calm>>

\* What upsertSwitch is asked to store: POST /api/switches passes its body on,
\* PATCH /switches/:idx fills the name and the zone from the row it read.
Asked(r) ==
    IF op[r].kind = "post" THEN op[r]
    ELSE [op[r] EXCEPT
            !.name = Given(@, IF seen[r].switch.row THEN seen[r].switch.name
                                                    ELSE "default"),
            !.zone = Given(@, seen[r].switch.zone)]

\* upsertSwitch's row: an omitted name or zone is stored as '', an omitted
\* input mode keeps the stored one.
Upserted(body) ==
    [row |-> TRUE,
     name |-> Given(body.name, ""),
     zone |-> Given(body.zone, ""),
     mode |-> Given(body.mode, switches[body.ch].mode)]

\* upsertSwitch pushes when the request names a field the board keeps.
TouchesBoard(body) == body.mode # Omitted \/ body.name # Omitted

WriteSwitch(r) ==
    /\ pc[r] = "write"
    /\ op[r].kind \in {"post", "patch"}
    /\ LET body == Asked(r) IN
       /\ switches' = [switches EXCEPT ![body.ch] = Upserted(body)]
       /\ removed' = removed \ {body.ch}
       /\ pc' = [pc EXCEPT ![r] = IF TouchesBoard(body) THEN "push" ELSE "done"]
    /\ Forget(r)
    /\ UNCHANGED <<settings, read, online, link, cache, seeded, calm>>

DeleteSwitch(r) ==
    /\ pc[r] = "delete"
    /\ switches' = [switches EXCEPT ![op[r].ch] = NoSwitch]
    /\ removed' = IF seeded THEN removed \union {op[r].ch} ELSE removed
    /\ pc' = [pc EXCEPT ![r] = "push"]
    /\ Forget(r)
    /\ UNCHANGED <<settings, read, online, link, cache, seeded, calm>>

-----------------------------------------------------------------------------
(* The board's connection *)

\* The board authenticates on a new socket, which takes the place of the last.
Connect(c) ==
    /\ Upcoming(c, Conns)
    /\ ~online
    /\ online' = TRUE
    /\ pc' = [pc EXCEPT ![c] = "seed"]
    /\ calm' = (Busy = {})
    /\ UNCHANGED <<settings, switches, op, seen, read, link, cache, seeded, removed>>

\* ensureDeviceDefaults, one transaction: the rows are made once, when the
\* device_settings row is.
Seed(c) ==
    /\ pc[c] = "seed"
    /\ settings' = [settings EXCEPT !.row = TRUE]
    /\ switches' = IF settings.row THEN switches
                   ELSE [ch \in Channels |->
                           IF switches[ch].row THEN switches[ch] ELSE DefaultSwitch]
    /\ seeded' = TRUE
    /\ pc' = [pc EXCEPT ![c] = "push"]
    /\ UNCHANGED <<op, seen, read, online, link, cache, removed, calm>>

\* The socket closes; the frames on it are lost, and the board keeps what it has.
Disconnect ==
    /\ online
    /\ online' = FALSE
    /\ link' = <<>>
    /\ calm' = FALSE
    /\ UNCHANGED <<settings, switches, pc, op, seen, read, cache, seeded, removed>>

-----------------------------------------------------------------------------
(* pushHwConfigToDevice *)

ReadSwitches(p) ==
    /\ pc[p] = "push"
    /\ read[p].switches = <<>>
    /\ read' = [read EXCEPT ![p].switches = <<switches>>]
    /\ UNCHANGED <<settings, switches, pc, op, seen, online, link, cache, seeded,
                   removed, calm>>

ReadInterlock(p) ==
    /\ pc[p] = "push"
    /\ read[p].interlock = Unset
    /\ read' = [read EXCEPT ![p].interlock = settings.interlock]
    /\ UNCHANGED <<settings, switches, pc, op, seen, online, link, cache, seeded,
                   removed, calm>>

\* sendHwConfigPush: dropped unless the board has a socket at this moment.
SendPush(p) ==
    /\ pc[p] = "push"
    /\ read[p].switches # <<>>
    /\ read[p].interlock # Unset
    /\ link' = IF online
               THEN Append(link, [channels |-> read[p].switches[1],
                                  interlock |-> read[p].interlock])
               ELSE link
    /\ pc' = [pc EXCEPT ![p] = "done"]
    /\ read' = [read EXCEPT ![p] = NothingRead]
    /\ UNCHANGED <<settings, switches, op, seen, online, cache, seeded, removed, calm>>

\* handleHwConfigPush: the frame is the whole picture, so a channel it leaves
\* out goes back to a disabled input and no label.
Heard(frame) ==
    [hw |-> [c \in Channels |->
               IF frame.channels[c].row
               THEN [mode |-> frame.channels[c].mode, name |-> frame.channels[c].name]
               ELSE [mode |-> "DISABLED", name |-> ""]],
     interlock |-> frame.interlock]

Hear ==
    /\ link # <<>>
    /\ cache' = Heard(Head(link))
    /\ link' = Tail(link)
    /\ UNCHANGED <<settings, switches, pc, op, seen, read, online, seeded, removed,
                   calm>>

-----------------------------------------------------------------------------

Next ==
    \/ \E r \in Reqs, body \in Bodies : Begin(r, body)
    \/ \E r \in Reqs : ReadCurrent(r)
    \/ \E r \in Reqs : WriteSettings(r)
    \/ \E r \in Reqs : WriteTimezone(r)
    \/ \E r \in Reqs : WriteSwitch(r)
    \/ \E r \in Reqs : DeleteSwitch(r)
    \/ \E c \in Conns : Connect(c)
    \/ \E c \in Conns : Seed(c)
    \/ Disconnect
    \/ \E p \in Procs : ReadSwitches(p)
    \/ \E p \in Procs : ReadInterlock(p)
    \/ \E p \in Procs : SendPush(p)
    \/ Hear

Spec == Init /\ [][Next]_vars

-----------------------------------------------------------------------------
(* Properties *)

SwitchRows == [Channels -> Switches]

\* Every variable has its type.
TypeOK ==
    /\ settings \in Settings
    /\ switches \in SwitchRows
    /\ pc \in [Procs -> {"idle", "read", "write", "delete", "seed", "push", "done"}]
    /\ \A r \in Reqs : op[r] \in IF pc[r] \in {"read", "write", "delete"} THEN Bodies ELSE {NoOp}
    /\ online \in BOOLEAN
    /\ \A i \in 1 .. Len(link) :
         link[i] \in [channels : SwitchRows, interlock : Flags]
    /\ cache \in [hw : [Channels -> [mode : Modes, name : Names]], interlock : Flags]
    /\ seeded \in BOOLEAN
    /\ removed \subseteq Channels
    /\ calm \in BOOLEAN

\* The board works by the stored interlock and input modes.
Behaves ==
    /\ cache.interlock = settings.interlock
    /\ \A c \in Channels : cache.hw[c].mode = switches[c].mode

Settled == online /\ link = <<>> /\ Busy = {}

\* If no two handlers overlapped since the board connected, then once all is
\* quiet the board works by the stored configuration, whatever it had cached,
\* whatever was deleted meanwhile, and whatever pushes earlier losses of the
\* socket swallowed (hwConfig.js:19-38, deviceServer.js:240-249).
CalmMeansCurrent == (calm /\ Settled) => Behaves

\* A location is either wholly set or wholly absent, also when two requests
\* merge over each other's rows (settings.js:61-75).
PlaceWhole == settings.placeSet <=> settings.place # Unset

\* A switch that a user deleted is not made again by a reconnect of the
\* device (defaults.js:4-9).
DeletedStaysDeleted == \A c \in removed : ~switches[c].row

\* The fields of POST /api/settings are "independently optional" and a caller
\* passes "only what changed" (settings.js:38-43): a request that leaves the
\* location out does not change it.
OmittedPlaceKept ==
    [][\A r \in Reqs :
         (WriteSettings(r) /\ op[r].place = Omitted)
            => settings'.place = settings.place]_vars

\* "A rename no longer wipes the zone" (devices.js:314-320): a PATCH of a
\* stored switch that leaves the zone out does not change it.
RenameKeepsZone ==
    [][\A r \in Reqs :
         (/\ WriteSwitch(r)
          /\ op[r].kind = "patch"
          /\ op[r].zone = Omitted
          /\ switches[op[r].ch].row)
            => switches'[op[r].ch].zone = switches[op[r].ch].zone]_vars

\* Every push goes through one function "so the two occasions can never drift
\* out of sync with each other about what the 'current' hw config actually is"
\* (hwConfig.js:13-17): when all is quiet and no frame was lost the board
\* works by the stored configuration.
CurrentWhenQuiet == (seeded /\ Settled) => Behaves

\* "A zone-only edit doesn't need" a push (switches.js:102-110): after edits
\* that never overlapped, the labels on the board are the stored names.
LabelsCurrent ==
    (calm /\ Settled) =>
        \A c \in Channels : cache.hw[c].name = switches[c].name

\* The one-time seed of "Channel <i>" rows matches "the old firmware's
\* fresh-device defaults" (defaults.js:4-6): a device that has connected has a
\* row for every channel no user has deleted.
SeededOnConnect ==
    seeded => \A c \in Channels \ removed : switches[c].row
=============================================================================
