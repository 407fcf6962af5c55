---------------------------- MODULE ScheduleEditing ----------------------------
(***************************************************************************)
(* A dashboard that edits the schedules of a device (schedule-dialog.tsx,  *)
(* schedule-list.tsx) through its cached copy of the device's configuration*)
(* (lib/queries.ts, cache.ts), and the rows behind it                      *)
(* (deviceApi/schedules.js), which others edit and the scheduler turns off *)
(* meanwhile.  A switch in the list is shown turned before the backend has *)
(* answered and put back when it fails; every change asks for a new copy.  *)
(*                                                                         *)
(* A row is known by its versions: ver numbers its writes, what is the     *)
(* version that its content (channel, action, type, time) comes from.      *)
(***************************************************************************)
EXTENDS Integers

CONSTANTS
    Schedules,  \* the ids that schedules may have
    MaxWrites,  \* bound: versions of all rows together
    MaxClicks   \* bound: changes the user asks for

New == 0

ConstantsAssumption == New \notin Schedules /\ MaxWrites \in Nat /\ MaxClicks \in Nat

VARIABLES
    rows,    \* device_schedules
    writes,  \* versions given so far
    view,    \* the cached configuration
    dirty,   \* the copy is invalidated
    fetch,   \* the request for a new copy
    dialog,  \* the editor, with the schedule it was opened on
    mut,     \* the mutations under way
    clicks,  \* changes asked for so far
    owed     \* history: schedule -> the last version that was confirmed to the user

vars == <<rows, writes, view, dirty, fetch, dialog, mut, clicks, owed>>

Guess == -1   \* no version: a row that is shown before its answer
Versions == 0..MaxWrites

Absent == [alive |-> FALSE, on |-> FALSE, what |-> 0, ver |-> 0]
Rows == [alive : BOOLEAN, on : BOOLEAN, what : Versions, ver : Versions \cup {Guess}]

Save == <<"save", New>>
Toggle(s) == <<"toggle", s>>
Remove(s) == <<"remove", s>>
Muts == {Save} \cup ({"toggle", "remove"} \X Schedules)

\* of: the schedule; on and what: the body; ver: what it became; before: the
\* copy to go back to.
Idle == [pc |-> "idle", of |-> New, on |-> FALSE, what |-> 0, ver |-> 0, before |-> <<>>]

Closed == [open |-> FALSE, of |-> New, on |-> TRUE]

NoFetch == [pc |-> "none", rows |-> <<>>]
Asked == [pc |-> "asked", rows |-> <<>>]

TypeOK ==
    /\ rows \in [Schedules -> Rows] /\ view \in [Schedules -> Rows]
    /\ writes \in Versions /\ clicks \in 0..MaxClicks /\ dirty \in BOOLEAN
    /\ fetch.pc \in {"none", "asked", "read"}
    /\ dialog \in [open : BOOLEAN, of : Schedules \cup {New}, on : BOOLEAN]
    /\ \A m \in Muts : mut[m].pc \in {"idle", "sent", "done", "failed"}
    /\ owed \in [Schedules -> Versions]

Init ==
    /\ rows \in [Schedules -> {Absent, [Absent EXCEPT !.alive = TRUE, !.on = TRUE]}]
    /\ writes = 0 /\ clicks = 0 /\ view = rows /\ dirty = FALSE /\ fetch = NoFetch
    /\ dialog = Closed /\ mut = [m \in Muts |-> Idle] /\ owed = [s \in Schedules |-> 0]

-----------------------------------------------------------------------------
(* The rows.                                                               *)

NextVersion == writes + 1
MayWrite == writes < MaxWrites /\ writes' = NextVersion

\* Somebody else edits or deletes a schedule, or the scheduler has fired it.
Outside(s) ==
    /\ rows[s].alive /\ MayWrite
    /\ \/ \E on \in BOOLEAN, what \in {rows[s].what, NextVersion} :
            rows' = [rows EXCEPT ![s].on = on, ![s].what = what, ![s].ver = NextVersion]
       \/ rows' = [rows EXCEPT ![s] = [Absent EXCEPT !.ver = NextVersion]]
    /\ UNCHANGED <<view, dirty, fetch, dialog, mut, clicks, owed>>

\* 404: the schedule is gone.
NotFound(m) ==
    /\ mut' = [mut EXCEPT ![m].pc = "failed"]
    /\ UNCHANGED <<rows, writes>>

\* upsertSchedule: an UPDATE of the row, or an INSERT of a new one.
Upsert(m) ==
    /\ mut[m].pc = "sent" /\ m[1] # "remove"
    /\ \/ mut[m].of # New /\ ~rows[mut[m].of].alive /\ NotFound(m)
       \/ \E s \in IF mut[m].of = New THEN {s \in Schedules : rows[s] = Absent}
                   ELSE {s \in {mut[m].of} : rows[s].alive} :
            /\ MayWrite
            /\ rows' = [rows EXCEPT ![s] =
                  [alive |-> TRUE, on |-> mut[m].on, ver |-> NextVersion,
                   what |-> IF m = Save THEN NextVersion ELSE mut[m].what]]
            /\ mut' = [mut EXCEPT ![m].pc = "done", ![m].of = s, ![m].ver = NextVersion]
    /\ UNCHANGED <<view, dirty, fetch, dialog, clicks, owed>>

\* deleteSchedule.
Delete(s) ==
    /\ mut[Remove(s)].pc = "sent"
    /\ \/ ~rows[s].alive /\ NotFound(Remove(s))
       \/ /\ rows[s].alive /\ MayWrite
          /\ rows' = [rows EXCEPT ![s] = [Absent EXCEPT !.ver = NextVersion]]
          /\ mut' = [mut EXCEPT ![Remove(s)].pc = "done", ![Remove(s)].ver = NextVersion]
    /\ UNCHANGED <<view, dirty, fetch, dialog, clicks, owed>>

\* The request or its answer is lost.
Lose(m) ==
    /\ mut[m].pc \in {"sent", "done"}
    /\ mut' = [mut EXCEPT ![m].pc = "failed"]
    /\ UNCHANGED <<rows, writes, view, dirty, fetch, dialog, clicks, owed>>

-----------------------------------------------------------------------------
(* The copy.                                                               *)

\* invalidateQueries: a request under way starts over.
Invalidate == dirty' = TRUE /\ fetch' = Asked

\* setQueryData.
SetView(new) == view' = new /\ dirty' = FALSE

\* The window comes into focus, with the copy old or invalidated.
Refetch ==
    /\ fetch = NoFetch /\ fetch' = Asked
    /\ UNCHANGED <<rows, writes, view, dirty, dialog, mut, clicks, owed>>

\* listSchedules.
ReadRows ==
    /\ fetch.pc = "asked"
    /\ fetch' = [pc |-> "read", rows |-> rows]
    /\ UNCHANGED <<rows, writes, view, dirty, dialog, mut, clicks, owed>>

\* The answer comes, or the request fails for good.
EndFetch ==
    /\ \/ fetch.pc = "read" /\ SetView(fetch.rows)
       \/ fetch.pc # "none" /\ UNCHANGED <<view, dirty>>
    /\ fetch' = NoFetch
    /\ UNCHANGED <<rows, writes, dialog, mut, clicks, owed>>

-----------------------------------------------------------------------------
(* The user. A dialog, and a deletion being confirmed, hide the list.      *)

Click == clicks < MaxClicks /\ clicks' = clicks + 1

InList == ~dialog.open /\ \A s \in Schedules : mut[Remove(s)] = Idle

\* The form is filled from the schedule as it is shown; a new one starts enabled.
OpenDialog ==
    /\ InList
    /\ \/ dialog' = [Closed EXCEPT !.open = TRUE]
       \/ \E s \in Schedules : view[s].alive /\ dialog' = [open |-> TRUE, of |-> s, on |-> view[s].on]
    /\ UNCHANGED <<rows, writes, view, dirty, fetch, mut, clicks, owed>>

\* It stays open while a save is pending.
CloseDialog ==
    /\ dialog.open /\ mut[Save] = Idle /\ dialog' = Closed
    /\ UNCHANGED <<rows, writes, view, dirty, fetch, mut, clicks, owed>>

\* onSubmit.
SubmitDialog ==
    /\ dialog.open /\ mut[Save] = Idle
    /\ mut' = [mut EXCEPT ![Save] = [Idle EXCEPT !.pc = "sent", !.of = dialog.of, !.on = dialog.on]]
    /\ Click
    /\ UNCHANGED <<rows, writes, view, dirty, fetch, dialog, owed>>

\* onMutate of useToggleSchedule: requests for a copy are cancelled, and the
\* schedule is shown, and posted as a whole, as it is shown but for the switch.
ClickSwitch(s) ==
    LET turned == [view[s] EXCEPT !.on = ~@, !.ver = Guess] IN
    /\ InList /\ view[s].alive /\ mut[Toggle(s)] = Idle
    /\ SetView([view EXCEPT ![s] = turned])
    /\ fetch' = NoFetch
    /\ mut' = [mut EXCEPT ![Toggle(s)] = [Idle EXCEPT !.pc = "sent", !.of = s, !.on = turned.on,
                                                      !.what = view[s].what, !.before = view]]
    /\ Click
    /\ UNCHANGED <<rows, writes, dialog, owed>>

ConfirmDelete(s) ==
    /\ InList /\ view[s].alive
    /\ mut' = [mut EXCEPT ![Remove(s)] = [Idle EXCEPT !.pc = "sent", !.of = s]]
    /\ Click
    /\ UNCHANGED <<rows, writes, view, dirty, fetch, dialog, owed>>

-----------------------------------------------------------------------------
(* The answers.                                                            *)

Confirmed(m) == owed' = [owed EXCEPT ![mut[m].of] = mut[m].ver]
Forget(m) == mut' = [mut EXCEPT ![m] = Idle]

\* A failure is shown in the dialog, which stays open.
SettleSave ==
    /\ mut[Save].pc \in {"done", "failed"} /\ Forget(Save)
    /\ IF mut[Save].pc = "done"
       THEN Confirmed(Save) /\ Invalidate /\ dialog' = Closed
       ELSE UNCHANGED <<owed, dirty, fetch, dialog>>
    /\ UNCHANGED <<rows, writes, view, clicks>>

\* Mutant: the switch is put back, but no new copy is asked for.
SettleToggleInPlace(s) ==
    LET m == Toggle(s) IN
    /\ mut[m].pc \in {"done", "failed"} /\ Forget(m)
    /\ IF mut[m].pc = "done" THEN Confirmed(m) /\ Invalidate /\ UNCHANGED view
       ELSE SetView(mut[m].before) /\ UNCHANGED <<owed, fetch>>
    /\ UNCHANGED <<rows, writes, dialog, clicks>>

\* The whole copy is put back as it was before the click.
SettleToggle(s) ==
    LET m == Toggle(s) IN
    /\ mut[m].pc \in {"done", "failed"} /\ Forget(m)
    /\ Invalidate
    /\ IF mut[m].pc = "done" THEN Confirmed(m) /\ UNCHANGED view
       ELSE view' = mut[m].before /\ UNCHANGED owed
    /\ UNCHANGED <<rows, writes, dialog, clicks>>

SettleDelete(s) ==
    LET m == Remove(s) IN
    /\ mut[m].pc \in {"done", "failed"} /\ Forget(m)
    /\ IF mut[m].pc = "done"
       THEN Confirmed(m) /\ Invalidate /\ view' = [view EXCEPT ![s] = [Absent EXCEPT !.ver = Guess]]
       ELSE UNCHANGED <<owed, dirty, fetch, view>>
    /\ UNCHANGED <<rows, writes, dialog, clicks>>

-----------------------------------------------------------------------------

User == OpenDialog \/ CloseDialog \/ SubmitDialog
        \/ \E s \in Schedules : ClickSwitch(s) \/ ConfirmDelete(s)

Answers == SettleSave \/ \E s \in Schedules : SettleToggle(s) \/ SettleDelete(s)

Next ==
    \/ \E s \in Schedules : Outside(s) \/ Delete(s)
    \/ \E m \in Muts : Upsert(m) \/ Lose(m)
    \/ Refetch \/ ReadRows \/ EndFetch
    \/ User
    \/ Answers

Spec == Init /\ [][Next]_vars

-----------------------------------------------------------------------------

AtRest == ~dirty /\ fetch = NoFetch /\ \A m \in Muts : mut[m] = Idle

\* Once nothing is under way and no refetch has failed, the dashboard shows no
\* guess, and each schedule at least as new as the last change it confirmed to its
\* user, however switches clicked before their answers, rollbacks of the whole
\* copy, cancelled requests and edits in the dialog cross.
ShowsOwnChanges ==
    AtRest => \A s \in Schedules : view[s].ver >= owed[s]

\* schedule-dialog.tsx: "Editing keeps the schedule's enabled flag". The code
\* writes the flag as it was when the dialog opened: a one-shot schedule that has
\* fired meanwhile is armed again.
EditKeepsFlag ==
    [][\A s \in Schedules :
         mut[Save].pc = "sent" /\ mut'[Save].pc = "done" /\ mut[Save].of = s
           => rows'[s].on = rows[s].on]_vars

\* queries.ts: "Optimistic enable/disable". The code posts the whole schedule as
\* it is shown: what others edited meanwhile is undone.
ToggleKeepsContent ==
    [][\A s \in Schedules :
         mut[Toggle(s)].pc = "sent" /\ mut'[Toggle(s)].pc = "done"
           => rows'[s].what = rows[s].what]_vars
=============================================================================
