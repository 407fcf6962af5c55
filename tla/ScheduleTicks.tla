----------------------------- MODULE ScheduleTicks -----------------------------
(***************************************************************************)
(* The device-schedule scheduler (deviceSchedules/scheduler.js) and the    *)
(* edits it runs against (deviceApi/schedules.js), for one schedule row.   *)
(* A tick starts every minute whether or not the one before it has ended;  *)
(* it works on the rows as its SELECT found them, one after the other,     *)
(* each with a command that may be retried after a pause.  The rows of     *)
(* other schedules only show here as time passing between two steps.       *)
(* automations/scheduler.js has the same ticks and the same once-a-day     *)
(* test, without the one-shot types.                                       *)
(***************************************************************************)
EXTENDS Integers

CONSTANTS
    MaxTime,    \* bound: last minute of the run
    DayLength,  \* minutes in a day
    Grace,      \* CATCH_UP_GRACE_MINUTES
    Duration,   \* duration_s of a countdown, in minutes
    Ticks,      \* ticks that may be in flight at once
    MaxEdits    \* bound: POST /api/schedules requests

ConstantsAssumption ==
    /\ MaxTime \in Nat /\ DayLength \in Nat \ {0} /\ Grace \in Nat
    /\ Duration \in Nat /\ MaxEdits \in Nat

VARIABLES
    now,    \* the clock, in minutes
    row,    \* the device_schedules row
    edits,  \* edits so far
    tick,   \* tick -> what it knows and its next step
    ticked, \* minute of the last tick started
    fired   \* history: the completed calls of fireDeviceSchedule

vars == <<now, row, edits, tick, ticked, fired>>

Never == -1
Minutes == 0..MaxTime
Types == {"daily", "once", "countdown"}
Day(m) == m \div DayLength
IsOneShot(r) == r.type \in {"once", "countdown"}

Rows == [type : Types, time : 0..(DayLength - 1), enabled : BOOLEAN,
         startedAt : Minutes \cup {Never}, lastFiredAt : Minutes \cup {Never},
         arming : 0..MaxEdits]

Fires == [tick : Minutes, at : Minutes, type : Types, arming : 0..MaxEdits]

\* What an idle tick holds is of no interest.
Idle == [pc |-> "idle", start |-> Never, at |-> Never, snapshot |-> <<>>, seen |-> {}]

TypeOK ==
    /\ now \in Minutes /\ edits \in 0..MaxEdits /\ ticked \in Minutes \cup {Never}
    /\ row \in Rows /\ fired \subseteq Fires
    /\ \A t \in Ticks : tick[t] = Idle \/
         /\ tick[t].pc \in {"select", "visit", "try", "retry", "update"}
         /\ tick[t].start \in Minutes /\ tick[t].seen \subseteq fired
         /\ tick[t].pc # "select" => tick[t].snapshot \in Rows

\* A schedule just made: an INSERT of upsertSchedule.
Init ==
    /\ now = 0 /\ edits = 0 /\ ticked = Never /\ fired = {}
    /\ row \in {r \in Rows : /\ r.enabled /\ r.arming = 0 /\ r.lastFiredAt = Never
                             /\ r.startedAt = IF r.type = "countdown" THEN 0 ELSE Never}
    /\ tick = [t \in Ticks |-> Idle]

Goto(t, pc) == tick' = [tick EXCEPT ![t].pc = pc]
Done(t) == tick' = [tick EXCEPT ![t] = Idle]

-----------------------------------------------------------------------------

\* Minutes pass.
Clock ==
    /\ now < MaxTime /\ now' = now + 1
    /\ UNCHANGED <<row, edits, tick, ticked, fired>>

\* An edit of the row. A countdown starts anew only when it is enabled again.
\* A deleted row is one that is disabled and not edited any more.
UpsertSchedule(type, time, enabled) ==
    LET rearmed == ~row.enabled /\ enabled IN
    /\ edits < MaxEdits /\ edits' = edits + 1
    /\ row' = [row EXCEPT
         !.type = type, !.time = time, !.enabled = enabled,
         !.startedAt = IF type # "countdown" THEN Never
                       ELSE IF rearmed \/ row.startedAt = Never THEN now ELSE row.startedAt,
         !.arming = IF rearmed THEN row.arming + 1 ELSE row.arming]
    /\ UNCHANGED <<now, tick, ticked, fired>>

\* runTick, once a minute.
RunTick(t) ==
    /\ tick[t] = Idle /\ ticked < now
    /\ ticked' = now
    /\ tick' = [tick EXCEPT ![t].pc = "select", ![t].start = now]
    /\ UNCHANGED <<now, row, edits, fired>>

\* SELECT ... WHERE s.enabled.
SelectRows(t) ==
    /\ tick[t].pc = "select"
    /\ IF row.enabled
       THEN tick' = [tick EXCEPT ![t].pc = "visit", ![t].snapshot = row, ![t].seen = fired]
       ELSE Done(t)
    /\ UNCHANGED <<now, row, edits, ticked, fired>>

\* Within the catch-up window of today's occurrence.
OnTime(r, m) == (m % DayLength) - r.time \in 0..Grace

\* Mutant: a fire is taken to be today's only in the same minute.
IsDueRolling(r, m) ==
    IF r.type = "countdown"
    THEN r.startedAt # Never /\ m >= r.startedAt + Duration
    ELSE OnTime(r, m) /\ r.lastFiredAt # m

IsDue(r, m) ==
    IF r.type = "countdown"
    THEN r.startedAt # Never /\ m >= r.startedAt + Duration
    ELSE OnTime(r, m) /\ Day(r.lastFiredAt) # Day(m)

\* The loop's test of the row, at the time read just after the SELECT.
Visit(t) ==
    /\ tick[t].pc = "visit"
    /\ IF IsDue(tick[t].snapshot, now)
       THEN tick' = [tick EXCEPT ![t].pc = "try", ![t].at = now]
       ELSE Done(t)
    /\ UNCHANGED <<now, row, edits, ticked, fired>>

\* setChannelState answers, or a guard refuses it: the occurrence is handled.
Handled(t) ==
    /\ tick[t].pc \in {"try", "retry"}
    /\ Goto(t, "update")
    /\ UNCHANGED <<now, row, edits, ticked, fired>>

\* setChannelState fails: one retry, then nothing is recorded.
Fails(t) ==
    /\ \/ tick[t].pc = "try" /\ Goto(t, "retry")
       \/ tick[t].pc = "retry" /\ Done(t)
    /\ UNCHANGED <<now, row, edits, ticked, fired>>

\* UPDATE ... SET last_fired_at = now(), enabled = enabled AND NOT oneShot.
UpdateFired(t) ==
    LET old == tick[t].snapshot IN
    /\ tick[t].pc = "update"
    /\ row' = [row EXCEPT !.lastFiredAt = now, !.enabled = @ /\ ~IsOneShot(old)]
    /\ fired' = fired \cup {[tick |-> tick[t].start, at |-> tick[t].at,
                             type |-> old.type, arming |-> old.arming]}
    /\ Done(t)
    /\ UNCHANGED <<now, edits, ticked>>

\* The process is killed and started again: the row is all that is left.
Restart ==
    /\ \E t \in Ticks : tick[t] # Idle
    /\ tick' = [t \in Ticks |-> Idle]
    /\ UNCHANGED <<now, row, edits, ticked, fired>>

Next ==
    \/ Clock
    \/ \E type \in Types, time \in 0..(DayLength - 1), enabled \in BOOLEAN :
          UpsertSchedule(type, time, enabled)
    \/ \E t \in Ticks :
          RunTick(t) \/ SelectRows(t) \/ Visit(t) \/ Handled(t) \/ Fails(t) \/ UpdateFired(t)
    \/ Restart

Spec == Init /\ [][Next]_vars

-----------------------------------------------------------------------------

\* Two fires stand for the same occurrence: the same day of a clock schedule,
\* or the same arming of a one-shot one.
SameOccurrence(f, at, r) ==
    \/ f.type # "countdown" /\ r.type # "countdown" /\ Day(f.at) = Day(at)
    \/ f.type \in {"once", "countdown"} /\ f.arming = r.arming

\* Edits, crashes, retries, late ticks and midnights notwithstanding, a tick
\* whose SELECT came after an occurrence was recorded as fired does not fire it
\* again: only ticks that overlap can.
RecordedNotRepeated ==
    \A t \in Ticks : tick[t].pc \in {"try", "retry", "update"} =>
        \A f \in tick[t].seen : ~SameOccurrence(f, tick[t].at, tick[t].snapshot)

-----------------------------------------------------------------------------
(* What the source says and the code does not keep.                        *)

\* scheduler.js: "Fires at most once per local day regardless of how many
\* ticks land inside the grace window."
OncePerDay ==
    \A f, g \in fired :
        f.type = "daily" /\ g.type = "daily" /\ Day(f.at) = Day(g.at) => f = g
=============================================================================
