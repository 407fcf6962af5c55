------------------------------ MODULE UsageStats ------------------------------
(***************************************************************************)
(* Usage statistics (usage.js): how long a switch was on, day by day of its*)
(* household's time zone, out of the activity log (activity.js), which     *)
(* holds a row for every change a device reports while it is connected and *)
(* somebody's, and one more for every channel when it connects.            *)
(*                                                                         *)
(* One switch, and one household ("ours") that asks; "theirs" is any other.*)
(* Time goes in hours; a zone changes its offset once.                     *)
(***************************************************************************)
EXTENDS Integers, FiniteSets, Sequences

CONSTANTS
    MaxTime,   \* bound: the last hour
    DayLength, \* hours in a day
    Zones,     \* [before, after: offsets from UTC; at: the hour they change]
    MaxDays,   \* bound: days asked for
    MaxEvents  \* bound: changes of the switch, of the connection or of hands

\* A midnight that a zone skips or repeats is one that zonedMidnightMs finds:
\* clocks go forward right then, east of UTC, or back to it, west of UTC.
\* (Elsewhere its two passes miss it by the change of the offset.)
MidnightsFound(z) ==
    /\ \A wall \in (z.at + z.before)..(z.at + z.after - 1) :
          wall % DayLength = 0 => wall = z.at + z.before /\ z.before >= 0
    /\ \A wall \in (z.at + z.after)..(z.at + z.before - 1) :
          wall % DayLength = 0 => wall = z.at + z.after /\ z.after < 0

ConstantsAssumption ==
    /\ MaxTime \in Nat /\ DayLength \in Nat \ {0} /\ MaxDays \in Nat /\ MaxEvents \in Nat
    /\ Zones \subseteq [before : Int, after : Int, at : Int]
    /\ \A z \in Zones : MidnightsFound(z)

VARIABLES
    zone,    \* households.timezone
    now,     \* the clock
    relay,   \* the switch
    linked,  \* its device is connected
    owner,   \* devices.household_id
    log,     \* activity_log, in the order of created_at and id
    fresh,   \* history: it has been reported to us since it connected or was claimed
    told,    \* history: the last state that was reported to us
    truth,   \* history: hour -> the switch as it was, or as we were last told
    events   \* events so far

vars == <<zone, now, relay, linked, owner, log, fresh, told, truth, events>>

States == {"ON", "OFF"}
Unknown == "unknown"
Owners == {"ours", "theirs", "nobody"}

TypeOK ==
    /\ zone \in Zones /\ now \in 0..MaxTime /\ events \in 0..MaxEvents
    /\ relay \in States /\ linked \in BOOLEAN /\ fresh \in BOOLEAN /\ owner \in Owners
    /\ log \in Seq([home : Owners, state : States, at : 0..MaxTime])
    /\ told \in States \cup {Unknown}
    /\ truth \in Seq(States \cup {Unknown}) /\ Len(truth) = now

Init ==
    /\ zone \in Zones /\ now = 0
    /\ relay \in States /\ linked = FALSE /\ owner \in Owners
    /\ log = <<>> /\ fresh = FALSE /\ told = Unknown /\ truth = <<>> /\ events = 0

-----------------------------------------------------------------------------
(* How the log comes about.                                                *)

Event == events < MaxEvents /\ events' = events + 1

\* The handler of state_changed: a row for whoever has the device.
LogActivity(state) ==
    /\ log' = IF owner = "nobody" THEN log
              ELSE Append(log, [home |-> owner, state |-> state, at |-> now])
    /\ fresh' = (owner = "ours")
    /\ told' = IF owner = "ours" THEN state ELSE told

\* The switch is turned; a device without a connection tells nobody.
Turn ==
    /\ Event
    /\ relay' = IF relay = "ON" THEN "OFF" ELSE "ON"
    /\ IF linked THEN LogActivity(relay') ELSE UNCHANGED <<log, fresh, told>>
    /\ UNCHANGED <<zone, now, linked, owner, truth>>

\* publishFullState: every channel is reported, changed or not.
Connect ==
    /\ Event /\ ~linked /\ linked' = TRUE
    /\ LogActivity(relay)
    /\ UNCHANGED <<zone, now, relay, owner, truth>>

Disconnect ==
    /\ Event /\ linked /\ linked' = FALSE /\ fresh' = FALSE
    /\ UNCHANGED <<zone, now, relay, owner, log, told, truth>>

\* A claim or an unclaim: nothing is reported.
Move(to) ==
    /\ Event /\ to # owner /\ "nobody" \in {owner, to}
    /\ owner' = to /\ fresh' = FALSE
    /\ UNCHANGED <<zone, now, relay, linked, log, told, truth>>

\* An hour goes by.
Clock ==
    /\ now < MaxTime /\ now' = now + 1
    /\ truth' = Append(truth, IF fresh THEN relay ELSE told)
    /\ UNCHANGED <<zone, relay, linked, owner, log, fresh, told, events>>

Next ==
    \/ Turn \/ Connect \/ Disconnect \/ Clock
    \/ \E to \in Owners : Move(to)

Spec == Init /\ [][Next]_vars

-----------------------------------------------------------------------------
(* Local days.                                                             *)

Offset(t) == IF t < zone.at THEN zone.before ELSE zone.after

\* The calendar day of an instant.
LocalDay(t) == (t + Offset(t)) \div DayLength

\* zonedMidnightMs: the second pass is for a change of offset between the guess
\* and the answer.
ZonedMidnight(day) ==
    LET wall == day * DayLength
        first == wall - Offset(wall)
    IN  wall - Offset(first)

\* dayWindows.
DayWindows(days, asOf) ==
    [day \in (LocalDay(asOf) - days + 1)..LocalDay(asOf) |->
        [start |-> ZonedMidnight(day), end |-> ZonedMidnight(day + 1)]]

-----------------------------------------------------------------------------
(* Intervals.                                                              *)

\* Mutant: the same state again starts a new interval.
FollowReplays(acc, event) ==
    IF event.state = "ON" THEN [acc EXCEPT !.current = "ON", !.since = <<event.at>>]
    ELSE [current |-> "OFF", since |-> <<>>,
          done |-> IF acc.since # <<>> /\ event.at > acc.since[1]
                   THEN Append(acc.done, <<acc.since[1], event.at>>)
                   ELSE acc.done]

\* The body of the loop of onIntervals; since is empty while the switch is off.
Follow(acc, event) ==
    IF event.state = acc.current THEN acc
    ELSE IF event.state = "ON" THEN [acc EXCEPT !.current = "ON", !.since = <<event.at>>]
    ELSE [current |-> "OFF", since |-> <<>>,
          done |-> IF acc.since # <<>> /\ event.at > acc.since[1]
                   THEN Append(acc.done, <<acc.since[1], event.at>>)
                   ELSE acc.done]

\* onIntervals over the rows of our household in start..end, in their order.
OnIntervals(rows, initial, start, end) ==
    LET first == [current |-> initial, done |-> <<>>,
                  since |-> IF initial = "ON" THEN <<start>> ELSE <<>>]
        counts(row) == row.home = "ours" /\ row.at \in start..end
        after[i \in 0..Len(rows)] ==
            IF i = 0 THEN first
            ELSE IF counts(rows[i]) THEN Follow(after[i - 1], rows[i])
            ELSE after[i - 1]
        last == after[Len(rows)]
    IN  IF last.since # <<>> /\ end > last.since[1]
        THEN Append(last.done, <<last.since[1], end>>)
        ELSE last.done

Overlap(interval, w) ==
    LET lo == IF interval[1] > w.start THEN interval[1] ELSE w.start
        hi == IF interval[2] < w.end THEN interval[2] ELSE w.end
    IN  IF hi > lo THEN hi - lo ELSE 0

\* bucketSeconds, for one window.
BucketSeconds(intervals, w) ==
    LET total[i \in 0..Len(intervals)] ==
            IF i = 0 THEN 0 ELSE total[i - 1] + Overlap(intervals[i], w)
    IN  total[Len(intervals)]

\* The state of our household's last row before t: the query for initialState.
StateBefore(rows, t) ==
    LET before == {i \in DOMAIN rows : rows[i].home = "ours" /\ rows[i].at < t}
    IN  IF before = {} THEN Unknown
        ELSE rows[CHOOSE i \in before : \A j \in before : j <= i].state

\* getUsage for this switch, asked for at asOf.
GetUsage(days, asOf) ==
    LET windows == DayWindows(days, asOf)
        today == LocalDay(asOf)
        start == windows[today - days + 1].start
        end == IF asOf < windows[today].end THEN asOf ELSE windows[today].end
        intervals == OnIntervals(log, StateBefore(log, start), start, end)
    IN  [day \in DOMAIN windows |-> BucketSeconds(intervals, windows[day])]

-----------------------------------------------------------------------------

\* usage.js: "Only this household's activity rows count"; "an echo replay of ON
\* doesn't restart anything"; "so a DST change between guess and answer is
\* accounted for". Whatever was turned, lost, replayed or claimed, and however
\* many rows came after the question, each local day counts just those of its
\* hours in which the switch was on, as far as we were told.
OnTimeCounted ==
    \A asOf \in 0..now, days \in 1..MaxDays :
        LET usage == GetUsage(days, asOf) IN
        \A day \in DOMAIN usage :
            usage[day] = Cardinality({t \in 0..(asOf - 1) : LocalDay(t) = day /\ truth[t + 1] = "ON"})
=============================================================================
