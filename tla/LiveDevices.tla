----------------------------- MODULE LiveDevices ------------------------------
(***************************************************************************)
(* What one open dashboard shows of the channels of a device: the cached   *)
(* GET /devices list, written by answers to that request, by the snapshot  *)
(* and the events of the live connection, and by the optimistic switch of  *)
(* a tile with its rollback (dashboard/lib/live.tsx, cache.ts, queries.ts; *)
(* on the backend ws/clientServer.js and the broadcasts of ws/registry.js).*)
(*                                                                         *)
(* It starts as a page is loaded: the first list has been requested, the   *)
(* connection is being made, and the cache holds no list yet.              *)
(*                                                                         *)
(* Every recorded state of a channel has a number, counted per channel; 0  *)
(* is a guess of the dashboard.  A list is read by the backend at one      *)
(* moment and written to the cache at a later one.                         *)
(***************************************************************************)
EXTENDS Naturals, Sequences

CONSTANTS
    Channels,
    NoList,         \* nothing cached yet
    Clicks,         \* switchings of a tile
    MaxChanges,     \* bound: states recorded of a channel
    MaxDrops        \* bound: live connections lost

ASSUME LiveAssumption == MaxChanges \in Nat \ {0} /\ MaxDrops \in Nat

VARIABLES
    db,         \* channel -> cached_channel_state
    casts,      \* broadcastToHousehold calls that still look up the members
    status,     \* useLiveStatus
    wire,       \* messages on the live connection; <<>> without one
    snap,       \* sendInitialSnapshot of the connection
    fetch,      \* the GET /devices under way
    view,       \* channel -> what the cached list says, or NoList
    click,      \* click -> where it is, and the list to roll back to
    best,       \* history: channel -> the latest recorded state it ever showed
    lost,       \* history: channel -> the latest state announced to no list
    early,      \* history: the list on its way was read before the client was registered
    caught,     \* history: a list read since then has arrived over the live connection
    drops       \* bounded counter

backend == <<db, casts>>
connection == <<status, wire, snap>>
screen == <<view, best, lost>>
vars == <<backend, connection, fetch, screen, click, early, caught, drops>>

Cells == [on : BOOLEAN, v : Nat]
Lists == [Channels -> Cells]

ASSUME NoListAssumption == NoList \notin Lists

None == [st |-> "none"]
Asked == [st |-> "asked"]
Read(list) == [st |-> "read", list |-> list]
Reads == {None, Asked} \cup {Read(list) : list \in Lists}

Unclicked == [pc |-> "new", c |-> 0, on |-> FALSE, prev |-> NoList, run |-> "no"]

\* A click in flight has a channel and a list to go back to; nothing is on its way
\* without a connection; what is shown was recorded, or guessed.
TypeOK ==
    /\ \A c \in Channels :
           /\ db[c] \in Cells /\ db[c].v \in 1..MaxChanges
           /\ best[c] \in 0..db[c].v /\ lost[c] \in 0..db[c].v
           /\ view # NoList => view[c] \in Cells /\ view[c].v <= best[c]
    /\ status \in {"connecting", "live", "offline"} /\ caught \in BOOLEAN /\ early \in BOOLEAN
    /\ status = "live" => wire = <<>> \/ Head(wire).kind # "open"
    /\ \A m \in casts : m.kind = "event" /\ m.c \in Channels /\ m.v <= db[m.c].v
    /\ snap.st \in {"none", "asked", "read"} /\ fetch.st \in {"none", "asked", "read"}
    /\ \A k \in Clicks : click[k].pc = "sent" => click[k].c \in Channels /\ click[k].prev \in Lists
    /\ drops \in 0..MaxDrops

Init ==
    /\ db = [c \in Channels |-> [on |-> FALSE, v |-> 1]] /\ view = NoList
    /\ casts = {} /\ status = "connecting" /\ wire = <<>> /\ snap = None /\ fetch = Asked
    /\ click = [k \in Clicks |-> Unclicked]
    /\ best = [c \in Channels |-> 0] /\ lost = best
    /\ early = FALSE /\ caught = FALSE /\ drops = 0

-----------------------------------------------------------------------------
(* The cache.                                                              *)

Max2(a, b) == IF a > b THEN a ELSE b

\* patchChannelState writes to the list that is cached, if there is one.
Patch(c, cell) ==
    \/ /\ view # NoList
       /\ view' = [view EXCEPT ![c] = cell] /\ best' = [best EXCEPT ![c] = Max2(@, cell.v)]
       /\ UNCHANGED lost
    \/ /\ view = NoList
       /\ lost' = [lost EXCEPT ![c] = Max2(@, cell.v)]
       /\ UNCHANGED <<view, best>>

\* A whole list is written, whatever was cached.
Replace(list) ==
    /\ view' = list
    /\ best' = [c \in Channels |-> Max2(best[c], list[c].v)]
    /\ UNCHANGED lost

-----------------------------------------------------------------------------
(* The backend records and broadcasts.                                     *)

Records(c, on) ==
    /\ db[c].v < MaxChanges
    /\ db' = [db EXCEPT ![c] = [on |-> on, v |-> @.v + 1]]
    /\ casts' = casts \cup {[kind |-> "event", c |-> c, on |-> on, v |-> db[c].v + 1]}

\* A wall switch, a schedule or another user.
Change(c) ==
    /\ Records(c, ~db[c].on)
    /\ UNCHANGED <<connection, fetch, screen, click, early, caught, drops>>

Connected == wire # <<>> \/ status = "live"

\* Mutant: the client is registered only when its snapshot has been sent.
CastAfterSnapshot(m) ==
    /\ casts' = casts \ {m}
    /\ wire' = IF Connected /\ snap = None THEN Append(wire, m) ELSE wire
    /\ UNCHANGED <<db, status, snap, fetch, screen, click, early, caught, drops>>

\* broadcastToHousehold, after its query for the members.
Cast(m) ==
    /\ casts' = casts \ {m}
    /\ wire' = IF Connected THEN Append(wire, m) ELSE wire
    /\ UNCHANGED <<db, status, snap, fetch, screen, click, early, caught, drops>>

\* handleClientConnection: registered first, then the snapshot is read. The
\* dashboard has been "connecting" since it was loaded, or is "offline".
Connect ==
    /\ ~Connected
    /\ wire' = <<[kind |-> "open"]>> /\ snap' = Asked
    /\ caught' = FALSE /\ early' = (fetch.st = "read")
    /\ UNCHANGED <<backend, status, fetch, screen, click, drops>>

\* No token, no URL, or a socket that closes before the backend has taken it.
ConnectFails ==
    /\ ~Connected /\ status' = "offline"
    /\ UNCHANGED <<backend, wire, snap, fetch, screen, click, early, caught, drops>>

ReadSnapshot ==
    /\ snap = Asked /\ snap' \in {Read(db), None}   \* None: the query failed
    /\ UNCHANGED <<backend, status, wire, fetch, screen, click, early, caught, drops>>

SendSnapshot ==
    /\ snap.st = "read" /\ snap' = None
    /\ wire' = Append(wire, [kind |-> "snapshot", list |-> snap.list])
    /\ UNCHANGED <<backend, status, fetch, screen, click, early, caught, drops>>

-----------------------------------------------------------------------------
(* The live connection at the dashboard.                                   *)

\* onopen: catch up by a new request, which joins the first one while there is
\* no list to show, and replaces any other.
OnOpen ==
    /\ wire # <<>> /\ Head(wire).kind = "open"
    /\ wire' = Tail(wire) /\ status' = "live"
    /\ fetch' = IF view = NoList /\ fetch # None THEN fetch ELSE Asked
    /\ UNCHANGED <<backend, snap, screen, click, early, caught, drops>>

OnMessage ==
    /\ wire # <<>> /\ wire' = Tail(wire)
    /\ \/ /\ Head(wire).kind = "event"
          /\ Patch(Head(wire).c, [on |-> Head(wire).on, v |-> Head(wire).v])
          /\ UNCHANGED caught
       \/ Head(wire).kind = "snapshot" /\ Replace(Head(wire).list) /\ caught' = TRUE
    /\ UNCHANGED <<backend, status, snap, fetch, click, early, drops>>

OnClose ==
    /\ Connected /\ drops < MaxDrops /\ drops' = drops + 1
    /\ wire' = <<>> /\ snap' = None /\ status' = "offline"
    /\ UNCHANGED <<backend, fetch, screen, click, early, caught>>

-----------------------------------------------------------------------------
(* GET /devices.                                                           *)

Refetch ==
    /\ fetch = None /\ fetch' = Asked
    /\ UNCHANGED <<backend, connection, screen, click, early, caught, drops>>

\* The list is polled only while there is no live connection; it is also
\* requested again when the window gets the focus.
Polling == status # "live"

\* Mutant: it is polled only once a connection has failed.
PollOffline == status = "offline" /\ Refetch

Poll == Polling /\ Refetch

Focus == ~Polling /\ Refetch

ReadFetch ==
    /\ fetch = Asked /\ fetch' = Read(db) /\ early' = FALSE
    /\ UNCHANGED <<backend, connection, screen, click, caught, drops>>

FetchArrives ==
    /\ fetch.st = "read" /\ fetch' = None /\ Replace(fetch.list)
    /\ caught' = (caught \/ (status = "live" /\ ~early))
    /\ UNCHANGED <<backend, connection, click, early, drops>>

\* The request is repeated, or given up until the next poll.
FetchFails ==
    /\ fetch # None /\ fetch' \in {Asked, None}
    /\ UNCHANGED <<backend, connection, screen, click, early, caught, drops>>

-----------------------------------------------------------------------------
(* useSetChannelState.                                                     *)

\* onMutate: a request under way is cancelled, the list kept, the tile switched.
\* A tile is there to be clicked once there is a list.
Click(k, c) ==
    /\ click[k].pc = "new" /\ view # NoList /\ fetch' = None
    /\ click' = [click EXCEPT ![k] =
                    [pc |-> "sent", c |-> c, on |-> ~view[c].on, prev |-> view, run |-> "yes"]]
    /\ Patch(c, [on |-> ~view[c].on, v |-> 0])
    /\ UNCHANGED <<backend, connection, early, caught, drops>>

\* The device carries the command out and its report is recorded, before or
\* after the answer, be it that of a time-out.
Execute(k) ==
    /\ click[k].run = "yes" /\ click' = [click EXCEPT ![k].run = "no"]
    /\ Records(click[k].c, click[k].on)
    /\ UNCHANGED <<connection, fetch, screen, early, caught, drops>>

Succeeds(k) ==
    /\ click[k].pc = "sent" /\ click' = [click EXCEPT ![k].pc = "done"]
    /\ UNCHANGED <<backend, connection, fetch, screen, early, caught, drops>>

\* onError puts the kept list back, and asks for a new one if the device is
\* offline. Only a command that timed out may still be carried out.
Fails(k) ==
    /\ click[k].pc = "sent"
    /\ view' = click[k].prev
    /\ \/ /\ click[k].run = "yes"                   \* offline, or refused
          /\ fetch' \in {fetch, Asked}
          /\ click' = [click EXCEPT ![k].pc = "done", ![k].run = "no"]
       \/ /\ UNCHANGED fetch                        \* timed out
          /\ click' = [click EXCEPT ![k].pc = "done"]
    /\ UNCHANGED <<backend, connection, best, lost, early, caught, drops>>

-----------------------------------------------------------------------------

Next ==
    \/ \E c \in Channels : Change(c) \/ \E k \in Clicks : Click(k, c)
    \/ \E m \in casts : Cast(m)
    \/ \E k \in Clicks : Execute(k) \/ Succeeds(k) \/ Fails(k)
    \/ Connect \/ ConnectFails \/ ReadSnapshot \/ SendSnapshot \/ OnOpen \/ OnMessage \/ OnClose
    \/ Poll \/ Focus \/ ReadFetch \/ FetchArrives \/ FetchFails

\* The poll timer, and requests that are answered: one that is again and again
\* under way succeeds in the end.
Fairness == WF_vars(Poll) /\ SF_vars(ReadFetch) /\ SF_vars(FetchArrives)

Spec == Init /\ [][Next]_vars /\ Fairness

-----------------------------------------------------------------------------

Quiet ==
    /\ casts = {} /\ wire = <<>> /\ snap = None /\ fetch = None
    /\ \A k \in Clicks : click[k].pc # "sent" /\ click[k].run = "no"

\* A live dashboard misses nothing: once a list read over the connection has
\* arrived and nothing is under way, the last recorded state of every channel has
\* reached the screen, whatever came between its registration, the snapshot, the
\* events and the lists it asked for (clientServer.js:68-70, live.tsx:96-101) -
\* unless it was announced before the page had its first list, which drops the
\* event (cache.ts:47). An older list or a rollback may since have overwritten it.
NothingMissed ==
    Quiet /\ status = "live" /\ caught =>
        \A c \in Channels : best[c] = db[c].v \/ lost[c] = db[c].v

\* The same without the exception is not true of the code: a list read before the
\* change may arrive after the event that told of it (MCLiveDevicesFirst.cfg).
FirstListMissesNothing ==
    Quiet /\ status = "live" /\ caught => \A c \in Channels : best[c] = db[c].v

\* Without the live connection the screen is filled, and right again and again,
\* whatever was lost, overtaken, guessed or rolled back (live.tsx:18, queries.ts:60).
PollingCatchesUp ==
    []<>(view # NoList /\ \A c \in Channels : view[c].on = db[c].on) \/ <>[](status = "live")
=============================================================================
