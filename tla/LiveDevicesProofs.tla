--------------------------- MODULE LiveDevicesProofs ---------------------------
(***************************************************************************)
(* That a live dashboard misses nothing, proved for any number of channels,*)
(* clicks, changes and connections.                                        *)
(*                                                                         *)
(* LInv: whatever list is on its way over a connection either holds the    *)
(* last recorded state of a channel, or the event that brings it is on its *)
(* way too, or has arrived, be it at a page without a list.                *)
(***************************************************************************)
EXTENDS LiveDevices, SequenceTheorems, TLAPS

Open == [kind |-> "open"]
Events == [kind : {"event"}, c : Channels, on : BOOLEAN, v : Nat]
Snapshots == [kind : {"snapshot"}, list : Lists]
Msgs == {Open} \cup Events \cup Snapshots

ClickTypes == [pc : {"new", "sent", "done"}, c : Channels \cup {0}, on : BOOLEAN,
               prev : Lists \cup {NoList}, run : {"no", "yes"}]

Types ==
    /\ db \in Lists /\ view \in Lists \cup {NoList}
    /\ best \in [Channels -> Nat] /\ lost \in [Channels -> Nat]
    /\ casts \subseteq Events /\ wire \in Seq(Msgs)
    /\ status \in {"connecting", "live", "offline"} /\ caught \in BOOLEAN /\ early \in BOOLEAN
    /\ snap \in Reads /\ fetch \in Reads
    /\ click \in [Clicks -> ClickTypes] /\ drops \in 0..MaxDrops

\* What is on the live connection.
Sent == {wire[i] : i \in 1..Len(wire)}

\* The event with the last recorded state of a channel is on its way.
Waiting(c) == \E m \in Events : m.c = c /\ m.v = db[c].v /\ m \in casts \cup Sent
Reaches(c) == best[c] = db[c].v \/ lost[c] = db[c].v \/ Waiting(c)

Known(list) == \A c \in Channels : list[c].v <= db[c].v
Fresh(list) == \A c \in Channels : list[c].v = db[c].v \/ Reaches(c)

\* States are numbered as they are recorded.
Numbered ==
    /\ \A c \in Channels : /\ db[c].v \in 1..MaxChanges
                            /\ best[c] \in 0..db[c].v /\ lost[c] \in 0..db[c].v
    /\ view # NoList => \A c \in Channels : view[c].v <= best[c]
    /\ \A m \in Events : m \in casts \cup Sent => m.v <= db[m.c].v
    /\ \A m \in Snapshots : m \in Sent => Known(m.list)
    /\ snap.st = "read" => Known(snap.list)
    /\ fetch.st = "read" => Known(fetch.list)
    /\ \A k \in Clicks : click[k].pc = "sent" \/ click[k].run = "yes" => click[k].c \in Channels
    /\ \A k \in Clicks : click[k].pc = "sent" =>
           click[k].prev \in Lists /\ \A c \in Channels : click[k].prev[c].v <= best[c]

\* A connection begins with its "open", and is live from then on.
Opening ==
    /\ \A i \in 1..Len(wire) : wire[i].kind = "open" <=> (i = 1 /\ status # "live")
    /\ wire # <<>> /\ status # "live" => ~caught
    /\ snap # None => Connected

\* Nothing that came over the connection, or is about to, leaves a gap.
NoGap ==
    /\ snap.st = "read" => Fresh(snap.list)
    /\ \A m \in Snapshots : m \in Sent => Fresh(m.list)
    /\ fetch.st = "read" /\ Connected /\ ~early => Fresh(fetch.list)
    /\ status = "live" /\ caught => \A c \in Channels : Reaches(c)

LInv == Types /\ Numbered /\ Opening /\ NoGap

LEMMA Kinds ==
    /\ Open \in Msgs /\ Events \subseteq Msgs /\ Snapshots \subseteq Msgs /\ Open.kind = "open"
    /\ \A m \in Events : m.kind = "event"
    /\ \A m \in Snapshots : m.kind = "snapshot"
    /\ Open \notin Events \cup Snapshots
    /\ None \in Reads /\ Asked \in Reads /\ None.st = "none" /\ Asked.st = "asked"
    /\ \A list \in Lists : Read(list) \in Reads /\ Read(list).st = "read" /\ Read(list).list = list
    /\ \A m \in Reads : /\ m.st = "read" => m.list \in Lists /\ m = Read(m.list)
                        /\ m.st \in {"none", "asked", "read"}
                        /\ (m.st = "none" <=> m = None) /\ (m.st = "asked" <=> m = Asked)
<1>1. /\ Open \in Msgs /\ Events \subseteq Msgs /\ Snapshots \subseteq Msgs /\ Open.kind = "open"
      /\ \A m \in Events : m.kind = "event"
      /\ \A m \in Snapshots : m.kind = "snapshot"
  BY DEF Msgs, Open, Events, Snapshots
<1>2. Open \notin Events \cup Snapshots
  BY <1>1
<1>3. None \in Reads /\ Asked \in Reads /\ None.st = "none" /\ Asked.st = "asked"
  BY DEF Reads, None, Asked
<1>4. \A list \in Lists : Read(list) \in Reads /\ Read(list).st = "read" /\ Read(list).list = list
  BY DEF Reads, Read
<1>5. ASSUME NEW m \in Reads
      PROVE  m = None \/ m = Asked \/ \E list \in Lists : m = Read(list)
  BY DEF Reads
<1> QED BY <1>1, <1>2, <1>3, <1>4, <1>5

LEMMA SentBy ==
    ASSUME NEW q \in Seq(Msgs), NEW m \in Msgs
    PROVE  /\ Append(q, m) \in Seq(Msgs) /\ Append(q, m) # <<>> /\ Len(Append(q, m)) = Len(q) + 1 /\ Len(q) \in Nat
           /\ \A i \in 1..Len(q) : Append(q, m)[i] = q[i]
           /\ Append(q, m)[Len(q) + 1] = m
           /\ {Append(q, m)[i] : i \in 1..Len(Append(q, m))} = {q[i] : i \in 1..Len(q)} \cup {m}
<1>1. /\ Append(q, m) \in Seq(Msgs) /\ Append(q, m) # <<>> /\ Len(Append(q, m)) = Len(q) + 1 /\ Len(q) \in Nat
      /\ \A i \in 1..Len(q) : Append(q, m)[i] = q[i]
      /\ Append(q, m)[Len(q) + 1] = m
      /\ 1..(Len(q) + 1) = 1..Len(q) \cup {Len(q) + 1}
  BY AppendProperties
<1> DEFINE p == Append(q, m)
<1> HIDE DEF p
<1>2. {p[i] : i \in 1..Len(p)} = {q[i] : i \in 1..Len(q)} \cup {m}
  BY <1>1 DEF p
<1> QED BY <1>1, <1>2 DEF p

LEMMA TakenFrom ==
    ASSUME NEW q \in Seq(Msgs), q # <<>>
    PROVE  /\ Tail(q) \in Seq(Msgs) /\ Len(Tail(q)) = Len(q) - 1 /\ Len(q) \in Nat \ {0}
           /\ Head(q) = q[1] /\ Head(q) \in Msgs
           /\ \A i \in 1..Len(Tail(q)) : Tail(q)[i] = q[i + 1] /\ i + 1 \in 1..Len(q)
           /\ {q[i] : i \in 1..Len(q)} = {Tail(q)[i] : i \in 1..Len(Tail(q))} \cup {Head(q)}
<1>1. /\ Tail(q) \in Seq(Msgs) /\ Len(Tail(q)) = Len(q) - 1 /\ Len(q) \in Nat \ {0}
      /\ Head(q) = q[1] /\ Head(q) \in Msgs
      /\ \A i \in 1..(Len(q) - 1) : Tail(q)[i] = q[i + 1]
  OBVIOUS
<1> DEFINE p == Tail(q)
<1>2. \A i \in 1..Len(q) : i = 1 \/ (i - 1 \in 1..Len(p) /\ p[i - 1] = q[i])
  BY <1>1
<1>3. \A i \in 1..Len(p) : p[i] = q[i + 1] /\ i + 1 \in 1..Len(q)
  BY <1>1
<1>4. 1 \in 1..Len(q) /\ q[1] = Head(q)
  BY <1>1
<1> HIDE DEF p
<1>5. {q[i] : i \in 1..Len(q)} = {p[i] : i \in 1..Len(p)} \cup {Head(q)}
  <2>1. ASSUME NEW i \in 1..Len(q) PROVE q[i] \in {p[j] : j \in 1..Len(p)} \cup {Head(q)}
    BY <1>2, <1>4
  <2>2. ASSUME NEW i \in 1..Len(p) PROVE p[i] \in {q[j] : j \in 1..Len(q)}
    BY <1>3
  <2> QED BY <1>4, <2>1, <2>2
<1> QED BY <1>1, <1>3, <1>5 DEF p

\* A list with all that was recorded stays so, and one that was overtaken stays overtaken.
LEMMA NewsStay ==
    ASSUME NEW list,
           \A c \in Channels : (db'[c] = db[c] /\ (Reaches(c) => Reaches(c)')) \/ Reaches(c)'
    PROVE  Fresh(list) => Fresh(list)'
BY DEF Fresh

LEMMA InitLInv == Init => LInv
<1> SUFFICES ASSUME Init PROVE LInv
  OBVIOUS
<1> USE DEF Init
<1>1. Unclicked \in ClickTypes /\ Unclicked.pc = "new" /\ Unclicked.run = "no"
  BY DEF Unclicked, ClickTypes
<1>2. db \in Lists /\ \A c \in Channels : db[c].v = 1 /\ best[c] = 0 /\ lost[c] = 0
  BY DEF Lists, Cells
<1>3. wire \in Seq(Msgs) /\ Sent = {}
  BY DEF Sent
<1>4. Types
  <2>1. best \in [Channels -> Nat] /\ lost \in [Channels -> Nat]
    OBVIOUS
  <2>4. caught \in BOOLEAN /\ early \in BOOLEAN
    OBVIOUS
  <2>3. drops \in 0..MaxDrops
    BY LiveAssumption
  <2>2. click \in [Clicks -> ClickTypes] /\ snap \in Reads /\ fetch \in Reads
    BY <1>1, Kinds
  <2> QED BY <1>2, <1>3, <2>1, <2>2, <2>3, <2>4 DEF Types
<1>5. Numbered
  BY <1>1, <1>2, <1>3, LiveAssumption, Kinds DEF Numbered
<1> QED BY <1>3, <1>4, <1>5, Kinds DEF LInv, Opening, NoGap

-----------------------------------------------------------------------------
(* The backend.                                                            *)

\* A recorded state is announced at once.
LEMMA RecordsKeeps ==
    ASSUME LInv, NEW c \in Channels, NEW on \in BOOLEAN, Records(c, on),
           UNCHANGED <<status, wire, snap, fetch, view, best, lost, early, caught, drops>>,
           click' \in [Clicks -> ClickTypes],
           \A k \in Clicks : /\ click'[k].c = click[k].c /\ click'[k].prev = click[k].prev
                             /\ click'[k].pc = click[k].pc
                             /\ click'[k].run = "yes" => click[k].run = "yes"
    PROVE  LInv'
<1> DEFINE m == [kind |-> "event", c |-> c, on |-> on, v |-> db[c].v + 1]
           cell == [on |-> on, v |-> db[c].v + 1]
<1> USE DEF LInv
<1>1. /\ db[c].v < MaxChanges /\ db[c].v \in Nat
      /\ db' = [db EXCEPT ![c] = cell] /\ casts' = casts \cup {m}
  BY DEF Records, Types, Lists, Cells
<1>2. cell \in Cells /\ cell.v = db[c].v + 1 /\ m \in Events /\ m.c = c /\ m.v = db[c].v + 1
  BY <1>1 DEF Cells, Events
<1> HIDE DEF cell, m
<1>3. /\ db' \in Lists /\ db'[c].v = db[c].v + 1
      /\ \A d \in Channels \ {c} : db'[d] = db[d]
  BY <1>1, <1>2 DEF Types, Lists
<1>4. Types'
  BY <1>1, <1>2, <1>3 DEF Types
<1>5. \A d \in Channels : /\ db[d].v \in Nat /\ best[d] \in Nat /\ lost[d] \in Nat
                          /\ db'[d].v \in Nat /\ db[d].v <= db'[d].v
  <2>1. \A d \in Channels : db[d].v \in Nat /\ best[d] \in Nat /\ lost[d] \in Nat
    BY DEF Types, Lists, Cells
  <2>2. db'[c].v \in Nat /\ db[c].v <= db'[c].v
    BY <1>3, <2>1
  <2> QED BY <1>3, <2>1, <2>2
<1>6. \A list \in Lists : Known(list) => Known(list)'
  <2>1. TAKE list \in Lists
  <2>2. \A d \in Channels : list[d].v \in Nat
    BY DEF Lists, Cells
  <2> QED BY <1>5, <2>2 DEF Known
<1>7. \A e \in Events \cup Snapshots : e \in (casts \cup Sent)' => e \in casts \cup Sent \/ e = m
  BY <1>1 DEF Sent
<1>8. Numbered'
  <2>1. \A d \in Channels : /\ db'[d].v \in 1..MaxChanges
                            /\ best[d] \in 0..db'[d].v /\ lost[d] \in 0..db'[d].v
    BY <1>1, <1>3, <1>5, LiveAssumption DEF Numbered
  <2>2. ASSUME NEW e \in Events, e \in (casts \cup Sent)' PROVE e.v <= db'[e.c].v
    <3>1. CASE e = m
      BY <1>2, <1>3, <1>1, <3>1
    <3>2. CASE e # m
      <4>1. e.v <= db[e.c].v /\ e.c \in Channels /\ e.v \in Nat
        BY <1>7, <2>2, <3>2 DEF Numbered, Events
      <4> QED BY <1>5, <4>1
    <3> QED BY <3>1, <3>2
  <2>3. \A e \in Snapshots : e \in Sent' => Known(e.list)'
    BY <1>6 DEF Numbered, Sent, Snapshots
  <2>4. (snap.st = "read" => Known(snap.list)') /\ (fetch.st = "read" => Known(fetch.list)')
    BY <1>6, Kinds DEF Numbered, Types
  <2> QED BY <2>1, <2>2, <2>3, <2>4 DEF Numbered
<1>9. Reaches(c)' /\ \A d \in Channels : d # c => db'[d] = db[d] /\ (Reaches(d) => Reaches(d)')
  <2>1. Waiting(c)'
    BY <1>1, <1>2, <1>3 DEF Waiting
  <2>2. \A d \in Channels : d # c => (Waiting(d) => Waiting(d)')
    BY <1>1, <1>3 DEF Waiting, Sent
  <2> QED BY <1>3, <2>1, <2>2 DEF Reaches
<1>10. \A list : Fresh(list) => Fresh(list)'
  BY <1>9, NewsStay
<1>11. NoGap'
  BY <1>9, <1>10 DEF NoGap, Sent, Connected
<1>12. Opening'
  BY DEF Opening, Connected
<1> QED BY <1>4, <1>8, <1>11, <1>12

\* An event reaches whoever is connected.
LEMMA CastKeeps ==
    ASSUME LInv, NEW m \in casts, Cast(m)
    PROVE  LInv'
<1> USE DEF LInv
<1>1. /\ casts' = casts \ {m} /\ wire' = IF Connected THEN Append(wire, m) ELSE wire
      /\ UNCHANGED <<db, status, snap, fetch, view, click, best, lost, early, caught, drops>>
      /\ m \in Events /\ m \in Msgs /\ wire \in Seq(Msgs) /\ Len(wire) \in Nat
  BY Kinds DEF Cast, screen, Types
<1>2. CASE Connected
  <2>1. /\ wire' \in Seq(Msgs) /\ wire' # <<>> /\ Sent' = Sent \cup {m}
        /\ Len(wire') = Len(wire) + 1
        /\ \A i \in 1..Len(wire) : wire'[i] = wire[i]
        /\ wire'[Len(wire) + 1] = m
    BY <1>1, <1>2, SentBy DEF Sent
  <2>2. /\ (casts \cup Sent)' = casts \cup Sent
        /\ \A e \in Snapshots : e \in Sent' => e \in Sent
    BY <1>1, <2>1, Kinds
  <2>3. Types'
    BY <1>1, <2>1 DEF Types
  <2>4. Numbered'
    BY <1>1, <2>2 DEF Numbered, Known
  <2>5. Opening'
    <3>1. wire = <<>> => status = "live"
      BY <1>2 DEF Connected
    <3>2. \A i \in 1..Len(wire') : i \in 1..Len(wire) \/ i = Len(wire) + 1
      BY <1>1, <2>1
    <3>3. wire # <<>> => Len(wire) # 0
      BY <1>1
    <3>4. Connected'
      BY <2>1 DEF Connected
    <3> QED BY <1>1, <2>1, <3>1, <3>2, <3>3, <3>4, Kinds DEF Opening
  <2>6. \A c \in Channels : Reaches(c) => Reaches(c)'
    BY <1>1, <2>2 DEF Reaches, Waiting
  <2>7. \A list : Fresh(list) => Fresh(list)'
    BY <1>1, <2>6, NewsStay
  <2> QED BY <1>1, <1>2, <2>2, <2>3, <2>4, <2>5, <2>6, <2>7 DEF NoGap
<1>3. CASE ~Connected
  <2>1. wire = <<>> /\ status # "live" /\ UNCHANGED wire /\ snap.st # "read" /\ Sent = {} /\ Sent' = {}
    BY <1>1, <1>3, Kinds DEF Connected, Opening, Sent
  <2>2. Types' /\ Opening'
    BY <1>1, <2>1 DEF Types, Opening, Connected
  <2>3. Numbered'
    BY <1>1, <2>1 DEF Numbered, Known
  <2>4. ~Connected'
    BY <1>1, <2>1 DEF Connected
  <2> QED BY <1>1, <2>1, <2>2, <2>3, <2>4 DEF NoGap
<1> QED BY <1>2, <1>3

-----------------------------------------------------------------------------
(* The connection.                                                         *)

LEMMA ConnectKeeps ==
    ASSUME LInv, Connect
    PROVE  LInv'
<1> USE DEF LInv
<1>1. /\ ~Connected /\ wire' = <<Open>> /\ snap' = Asked
      /\ UNCHANGED <<db, casts, status, fetch, view, click, best, lost, drops>>
      /\ status # "live"
  BY DEF Connect, Open, backend, screen, Connected
<1>8. caught' = FALSE /\ early' \in BOOLEAN /\ (fetch.st = "read" => early')
  BY ZenonT(20) DEF Connect
<1>2. wire' \in Seq(Msgs) /\ Len(wire') = 1 /\ wire'[1] = Open /\ wire' # <<>> /\ Sent' = {Open}
  BY <1>1, Kinds DEF Sent
<1>3. \A m \in Events \cup Snapshots : m \in Sent' => FALSE
  BY <1>2, Kinds
<1>4. Types'
  BY <1>1, <1>2, <1>8, Kinds DEF Types
<1>5. Numbered'
  BY <1>1, <1>3, Kinds DEF Numbered, Known
<1>6. Opening'
  <2>1. \A i \in 1..Len(wire') : i = 1 /\ wire'[i].kind = "open"
    BY <1>2, Kinds
  <2>2. Connected' /\ status' # "live" /\ ~caught'
    BY <1>1, <1>2, <1>8 DEF Connected
  <2> QED BY <1>1, <2>1, <2>2 DEF Opening
<1>7. NoGap'
  BY <1>1, <1>3, <1>8, Kinds DEF NoGap
<1> QED BY <1>4, <1>5, <1>6, <1>7

LEMMA ConnectFailsKeeps ==
    ASSUME LInv, ConnectFails
    PROVE  LInv'
<1> USE DEF LInv
<1>1. /\ ~Connected /\ status' = "offline"
      /\ UNCHANGED <<db, casts, wire, snap, fetch, view, click, best, lost, early, caught, drops>>
  BY DEF ConnectFails, backend, screen
<1>2. wire = <<>> /\ wire \in Seq(Msgs) /\ Len(wire) = 0 /\ snap = None /\ Sent = {} /\ Sent' = {}
  BY <1>1 DEF Connected, Opening, Types, Sent
<1>3. Types'
  BY <1>1 DEF Types
<1>4. Numbered'
  BY <1>1, <1>2 DEF Numbered, Known
<1> QED BY <1>1, <1>2, <1>3, <1>4, Kinds DEF Opening, NoGap, Connected

LEMMA ReadSnapshotKeeps ==
    ASSUME LInv, ReadSnapshot
    PROVE  LInv'
<1> USE DEF LInv
<1>1. /\ snap = Asked /\ snap' \in {Read(db), None}
      /\ UNCHANGED <<db, casts, status, wire, fetch, view, click, best, lost, early, caught, drops>>
      /\ Sent' = Sent /\ db \in Lists
  BY DEF ReadSnapshot, backend, screen, Types, Sent
<1>2. Known(db)' /\ Fresh(db)'
  BY <1>1 DEF Known, Fresh, Types, Lists, Cells
<1>3. snap' = None \/ (snap' = Read(db) /\ snap'.list = db)
  BY <1>1, Kinds
<1>4. Types'
  BY <1>1, Kinds DEF Types
<1>5. Numbered'
  BY <1>1, <1>2, <1>3, Kinds DEF Numbered, Known
<1>6. Opening'
  BY <1>1, <1>3, Kinds DEF Opening, Connected
<1>7. \A c : Reaches(c)' <=> Reaches(c)
  BY <1>1 DEF Reaches, Waiting
<1>8. NoGap'
  BY <1>1, <1>2, <1>3, <1>7, Kinds DEF NoGap, Fresh, Connected
<1> QED BY <1>4, <1>5, <1>6, <1>8

LEMMA SendSnapshotKeeps ==
    ASSUME LInv, SendSnapshot
    PROVE  LInv'
<1> USE DEF LInv
<1> DEFINE m == [kind |-> "snapshot", list |-> snap.list]
<1>1. /\ snap.st = "read" /\ snap' = None /\ wire' = Append(wire, m)
      /\ UNCHANGED <<db, casts, status, fetch, view, click, best, lost, early, caught, drops>>
      /\ snap.list \in Lists /\ wire \in Seq(Msgs) /\ Len(wire) \in Nat
  BY Kinds DEF SendSnapshot, backend, screen, Types
<1>2. m \in Snapshots /\ m.list = snap.list
  BY <1>1 DEF Snapshots
<1> HIDE DEF m
<1>3. /\ wire' \in Seq(Msgs) /\ wire' # <<>> /\ Sent' = Sent \cup {m}
      /\ Len(wire') = Len(wire) + 1
      /\ \A i \in 1..Len(wire) : wire'[i] = wire[i]
      /\ wire'[Len(wire) + 1] = m
  BY <1>1, <1>2, SentBy, Kinds DEF Sent
<1>4. Known(m.list) /\ Fresh(m.list) /\ Connected
  BY <1>1, <1>2, Kinds DEF Numbered, NoGap, Opening
<1>5. /\ \A e \in Events : e \in Sent' <=> e \in Sent
      /\ \A e \in Snapshots : e \in Sent' => e \in Sent \/ e = m
  BY <1>2, <1>3, Kinds
<1>6. Types'
  BY <1>1, <1>3, Kinds DEF Types
<1>7. Numbered'
  BY <1>1, <1>4, <1>5, Kinds DEF Numbered, Known
<1>8. Opening'
  <2>1. wire = <<>> => status = "live"
    BY <1>4 DEF Connected
  <2>2. \A i \in 1..Len(wire') : i \in 1..Len(wire) \/ i = Len(wire) + 1
    BY <1>1, <1>3
  <2>3. wire # <<>> => Len(wire) # 0
    BY <1>1
  <2> QED BY <1>1, <1>2, <1>3, <2>1, <2>2, <2>3, Kinds DEF Opening
<1>9. \A c : Reaches(c)' <=> Reaches(c)
  BY <1>1, <1>5 DEF Reaches, Waiting
<1>10. NoGap'
  BY <1>1, <1>4, <1>5, <1>9, Kinds DEF NoGap, Fresh
<1> QED BY <1>6, <1>7, <1>8, <1>10

LEMMA OnOpenKeeps ==
    ASSUME LInv, OnOpen
    PROVE  LInv'
<1> USE DEF LInv
<1>1. /\ wire # <<>> /\ Head(wire).kind = "open" /\ wire' = Tail(wire)
      /\ status' = "live" /\ fetch' \in {fetch, Asked}
      /\ UNCHANGED <<db, casts, snap, view, click, best, lost, early, caught, drops>>
      /\ wire \in Seq(Msgs)
  BY DEF OnOpen, backend, screen, Types
<1>2. /\ wire' \in Seq(Msgs) /\ Len(wire') = Len(wire) - 1 /\ Len(wire) \in Nat \ {0}
      /\ Head(wire) = wire[1] /\ Head(wire) \in Msgs
      /\ \A i \in 1..Len(wire') : wire'[i] = wire[i + 1] /\ i + 1 \in 1..Len(wire)
      /\ Sent = Sent' \cup {Head(wire)}
  <2> DEFINE p == Tail(wire)
  <2>1. /\ p \in Seq(Msgs) /\ Len(p) = Len(wire) - 1 /\ Len(wire) \in Nat \ {0}
        /\ Head(wire) = wire[1] /\ Head(wire) \in Msgs
        /\ \A i \in 1..Len(p) : p[i] = wire[i + 1] /\ i + 1 \in 1..Len(wire)
        /\ {wire[i] : i \in 1..Len(wire)} = {p[i] : i \in 1..Len(p)} \cup {Head(wire)}
    BY <1>1, TakenFrom
  <2>2. wire' = p
    BY <1>1
  <2> HIDE DEF p
  <2> QED BY <2>1, <2>2 DEF Sent
<1>3. \A m \in Events \cup Snapshots : m \in Sent' <=> m \in Sent
  BY <1>1, <1>2, Kinds
<1>4. status # "live" /\ ~caught
  BY <1>1, <1>2 DEF Opening
<1>5. Types'
  BY <1>1, <1>2, Kinds DEF Types
<1>6. Numbered'
  BY <1>1, <1>3, Kinds DEF Numbered, Known
<1>7. Opening'
  BY <1>1, <1>2 DEF Opening, Connected
<1>8. \A c : Reaches(c)' <=> Reaches(c)
  BY <1>1, <1>3 DEF Reaches, Waiting
<1>9. NoGap'
  BY <1>1, <1>3, <1>4, <1>8, Kinds DEF NoGap, Fresh, Connected
<1> QED BY <1>5, <1>6, <1>7, <1>9

LEMMA OnCloseKeeps ==
    ASSUME LInv, OnClose
    PROVE  LInv'
<1> USE DEF LInv
<1>1. /\ wire' = <<>> /\ snap' = None /\ status' = "offline"
      /\ drops < MaxDrops /\ drops' = drops + 1
      /\ UNCHANGED <<db, casts, fetch, view, click, best, lost, early, caught>>
  BY DEF OnClose, backend, screen
<1>2. wire' \in Seq(Msgs) /\ Sent' = {} /\ Len(wire') = 0
  BY <1>1 DEF Sent
<1>3. drops' \in 0..MaxDrops
  BY <1>1, LiveAssumption DEF Types
<1>4. Types'
  BY <1>1, <1>2, <1>3, Kinds DEF Types
<1>5. Numbered'
  BY <1>1, <1>2, Kinds DEF Numbered, Known
<1> QED BY <1>1, <1>2, <1>4, <1>5, Kinds DEF Opening, NoGap, Connected

-----------------------------------------------------------------------------
(* What the dashboard writes to its list.                                  *)

LEMMA MaxIs ==
    ASSUME NEW a \in Nat, NEW b \in Nat
    PROVE  /\ Max2(a, b) \in Nat /\ a <= Max2(a, b) /\ b <= Max2(a, b)
           /\ \A n \in Nat : a <= n /\ b <= n => Max2(a, b) <= n
BY DEF Max2

\* What the dashboard shows, and has shown, only moves on.
Advances ==
    /\ view' \in Lists \cup {NoList} /\ best' \in [Channels -> Nat] /\ lost' \in [Channels -> Nat]
    /\ \A d \in Channels : /\ best[d] <= best'[d] /\ best'[d] \in 0..db[d].v
                            /\ lost[d] <= lost'[d] /\ lost'[d] \in 0..db[d].v
    /\ view' # NoList => \A d \in Channels : view'[d].v <= best'[d]

LEMMA Marked ==
    ASSUME Types, NEW f \in [Channels -> Nat], \A d \in Channels : f[d] \in 0..db[d].v,
           NEW c \in Channels, NEW n \in 0..db[c].v, NEW g, g = [f EXCEPT ![c] = Max2(@, n)]
    PROVE  /\ g \in [Channels -> Nat] /\ n <= g[c]
           /\ \A d \in Channels : f[d] <= g[d] /\ g[d] \in 0..db[d].v
<1> DEFINE b == Max2(f[c], n)
<1>1. /\ n \in Nat /\ n <= db[c].v
      /\ \A d \in Channels : f[d] \in Nat /\ db[d].v \in Nat /\ f[d] <= db[d].v
  BY DEF Types, Lists, Cells
<1>2. b \in Nat /\ f[c] <= b /\ n <= b /\ b <= db[c].v
  BY <1>1, MaxIs
<1>3. g[c] = b /\ g \in [Channels -> Nat] /\ \A d \in Channels \ {c} : g[d] = f[d]
  BY <1>2
<1> HIDE DEF b
<1> QED BY <1>1, <1>2, <1>3

LEMMA PatchIs ==
    ASSUME Types, Numbered, NEW c \in Channels, NEW cell \in Cells, Patch(c, cell), cell.v <= db[c].v
    PROVE  Advances /\ (cell.v <= best'[c] \/ cell.v <= lost'[c])
<1>1. /\ best \in [Channels -> Nat] /\ lost \in [Channels -> Nat] /\ view \in Lists \cup {NoList}
      /\ cell.v \in 0..db[c].v
      /\ \A d \in Channels : /\ best[d] \in 0..db[d].v /\ lost[d] \in 0..db[d].v
                              /\ best[d] \in Nat /\ lost[d] \in Nat
  BY DEF Types, Lists, Cells, Numbered
<1>2. CASE view # NoList
  <2>1. /\ view' = [view EXCEPT ![c] = cell] /\ best' = [best EXCEPT ![c] = Max2(@, cell.v)]
        /\ lost' = lost /\ view \in Lists
    BY <1>1, <1>2 DEF Patch
  <2>2. view' \in Lists /\ view'[c] = cell /\ \A d \in Channels \ {c} : view'[d] = view[d]
    BY <2>1 DEF Lists
  <2> DEFINE b == best'
  <2>5. b = [best EXCEPT ![c] = Max2(@, cell.v)]
    BY <2>1
  <2>3. /\ best' \in [Channels -> Nat] /\ cell.v <= best'[c]
        /\ \A d \in Channels : best[d] <= best'[d] /\ best'[d] \in 0..db[d].v
    BY <1>1, <2>5, Marked
  <2>4. ASSUME NEW d \in Channels PROVE view'[d].v <= best'[d]
    <3>1. CASE d = c
      BY <2>2, <2>3, <3>1
    <3>2. CASE d # c
      <4>1. /\ view[d].v \in Nat /\ best[d] \in Nat /\ best'[d] \in Nat
            /\ view[d].v <= best[d] /\ best[d] <= best'[d]
        BY <1>2, <2>1, <2>3 DEF Numbered, Lists, Cells, Types
      <4> QED BY <2>2, <3>2, <4>1
    <3> QED BY <3>1, <3>2
  <2> QED BY <1>1, <2>1, <2>2, <2>3, <2>4 DEF Advances
<1>3. CASE view = NoList
  <2>1. /\ UNCHANGED <<view, best>> /\ lost' = [lost EXCEPT ![c] = Max2(@, cell.v)]
    BY <1>3 DEF Patch
  <2> DEFINE b == lost'
  <2>3. b = [lost EXCEPT ![c] = Max2(@, cell.v)]
    BY <2>1
  <2>2. /\ lost' \in [Channels -> Nat] /\ cell.v <= lost'[c]
        /\ \A d \in Channels : lost[d] <= lost'[d] /\ lost'[d] \in 0..db[d].v
    BY <1>1, <2>3, Marked
  <2> QED BY <1>1, <1>3, <2>1, <2>2 DEF Advances
<1> QED BY <1>2, <1>3

LEMMA ReplaceIs ==
    ASSUME Types, Numbered, NEW list \in Lists, Replace(list), Known(list)
    PROVE  Advances /\ \A d \in Channels : list[d].v <= best'[d]
<1>1. view' = list /\ best' = [c \in Channels |-> Max2(best[c], list[c].v)] /\ lost' = lost
  BY DEF Replace
<1>2. \A d \in Channels : /\ best[d] \in Nat /\ db[d].v \in Nat /\ list[d].v \in Nat /\ lost[d] \in Nat
                          /\ best[d] \in 0..db[d].v /\ list[d].v <= db[d].v /\ lost[d] \in 0..db[d].v
  BY DEF Types, Lists, Cells, Numbered, Known
<1>3. \A d \in Channels : /\ Max2(best[d], list[d].v) \in Nat
                          /\ best[d] <= Max2(best[d], list[d].v) /\ list[d].v <= Max2(best[d], list[d].v)
                          /\ Max2(best[d], list[d].v) <= db[d].v
  <2>1. TAKE d \in Channels
  <2>2. best[d] \in Nat /\ list[d].v \in Nat /\ db[d].v \in Nat /\ best[d] <= db[d].v /\ list[d].v <= db[d].v
    BY <1>2
  <2> QED BY <2>2, MaxIs
<1>4. \A d \in Channels : best'[d] = Max2(best[d], list[d].v)
  BY <1>1
<1>5. best' \in [Channels -> Nat]
  BY <1>1, <1>3
<1>6. \A d \in Channels : best[d] <= best'[d] /\ best'[d] \in 0..db[d].v /\ list[d].v <= best'[d]
  <2>1. TAKE d \in Channels
  <2> QED BY <1>2, <1>3, <1>4
<1> QED BY <1>1, <1>2, <1>5, <1>6 DEF Advances, Types

\* What the dashboard shows moves on, and only it.
LEMMA ShownKeeps ==
    ASSUME LInv, UNCHANGED <<db, casts, status, snap, early, drops>>, Advances, caught' \in BOOLEAN,
           fetch' = fetch \/ fetch'= None, click' \in [Clicks -> ClickTypes],
           \A k \in Clicks : click'[k].pc = "sent" \/ click'[k].run = "yes" => click'[k].c \in Channels,
           \A k \in Clicks : click'[k].pc = "sent" =>
               click'[k].prev \in Lists /\ \A d \in Channels : click'[k].prev[d].v <= best[d],
           wire' \in Seq(Msgs), Opening', Connected' => Connected,
           \A m \in Snapshots : m \in Sent' => m \in Sent,
           \A m \in Events : m \in Sent' => m \in Sent,
           \A m \in Events : m \in Sent => m \in Sent' \/ m.v <= best'[m.c] \/ m.v <= lost'[m.c],
           status = "live" /\ caught' => \A c \in Channels : best'[c] = db[c].v \/ Reaches(c)
    PROVE  LInv'
<1> USE DEF LInv
<1>1. Types'
  BY Kinds DEF Types, Advances
<1>2. /\ \A c \in Channels : /\ best[c] \in Nat /\ best'[c] \in Nat /\ db[c].v \in Nat
                              /\ lost[c] \in Nat /\ lost'[c] \in Nat
                              /\ best[c] <= best'[c] /\ best'[c] <= db[c].v
                              /\ lost[c] <= lost'[c] /\ lost'[c] <= db[c].v
      /\ \A k \in Clicks : click'[k].pc = "sent" =>
             click'[k].prev \in Lists /\ \A d \in Channels : click'[k].prev[d].v \in Nat
  BY DEF Types, Lists, Cells, Advances
<1>3. \A list : Known(list) <=> Known(list)'
  BY DEF Known
<1>4. Numbered'
  <2>1. \A c \in Channels : db[c].v \in 1..MaxChanges /\ best'[c] \in 0..db[c].v /\ lost'[c] \in 0..db[c].v
    BY DEF Numbered, Advances
  <2>6. view' # NoList => \A c \in Channels : view'[c].v <= best'[c]
    BY DEF Advances
  <2>2. ASSUME NEW k \in Clicks, click'[k].pc = "sent", NEW d \in Channels
        PROVE  click'[k].prev[d].v <= best'[d]
    <3>1. /\ click'[k].prev[d].v \in Nat /\ best[d] \in Nat /\ best'[d] \in Nat
          /\ click'[k].prev[d].v <= best[d] /\ best[d] <= best'[d]
      BY <1>2, <2>2
    <3> QED BY <3>1
  <2>3. \A m \in Events : m \in (casts \cup Sent)' => m.v <= db'[m.c].v
    BY DEF Numbered
  <2>4. \A m \in Snapshots : m \in Sent' => Known(m.list)'
    BY <1>3 DEF Numbered
  <2>5. (snap.st = "read" => Known(snap.list))' /\ (fetch.st = "read" => Known(fetch.list))'
    BY <1>3, Kinds DEF Numbered
  <2> QED BY <2>1, <2>2, <2>3, <2>4, <2>5, <2>6 DEF Numbered
<1>5. ASSUME NEW c \in Channels, Reaches(c) PROVE Reaches(c)'
  <2>1. /\ best[c] \in Nat /\ best'[c] \in Nat /\ db[c].v \in Nat /\ best'[c] <= db[c].v /\ best[c] <= best'[c]
        /\ lost[c] \in Nat /\ lost'[c] \in Nat /\ lost'[c] <= db[c].v /\ lost[c] <= lost'[c]
    BY <1>2
  <2>2. CASE best[c] = db[c].v \/ lost[c] = db[c].v
    BY <2>1, <2>2 DEF Reaches
  <2>3. CASE ~(best[c] = db[c].v \/ lost[c] = db[c].v)
    <3>1. PICK m \in Events : m.c = c /\ m.v = db[c].v /\ m \in casts \cup Sent
      BY <1>5, <2>3 DEF Reaches, Waiting
    <3>2. m \in (casts \cup Sent)' \/ best'[c] = db[c].v \/ lost'[c] = db[c].v
      BY <2>1, <3>1
    <3> QED BY <3>1, <3>2 DEF Reaches, Waiting
  <2> QED BY <2>2, <2>3
<1>6. \A list : Fresh(list) => Fresh(list)'
  BY <1>5, NewsStay
<1>7. \A c \in Channels : best'[c] = db[c].v => Reaches(c)'
  BY DEF Reaches
<1>8. NoGap'
  BY <1>5, <1>6, <1>7, Kinds DEF NoGap
<1> QED BY <1>1, <1>4, <1>8

LEMMA OnMessageKeeps ==
    ASSUME LInv, OnMessage
    PROVE  LInv'
<1> USE DEF LInv
<1> DEFINE m == Head(wire)
<1>1. /\ wire # <<>> /\ wire' = Tail(wire) /\ wire \in Seq(Msgs)
      /\ UNCHANGED <<db, casts, status, snap, fetch, click, early, drops>>
      /\ m.kind = "event" \/ m.kind = "snapshot"
  BY DEF OnMessage, backend, Types
<1>2. /\ wire' \in Seq(Msgs) /\ Len(wire') = Len(wire) - 1 /\ Len(wire) \in Nat \ {0}
      /\ m = wire[1] /\ m \in Msgs
      /\ \A i \in 1..Len(wire') : wire'[i] = wire[i + 1] /\ i + 1 \in 1..Len(wire)
      /\ Sent = Sent' \cup {m}
  <2> DEFINE p == Tail(wire)
  <2>1. /\ p \in Seq(Msgs) /\ Len(p) = Len(wire) - 1 /\ Len(wire) \in Nat \ {0}
        /\ m = wire[1] /\ m \in Msgs
        /\ \A i \in 1..Len(p) : p[i] = wire[i + 1] /\ i + 1 \in 1..Len(wire)
        /\ {wire[i] : i \in 1..Len(wire)} = {p[i] : i \in 1..Len(p)} \cup {m}
    BY <1>1, TakenFrom
  <2>2. wire' = p
    BY <1>1
  <2> HIDE DEF p, m
  <2> QED BY <2>1, <2>2 DEF Sent
<1>3. \/ m.kind = "event" /\ Patch(m.c, [on |-> m.on, v |-> m.v]) /\ UNCHANGED caught
      \/ m.kind = "snapshot" /\ Replace(m.list) /\ caught' = TRUE
  BY DEF OnMessage
<1> HIDE DEF m
<1>4. status = "live" /\ m \in Sent
  BY <1>1, <1>2 DEF Opening
<1>5. Opening' /\ Connected
  BY <1>1, <1>2, <1>4 DEF Opening, Connected
<1>6. /\ \A e \in Msgs : e \in Sent' => e \in Sent
      /\ \A e \in Msgs : e \in Sent => e \in Sent' \/ e = m
  BY <1>2
<1>7. CASE m.kind = "event"
  <2> DEFINE cell == [on |-> m.on, v |-> m.v]
  <2>1. /\ m \in Events /\ m.c \in Channels /\ m.v \in Nat /\ m.on \in BOOLEAN
        /\ Patch(m.c, cell) /\ UNCHANGED caught
    BY <1>2, <1>3, <1>7, Kinds DEF Msgs, Events
  <2>2. cell \in Cells /\ cell.v = m.v /\ cell.v <= db[m.c].v
    BY <1>4, <2>1 DEF Cells, Numbered
  <2> HIDE DEF cell
  <2>3. Advances /\ (m.v <= best'[m.c] \/ m.v <= lost'[m.c])
    BY <2>1, <2>2, PatchIs
  <2> QED BY <1>1, <1>2, <1>5, <1>6, <2>1, <2>3, ShownKeeps, Kinds DEF Types, Numbered, NoGap
<1>8. CASE m.kind = "snapshot"
  <2>1. m \in Snapshots /\ m.list \in Lists /\ Replace(m.list)
    BY <1>2, <1>3, <1>8, Kinds DEF Msgs, Snapshots
  <2>2. Known(m.list) /\ Fresh(m.list)
    BY <1>4, <2>1 DEF Numbered, NoGap
  <2> DEFINE l == m.list
  <2> HIDE DEF l
  <2>3. Advances /\ \A d \in Channels : l[d].v <= best'[d]
    BY <2>1, <2>2, ReplaceIs DEF l
  <2>7. caught' \in BOOLEAN
    BY <1>3, <1>8
  <2>4. \A e \in Events : e # m
    BY <2>1, Kinds
  <2>6. \A c \in Channels : best'[c] = db[c].v \/ Reaches(c)
    <3>1. TAKE c \in Channels
    <3>2. /\ best'[c] \in Nat /\ db[c].v \in Nat /\ best'[c] <= db[c].v /\ l[c].v <= best'[c]
          /\ l[c].v \in Nat
      BY <2>1, <2>3 DEF Types, Lists, Cells, l, Advances
    <3>3. l[c].v = db[c].v \/ Reaches(c)
      BY <2>2 DEF Fresh, l
    <3> QED BY <3>2, <3>3
  <2> QED BY <1>1, <1>2, <1>5, <1>6, <2>3, <2>4, <2>6, <2>7, ShownKeeps, Kinds DEF Types, Numbered, NoGap
<1> QED BY <1>1, <1>7, <1>8

LEMMA FetchArrivesKeeps ==
    ASSUME LInv, FetchArrives
    PROVE  LInv'
<1> USE DEF LInv
<1> DEFINE l == fetch.list
<1>1. /\ fetch.st = "read" /\ fetch' = None /\ Replace(l) /\ l \in Lists
      /\ UNCHANGED <<db, casts, status, wire, snap, click, early, drops>>
  BY Kinds DEF FetchArrives, backend, connection, Types
<1>2. Known(l) /\ (status = "live" /\ ~early => Fresh(l))
  BY <1>1 DEF Numbered, NoGap, Connected
<1>6. caught' \in BOOLEAN /\ caught' = (caught \/ (status = "live" /\ ~early))
  BY DEF FetchArrives
<1> HIDE DEF l
<1>3. Advances /\ \A d \in Channels : l[d].v <= best'[d]
  BY <1>1, <1>2, ReplaceIs
<1>4. status = "live" /\ caught' => \A c \in Channels : best'[c] = db[c].v \/ Reaches(c)
  <2>1. SUFFICES ASSUME status = "live", ~caught, caught', NEW c \in Channels
                 PROVE  best'[c] = db[c].v \/ Reaches(c)
    BY DEF NoGap
  <2>4. ~early
    BY <1>6, <2>1
  <2>2. /\ best'[c] \in Nat /\ db[c].v \in Nat /\ best'[c] <= db[c].v /\ l[c].v <= best'[c]
        /\ l[c].v \in Nat
    BY <1>1, <1>3 DEF Types, Lists, Cells, Advances
  <2>3. l[c].v = db[c].v \/ Reaches(c)
    BY <1>2, <2>1, <2>4 DEF Fresh
  <2> QED BY <2>2, <2>3
<1>5. Opening' /\ Sent' = Sent
  <2>1. caught' => caught \/ status = "live"
    BY <1>6
  <2> QED BY <1>1, <2>1 DEF Opening, Connected, Sent
<1> QED BY <1>1, <1>3, <1>4, <1>5, <1>6, ShownKeeps DEF Types, Numbered, Connected

\* A request moves on, and nothing else.
LEMMA AskedKeeps ==
    ASSUME LInv, UNCHANGED <<backend, connection, screen, caught, drops>>,
           click' \in [Clicks -> ClickTypes],
           \A k \in Clicks : /\ click'[k].c = click[k].c /\ click'[k].prev = click[k].prev
                             /\ click'[k].pc = "sent" => click[k].pc = "sent"
                             /\ click'[k].run = "yes" => click[k].run = "yes",
           fetch' \in {fetch, None, Asked, Read(db)},
           early' \in BOOLEAN, early' = early \/ fetch' = Read(db)
    PROVE  LInv'
<1> USE DEF LInv
<1>1. UNCHANGED <<db, casts, status, wire, snap, view, best, lost, caught, drops>> /\ Sent' = Sent /\ db \in Lists
  BY DEF backend, connection, screen, Sent, Types
<1>2. Known(db)' /\ Fresh(db)'
  BY <1>1 DEF Known, Fresh, Types, Lists, Cells
<1>3. fetch' \in {fetch, None, Asked} \/ (fetch' = Read(db) /\ fetch'.list = db)
  BY <1>1, Kinds
<1>4. Types'
  BY <1>1, Kinds DEF Types
<1>5. Numbered'
  BY <1>1, <1>2, <1>3, Kinds DEF Numbered, Known
<1>6. \A c : Reaches(c)' <=> Reaches(c)
  BY <1>1 DEF Reaches, Waiting
<1>7. NoGap'
  BY <1>1, <1>2, <1>3, <1>6, Kinds DEF NoGap, Fresh, Connected
<1> QED BY <1>1, <1>4, <1>5, <1>7 DEF Opening, Connected

LEMMA ClickKeeps ==
    ASSUME LInv, NEW k \in Clicks, NEW c \in Channels, Click(k, c)
    PROVE  LInv'
<1> USE DEF LInv
<1> DEFINE cell == [on |-> ~view[c].on, v |-> 0]
           r == [pc |-> "sent", c |-> c, on |-> ~view[c].on, prev |-> view, run |-> "yes"]
<1>1. /\ fetch' = None /\ click' = [click EXCEPT ![k] = r] /\ Patch(c, cell)
      /\ UNCHANGED <<db, casts, status, wire, snap, early, caught, drops>> /\ view \in Lists /\ view # NoList
  BY DEF Click, backend, connection, Types
<1>2. /\ cell \in Cells /\ cell.v = 0 /\ 0 <= db[c].v
      /\ r \in ClickTypes /\ r.c = c /\ r.prev = view
  BY <1>1 DEF Cells, ClickTypes, Types, Lists
<1> HIDE DEF cell, r
<1>3. Advances
  BY <1>1, <1>2, PatchIs
<1>4. /\ click' \in [Clicks -> ClickTypes] /\ click'[k] = r
      /\ \A j \in Clicks \ {k} : click'[j] = click[j]
  BY <1>1, <1>2 DEF Types
<1>5. \A j \in Clicks : click'[j].pc = "sent" \/ click'[j].run = "yes" => click'[j].c \in Channels
  BY <1>2, <1>4 DEF Numbered
<1>6. \A j \in Clicks : click'[j].pc = "sent" =>
          click'[j].prev \in Lists /\ \A d \in Channels : click'[j].prev[d].v <= best[d]
  BY <1>1, <1>2, <1>4 DEF Numbered
<1>7. Opening' /\ Sent' = Sent
  BY <1>1 DEF Opening, Connected, Sent
<1>8. Connected' <=> Connected
  BY <1>1 DEF Connected
<1> QED BY <1>1, <1>3, <1>4, <1>5, <1>6, <1>7, <1>8, ShownKeeps DEF Types, Numbered, NoGap

LEMMA ExecuteKeeps ==
    ASSUME LInv, NEW k \in Clicks, Execute(k)
    PROVE  LInv'
<1>1. /\ click[k].run = "yes" /\ click' = [click EXCEPT ![k].run = "no"]
      /\ Records(click[k].c, click[k].on) /\ UNCHANGED <<status, wire, snap, fetch, view, best, lost, early, caught, drops>>
  BY DEF Execute, connection, screen
<1>2. click[k].c \in Channels /\ click[k].on \in BOOLEAN
  BY <1>1 DEF LInv, Types, Numbered, ClickTypes
<1>3. click \in [Clicks -> ClickTypes]
  BY DEF LInv, Types
<1>4. /\ click' \in [Clicks -> ClickTypes]
      /\ \A j \in Clicks : /\ click'[j].c = click[j].c /\ click'[j].prev = click[j].prev
                           /\ click'[j].pc = click[j].pc
                           /\ click'[j].run = "yes" => click[j].run = "yes"
  BY <1>1, <1>3 DEF ClickTypes
<1> QED BY <1>1, <1>2, <1>4, RecordsKeeps

LEMMA SucceedsKeeps ==
    ASSUME LInv, NEW k \in Clicks, Succeeds(k)
    PROVE  LInv'
<1>1. click \in [Clicks -> ClickTypes] /\ click' = [click EXCEPT ![k].pc = "done"]
  BY DEF LInv, Types, Succeeds
<1>2. /\ click' \in [Clicks -> ClickTypes]
      /\ \A j \in Clicks : /\ click'[j].c = click[j].c /\ click'[j].prev = click[j].prev
                           /\ click'[j].pc = "sent" => click[j].pc = "sent"
                           /\ click'[j].run = "yes" => click[j].run = "yes"
  BY <1>1 DEF ClickTypes
<1>3. UNCHANGED <<backend, connection, fetch, screen, early, caught, drops>> /\ early \in BOOLEAN
  BY DEF Succeeds, LInv, Types
<1> QED BY <1>2, <1>3, AskedKeeps

LEMMA FailsKeeps ==
    ASSUME LInv, NEW k \in Clicks, Fails(k)
    PROVE  LInv'
<1>1. click \in [Clicks -> ClickTypes] /\ click[k].pc = "sent"
  BY DEF LInv, Types, Fails
<1>2. /\ click' \in [Clicks -> ClickTypes]
      /\ \A j \in Clicks : /\ click'[j].c = click[j].c /\ click'[j].prev = click[j].prev
                           /\ click'[j].pc = "sent" => click[j].pc = "sent"
                           /\ click'[j].run = "yes" => click[j].run = "yes"
  <2>1. CASE click' = [click EXCEPT ![k].pc = "done", ![k].run = "no"]
    BY <1>1, <2>1 DEF ClickTypes
  <2>2. CASE click' = [click EXCEPT ![k].pc = "done"]
    BY <1>1, <2>2 DEF ClickTypes
  <2> QED BY <2>1, <2>2 DEF Fails
<1>3. /\ UNCHANGED <<db, casts, status, wire, snap, best, lost, early, caught, drops>> /\ view' = click[k].prev
      /\ fetch' \in {fetch, Asked}
  BY DEF Fails, backend, connection
<1>4. view' \in Lists /\ \A d \in Channels : view'[d].v <= best[d]
  BY <1>1, <1>3 DEF LInv, Numbered
<1>5. UNCHANGED Sent
  BY <1>3 DEF Sent
<1>6. Types'
  BY <1>2, <1>3, <1>4, Kinds DEF LInv, Types
<1>7. Numbered'
  <2>4. ASSUME NEW j \in Clicks
        PROVE  /\ click[j].pc = "sent" \/ click[j].run = "yes" => click[j].c \in Channels
               /\ click[j].pc = "sent" =>
                      click[j].prev \in Lists /\ \A c \in Channels : click[j].prev[c].v <= best[c]
    BY DEF LInv, Numbered
  <2>1. \A j \in Clicks : click'[j].pc = "sent" \/ click'[j].run = "yes" => click'[j].c \in Channels
    BY <1>2, <2>4
  <2>2. \A j \in Clicks : click'[j].pc = "sent" =>
            click'[j].prev \in Lists /\ \A c \in Channels : click'[j].prev[c].v <= best[c]
    BY <1>2, <2>4
  <2>3. (fetch.st = "read" => Known(fetch.list))'
    BY <1>3, Kinds DEF LInv, Numbered, Known
  <2> QED BY <1>3, <1>4, <1>5, <2>1, <2>2, <2>3 DEF LInv, Numbered, Known
<1>8. \A c : Reaches(c)' <=> Reaches(c)
  BY <1>3, <1>5 DEF Reaches, Waiting
<1>9. NoGap'
  BY <1>3, <1>5, <1>8, Kinds DEF LInv, NoGap, Fresh, Connected
<1> QED BY <1>3, <1>6, <1>7, <1>9 DEF LInv, Opening, Connected

-----------------------------------------------------------------------------

LEMMA StepLInv == LInv /\ [Next]_vars => LInv'
<1> SUFFICES ASSUME LInv, [Next]_vars PROVE LInv'
  OBVIOUS
<1>1. ASSUME NEW c \in Channels, Change(c) PROVE LInv'
  <2> DEFINE on == ~db[c].on
  <2>1. on \in BOOLEAN
    BY ZenonT(20)
  <2>2. /\ Records(c, on) /\ UNCHANGED <<status, wire, snap, fetch, view, click, best, lost, early, caught, drops>>
        /\ click \in [Clicks -> ClickTypes]
    BY <1>1 DEF Change, connection, screen, LInv, Types
  <2> HIDE DEF on
  <2> QED BY <2>1, <2>2, RecordsKeeps
<1>2. ASSUME NEW k \in Clicks, NEW c \in Channels, Click(k, c) PROVE LInv'
  BY <1>2, ClickKeeps
<1>3. ASSUME NEW m \in casts, Cast(m) PROVE LInv'
  BY <1>3, CastKeeps
<1>4. ASSUME NEW k \in Clicks, Execute(k) \/ Succeeds(k) \/ Fails(k) PROVE LInv'
  BY <1>4, ExecuteKeeps, SucceedsKeeps, FailsKeeps
<1>5. CASE Connect \/ ConnectFails \/ ReadSnapshot \/ SendSnapshot
  BY <1>5, ConnectKeeps, ConnectFailsKeeps, ReadSnapshotKeeps, SendSnapshotKeeps
<1>6. CASE OnOpen \/ OnMessage \/ OnClose
  BY <1>6, OnOpenKeeps, OnMessageKeeps, OnCloseKeeps
<1>7. CASE Poll \/ Focus \/ FetchFails
  BY <1>7, AskedKeeps DEF Poll, Focus, Refetch, FetchFails, LInv, Types
<1>10. CASE ReadFetch
  <2>1. /\ UNCHANGED <<backend, connection, screen, click, caught, drops>> /\ fetch' = Read(db)
        /\ click \in [Clicks -> ClickTypes]
    BY <1>10 DEF ReadFetch, LInv, Types
  <2>2. early' \in BOOLEAN
    BY <1>10 DEF ReadFetch
  <2> QED BY <2>1, <2>2, AskedKeeps
<1>8. CASE FetchArrives
  BY <1>8, FetchArrivesKeeps
<1>9. CASE UNCHANGED vars
  BY <1>9, AskedKeeps DEF vars, LInv, Types
<1> QED BY <1>1, <1>2, <1>3, <1>4, <1>5, <1>6, <1>7, <1>8, <1>9, <1>10 DEF Next

THEOREM LInvHolds == Spec => []LInv
BY InitLInv, StepLInv, PTL DEF Spec

-----------------------------------------------------------------------------

\* What is shown is never newer than what was recorded, a connection begins with
\* its "open", and a rollback has a list to go back to.
THEOREM TypeCorrect == Spec => []TypeOK
<1>1. ASSUME LInv PROVE TypeOK
  <2> USE DEF LInv
  <2>1. \A c \in Channels : db[c] \in Cells /\ (view # NoList => view[c] \in Cells)
    BY <1>1 DEF Types, Lists
  <2>2. status = "live" => wire = <<>> \/ Head(wire).kind # "open"
    <3>1. SUFFICES ASSUME status = "live", wire # <<>> PROVE Head(wire).kind # "open"
      OBVIOUS
    <3>2. Head(wire) = wire[1] /\ 1 \in 1..Len(wire)
      BY <1>1, <3>1, TakenFrom DEF Types
    <3> QED BY <1>1, <3>1, <3>2 DEF Opening
  <2>3. \A m \in casts : m.kind = "event" /\ m.c \in Channels /\ m.v <= db[m.c].v
    BY <1>1 DEF Types, Numbered, Events
  <2>4. snap.st \in {"none", "asked", "read"} /\ fetch.st \in {"none", "asked", "read"}
    BY <1>1, Kinds DEF Types
  <2> QED BY <1>1, <2>1, <2>2, <2>3, <2>4 DEF TypeOK, Types, Numbered
<1> QED BY <1>1, LInvHolds, PTL

\* A client is registered before its snapshot is read, and asks for the list when
\* the connection opens: once nothing is under way, the last recorded state of
\* every channel has reached the screen, or was announced before the page had a
\* list to write it to (clientServer.js:68-70, live.tsx:96-101, cache.ts:47).
THEOREM LiveMissesNothing == Spec => []NothingMissed
<1>1. ASSUME LInv PROVE NothingMissed
  <2>1. SUFFICES ASSUME Quiet, status = "live", caught, NEW c \in Channels
                 PROVE  best[c] = db[c].v \/ lost[c] = db[c].v
    BY DEF NothingMissed
  <2>2. casts = {} /\ Sent = {}
    BY <2>1 DEF Quiet, Sent
  <2> QED BY <1>1, <2>1, <2>2 DEF LInv, NoGap, Reaches, Waiting
<1> QED BY <1>1, LInvHolds, PTL
====
