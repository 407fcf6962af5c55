-------------------------- MODULE DeviceBackendProofs --------------------------
(***************************************************************************)
(* What is claimed of the parts that the backend keeps of one device, for  *)
(* any number of channels, connections, requests, schedules, ticks, days,  *)
(* automations and changes.                                                *)
(*                                                                         *)
(* First its connections and cached state (DeviceSession), of its own      *)
(* specification.  IInv: what keeps a device shown online is one of three  *)
(* things (a registration, an UPDATE still to run, an authentication whose *)
(* own UPDATE has run), and a step passes it from one to the next.  CInv:  *)
(* for each channel, the last report under way on the device's connection  *)
(* is the current one; with none under way the last statement to run is,   *)
(* and with none of those the cache.  And that they are DeviceRelay's      *)
(* registry: RInv says what is registered has authenticated, and what is   *)
(* open and has authenticated is registered.                               *)
(*                                                                         *)
(* Then its configuration (HwConfigSync), whose steps are those of MCSpec. *)
(* HInv: while no two handlers overlapped, at most one has begun and not   *)
(* ended, what its push or its write has read is still current, and the    *)
(* last frame under way, or with none the board, is of the stored          *)
(* configuration unless a push is still to come.                           *)
(*                                                                         *)
(* Then the schedules as a dashboard edits them (ScheduleEditing).  EInv:  *)
(* what a mutation became is no newer than its row, a copy that was read   *)
(* is as new as what was confirmed, and so is the copy shown unless it is  *)
(* invalidated or a switch is still to be answered.                        *)
(*                                                                         *)
(* Then one schedule as the ticks see it (ScheduleTicks).  TicksInv: every *)
(* fire was due no later than the row says it was last fired, a one-shot's *)
(* fire leaves the row disabled until it is armed anew, and what a tick has*)
(* seen is dated and armed no later than its snapshot of the row.          *)
(*                                                                         *)
(* Then the automations (AutomationCascade).  CascadeInv: a note and an    *)
(* evaluation are as deep as their chain is long, their chain is the true  *)
(* ancestry as long as every echo found a note of its own ancestry, and an *)
(* evaluation goes on firing only what depth and chain let through.        *)
(*                                                                         *)
(* Last the statistics (UsageStats), by induction over the rows of the log:*)
(* LoopInvariant says what onIntervals has counted after each of them.     *)
(* UsageInv: the rows are in the order of their time, what we were told    *)
(* last is what the last of ours says, and the past is what they say of it.*)
(***************************************************************************)
EXTENDS MCDeviceBackend, FiniteSetTheorems, SequenceTheorems, WellFoundedInduction, TLAPS

-----------------------------------------------------------------------------
(* The connections and the cached state.                                   *)

Authenticating == \E k \in Conns : auth[k] = "marked"

\* A device shown online is registered, or will be, or will be marked offline.
OnlineHasReason == isOnline => registered # 0 \/ offlineUpdates # {} \/ Authenticating

IInv ==
    /\ auth \in [Conns -> {"no", "checking", "marked", "yes"}]
    /\ offlineUpdates \subseteq Conns
    /\ OnlineHasReason

LEMMA InitIInv == Init => IInv
BY DEF Init, IInv, OnlineHasReason, Authenticating

LEMMA ConnStepIInv ==
    ASSUME IInv, NEW k \in Conns, ConnStep(k)
    PROVE  IInv'
<1> USE DEF IInv, OnlineHasReason, Authenticating, dbVars
<1>1. CASE HandleAuthFrame(k)
  BY <1>1 DEF HandleAuthFrame
<1>2. CASE HandleEarlyFrame(k)
  BY <1>2 DEF HandleEarlyFrame
<1>3. CASE HandleStateFrame(k)
  BY <1>3 DEF HandleStateFrame
<1>4. CASE MarkOnline(k)
  BY <1>4 DEF MarkOnline
\* The registration takes over from the authentication.
<1>5. CASE FinishAuth(k)
  <2>1. registered' # 0
    BY <1>5, BoundsType DEF FinishAuth, Conns
  <2> QED BY <1>5, <2>1 DEF FinishAuth
<1>6. CASE StartClose(k)
  BY <1>6 DEF StartClose
\* The UPDATE of markOffline takes over from the registration.
<1>7. CASE CloseEvent(k)
  <2>1. CASE auth[k] = "yes" /\ registered = k
    BY <1>7, <2>1 DEF CloseEvent
  <2>2. CASE ~(auth[k] = "yes" /\ registered = k)
    BY <1>7, <2>2 DEF CloseEvent
  <2> QED BY <2>1, <2>2
<1>8. CASE MarkOffline(k)
  BY <1>8 DEF MarkOffline
<1> QED
  BY <1>1, <1>2, <1>3, <1>4, <1>5, <1>6, <1>7, <1>8 DEF ConnStep

LEMMA NextIInv == IInv /\ [Next]_vars => IInv'
<1> SUFFICES ASSUME IInv, [Next]_vars PROVE IInv'
  OBVIOUS
<1> USE DEF IInv, OnlineHasReason, Authenticating, dbVars
<1>1. CASE Connect
  BY <1>1 DEF Connect
<1>2. CASE DeviceDisconnects
  BY <1>2 DEF DeviceDisconnects
<1>3. ASSUME NEW c \in Chs, RelayChanges(c) PROVE IInv'
  BY <1>3 DEF RelayChanges
<1>4. ASSUME NEW k \in Conns, ConnStep(k) PROVE IInv'
  BY <1>4, ConnStepIInv
<1>5. ASSUME NEW i \in 1..Len(stateUpserts), RecordStateChange(i) PROVE IInv'
  BY <1>5 DEF RecordStateChange
<1>6. CASE UNCHANGED vars
  BY <1>6 DEF vars
<1> QED BY <1>1, <1>2, <1>3, <1>4, <1>5, <1>6 DEF Next

\* A device shown online has a reason to be.
THEOREM Invariance == Spec => []IInv
BY InitIInv, NextIInv, PTL DEF Spec

\* Whatever connections a device makes and loses, in whatever order they
\* authenticate, supersede one another and close (ws/deviceServer.js), a device
\* without a registered connection ends up marked offline.
THEOREM UnregisteredEndsOffline == Spec => []OfflineWhenUnregistered
<1>1. IInv => OfflineWhenUnregistered
  BY DEF IInv, OnlineHasReason, Authenticating, OfflineWhenUnregistered, Quiet
<1> QED BY <1>1, Invariance, PTL

-----------------------------------------------------------------------------
(* Sequences of which only the last mention of a thing counts.             *)

\* Whatever q mentions of A, the last is a.
EndsWith(q, A, a) ==
    \A i \in 1..Len(q) : q[i] \in A \ {a} => \E j \in 1..Len(q) : j > i /\ q[j] \in A
Mentions(q, A) == \E i \in 1..Len(q) : q[i] \in A

LEMMA EndsAppend ==
    ASSUME NEW S, NEW q \in Seq(S), NEW e \in S, NEW A, NEW a
    PROVE  /\ e \notin A /\ EndsWith(q, A, a) => EndsWith(Append(q, e), A, a)
           /\ e \in A => EndsWith(Append(q, e), A, e)
           /\ Mentions(Append(q, e), A) <=> Mentions(q, A) \/ e \in A
<1>1. /\ Len(Append(q, e)) = Len(q) + 1 /\ Len(q) \in Nat
      /\ \A i \in 1..Len(q) : Append(q, e)[i] = q[i]
      /\ Append(q, e)[Len(q) + 1] = e
      /\ 1..(Len(q) + 1) = 1..Len(q) \cup {Len(q) + 1}
  OBVIOUS
<1> DEFINE p == Append(q, e)
<1> HIDE DEF p
<1>2. e \notin A /\ EndsWith(q, A, a) => EndsWith(p, A, a)
  BY <1>1 DEF EndsWith, p
<1>3. e \in A => EndsWith(p, A, e)
  <2>1. SUFFICES ASSUME e \in A, NEW i \in 1..Len(p), p[i] \in A \ {e}
                 PROVE  \E j \in 1..Len(p) : j > i /\ p[j] \in A
    BY DEF EndsWith
  <2> QED
    BY <1>1, <2>1 DEF p
<1>4. Mentions(p, A) <=> Mentions(q, A) \/ e \in A
  BY <1>1 DEF Mentions, p
<1> QED BY <1>2, <1>3, <1>4 DEF p

LEMMA EndsTail ==
    ASSUME NEW S, NEW q \in Seq(S), q # <<>>, NEW A, NEW a, EndsWith(q, A, a)
    PROVE  /\ EndsWith(Tail(q), A, a)
           /\ Mentions(q, A) /\ Head(q) \notin A => Mentions(Tail(q), A)
           /\ Head(q) \in A /\ ~Mentions(Tail(q), A) => Head(q) = a
<1> DEFINE p == Tail(q)
<1>1. /\ Len(p) = Len(q) - 1 /\ Len(q) \in Nat \ {0} /\ Head(q) = q[1]
      /\ \A i \in 1..Len(p) : p[i] = q[i + 1]
  OBVIOUS
<1> HIDE DEF p
<1>2. \A i \in 1..Len(q) : i > 1 => i - 1 \in 1..Len(p) /\ p[i - 1] = q[i]
  BY <1>1
<1>3. EndsWith(p, A, a)
  <2>1. SUFFICES ASSUME NEW i \in 1..Len(p), p[i] \in A \ {a}
                 PROVE  \E j \in 1..Len(p) : j > i /\ p[j] \in A
    BY DEF EndsWith
  <2>2. i + 1 \in 1..Len(q) /\ q[i + 1] \in A \ {a}
    BY <1>1, <2>1
  <2>3. PICK j \in 1..Len(q) : j > i + 1 /\ q[j] \in A
    BY <2>2 DEF EndsWith
  <2>4. j - 1 \in 1..Len(p) /\ p[j - 1] \in A /\ j - 1 > i
    BY <1>2, <2>3, <1>1
  <2> QED BY <2>4
<1>4. Mentions(q, A) /\ q[1] \notin A => Mentions(p, A)
  <2>1. SUFFICES ASSUME NEW i \in 1..Len(q), q[i] \in A, q[1] \notin A PROVE Mentions(p, A)
    BY DEF Mentions
  <2>2. i > 1
    BY <2>1, <1>1
  <2> QED BY <1>2, <2>1, <2>2 DEF Mentions
<1>5. q[1] \in A /\ ~Mentions(p, A) => q[1] = a
  <2>1. SUFFICES ASSUME q[1] \in A \ {a} PROVE Mentions(p, A)
    OBVIOUS
  <2>2. PICK j \in 1..Len(q) : j > 1 /\ q[j] \in A
    BY <1>1, <2>1 DEF EndsWith
  <2> QED BY <1>2, <2>2 DEF Mentions
<1> QED BY <1>1, <1>3, <1>4, <1>5 DEF p

\* A sequence without its element i.
Without(q, i) == SubSeq(q, 1, i - 1) \o SubSeq(q, i + 1, Len(q))

LEMMA WithoutShape ==
    ASSUME NEW S, NEW q \in Seq(S), NEW i \in 1..Len(q)
    PROVE  /\ Without(q, i) \in Seq(S) /\ Len(Without(q, i)) = Len(q) - 1 /\ Len(q) \in Nat
           /\ \A j \in 1..(Len(q) - 1) : Without(q, i)[j] = IF j < i THEN q[j] ELSE q[j + 1]
<1> DEFINE u == SubSeq(q, 1, i - 1)
           v == SubSeq(q, i + 1, Len(q))
<1>1. /\ u \in Seq(S) /\ Len(u) = i - 1 /\ Len(q) \in Nat /\ i \in Nat
      /\ \A j \in 1..(i - 1) : u[j] = q[j]
  OBVIOUS
<1>2. /\ v \in Seq(S) /\ Len(v) = Len(q) - i
      /\ \A j \in 1..(Len(q) - i) : v[j] = q[i + j]
  OBVIOUS
<1> HIDE DEF u, v
<1>3. /\ u \o v \in Seq(S) /\ Len(u \o v) = Len(u) + Len(v)
      /\ \A j \in 1..(Len(u) + Len(v)) : (u \o v)[j] = IF j <= Len(u) THEN u[j] ELSE v[j - Len(u)]
  BY <1>1, <1>2, ConcatProperties
<1>4. Len(u) + Len(v) = Len(q) - 1
  BY <1>1, <1>2
<1>5. ASSUME NEW j \in 1..(Len(q) - 1)
      PROVE  (u \o v)[j] = IF j < i THEN q[j] ELSE q[j + 1]
  <2>1. CASE j < i
    BY <1>1, <1>3, <1>4, <2>1
  <2>2. CASE j >= i
    <3>1. PICK m \in 1..(Len(q) - i) : m = j - (i - 1)
      BY <1>1, <2>2
    <3>2. (u \o v)[j] = v[m]
      BY <1>1, <1>3, <1>4, <2>2, <3>1
    <3>3. v[m] = q[i + m] /\ i + m = j + 1
      BY <1>1, <1>2, <3>1
    <3> QED BY <1>1, <2>2, <3>2, <3>3
  <2>3. j < i \/ j >= i
    BY <1>1
  <2> QED BY <2>1, <2>2, <2>3
<1> QED BY <1>1, <1>3, <1>4, <1>5 DEF Without, u, v

LEMMA EndsWithout ==
    ASSUME NEW S, NEW q \in Seq(S), NEW i \in 1..Len(q), NEW A, NEW a, EndsWith(q, A, a),
           q[i] \in A => \A j \in 1..(i - 1) : q[j] \notin A
    PROVE  /\ EndsWith(Without(q, i), A, a)
           /\ q[i] \notin A /\ Mentions(q, A) => Mentions(Without(q, i), A)
           /\ q[i] \in A /\ ~Mentions(Without(q, i), A) => q[i] = a
<1> DEFINE p == Without(q, i)
<1>0. Len(q) \in Nat /\ i \in Nat
  OBVIOUS
<1>1. /\ Len(p) = Len(q) - 1 /\ Len(q) \in Nat /\ i \in Nat
      /\ \A j \in 1..Len(p) : p[j] = IF j < i THEN q[j] ELSE q[j + 1]
  BY <1>0, WithoutShape
<1> HIDE DEF p
<1> DEFINE at(j) == IF j < i THEN j ELSE j - 1
<1>2. \A j \in 1..Len(q) : j # i => at(j) \in 1..Len(p) /\ p[at(j)] = q[j]
  BY <1>1
<1>3. EndsWith(p, A, a)
  <2>1. SUFFICES ASSUME NEW m \in 1..Len(p), p[m] \in A \ {a}
                 PROVE  \E j \in 1..Len(p) : j > m /\ p[j] \in A
    BY DEF EndsWith
  <2>2. PICK n \in 1..Len(q) : n # i /\ q[n] \in A \ {a} /\ m = at(n)
    <3>1. CASE m < i
      BY <1>1, <2>1, <3>1
    <3>2. CASE m >= i
      <4>1. m + 1 \in 1..Len(q) /\ m + 1 # i /\ q[m + 1] = p[m] /\ m = at(m + 1)
        BY <1>1, <3>2
      <4> QED BY <2>1, <4>1
    <3> QED BY <1>1, <3>1, <3>2
  <2>3. PICK l \in 1..Len(q) : l > n /\ q[l] \in A
    BY <2>2 DEF EndsWith
  <2>4. l # i
    BY <1>1, <2>2, <2>3
  <2>5. at(l) > at(n)
    BY <1>1, <2>2, <2>3, <2>4
  <2> QED BY <1>2, <2>2, <2>3, <2>4, <2>5
<1>4. q[i] \notin A /\ Mentions(q, A) => Mentions(p, A)
  BY <1>2 DEF Mentions
<1>5. q[i] \in A /\ ~Mentions(p, A) => q[i] = a
  <2>1. SUFFICES ASSUME q[i] \in A \ {a} PROVE Mentions(p, A)
    OBVIOUS
  <2>2. PICK j \in 1..Len(q) : j > i /\ q[j] \in A
    BY <2>1 DEF EndsWith
  <2> QED BY <1>1, <1>2, <2>2 DEF Mentions
<1> QED BY <1>3, <1>4, <1>5 DEF p

-----------------------------------------------------------------------------
(* The frames and statements about a channel.                              *)

Frames(c) == {"state"} \X {c} \X States
Upserts(c) == {c} \X States
Frame == StateFrames \cup {AuthFrame}

LEMMA FrameParts ==
    ASSUME NEW c \in Chs, NEW s \in States
    PROVE  /\ <<"state", c, s>> \in StateFrames /\ <<"state", c, s>> # AuthFrame
           /\ Tail(<<"state", c, s>>) = <<c, s>>
           /\ <<c, s>> \in Chs \X States
<1>1. <<"state", c, s>> \in StateFrames
  BY DEF StateFrames
<1>2. <<"state", c, s>> # AuthFrame
  BY DEF AuthFrame
<1>3. Tail(<<"state", c, s>>) = <<c, s>>
  OBVIOUS
<1> QED BY <1>1, <1>2, <1>3

LEMMA FrameOf ==
    ASSUME NEW f \in StateFrames
    PROVE  \E c \in Chs, s \in States : f = <<"state", c, s>>
BY DEF StateFrames

LEMMA FramesOf ==
    ASSUME NEW c \in Chs, NEW d \in Chs, NEW s \in States
    PROVE  /\ <<"state", d, s>> \in Frames(c) <=> d = c
           /\ AuthFrame \notin Frames(c)
           /\ <<d, s>> \in Upserts(c) <=> d = c
BY DEF Frames, Upserts, AuthFrame

-----------------------------------------------------------------------------
(* The cache and the relays.                                               *)

Types ==
    /\ relay \in [Chs -> States] /\ cached \in [Chs -> States]
    /\ opened \in 0..MaxConns /\ link \in 0..opened /\ changes \in 0..MaxChanges
    /\ wire \in [Conns -> Seq(Frame)]
    /\ ready \in [Conns -> {"unopened", "OPEN", "CLOSING", "CLOSED"}]
    /\ auth \in [Conns -> {"no", "checking", "marked", "yes"}]
    /\ registered \in 0..MaxConns /\ refused \subseteq Conns
    /\ isOnline \in BOOLEAN /\ offlineUpdates \subseteq Conns
    /\ stateUpserts \in Seq(Chs \X States) /\ overtaken \in BOOLEAN

\* Connections are numbered as they are opened, and the one registered last is the only
\* authenticated one that is open.
ConnsKnown ==
    \A k \in Conns :
        /\ k > opened => ready[k] = "unopened" /\ auth[k] = "no"
        /\ auth[k] = "yes" /\ ready[k] = "OPEN" => registered = k

\* Credentials come first, and only once.
FramesKnown ==
    \A k \in Conns : \A i \in 1..Len(wire[k]) :
        wire[k][i] = AuthFrame => i = 1 /\ auth[k] = "no"

OpenLink == link # 0 /\ ready[link] = "OPEN"

\* The statements still to run leave channel c as it is on the device.
Recorded(c) ==
    /\ EndsWith(stateUpserts, Upserts(c), <<c, relay[c]>>)
    /\ ~Mentions(stateUpserts, Upserts(c)) => cached[c] = relay[c]

\* The last report under way about channel c is the current one; with none under way the
\* connection is authenticated, and the last statement is the current one.
Followed(c) ==
    /\ EndsWith(wire[link], Frames(c), <<"state", c, relay[c]>>)
    /\ ~Mentions(wire[link], Frames(c)) =>
           auth[link] = "yes" /\ (~overtaken => Recorded(c))

CInv == Types /\ ConnsKnown /\ FramesKnown /\ (OpenLink => \A c \in Chs : Followed(c))

LEMMA Sizes == MaxConns \in Nat /\ Channels \in Nat \ {0} /\ Conns = 1..MaxConns /\ Chs = 1..Channels
BY BoundsType DEF Conns, Chs

LEMMA FrameKinds ==
    ASSUME NEW f \in Frame, f # AuthFrame
    PROVE  \E c \in Chs, s \in States :
              /\ f = <<"state", c, s>> /\ Tail(f) = <<c, s>> /\ <<c, s>> \in Chs \X States
              /\ \A d \in Chs : (f \in Frames(d) <=> c = d) /\ (<<c, s>> \in Upserts(d) <=> c = d)
<1>1. PICK c \in Chs, s \in States : f = <<"state", c, s>>
  BY FrameOf DEF Frame
<1> QED BY <1>1, FrameParts, FramesOf

LEMMA InitCInv == Init => CInv
<1> SUFFICES ASSUME Init PROVE CInv
  OBVIOUS
<1> USE DEF Init
<1>1. Types
  <2>1. /\ relay \in [Chs -> States] /\ cached \in [Chs -> States]
        /\ opened \in 0..MaxConns /\ link \in 0..opened /\ changes \in 0..MaxChanges
        /\ registered \in 0..MaxConns
    BY BoundsType DEF States
  <2>2. wire \in [Conns -> Seq(Frame)] /\ stateUpserts \in Seq(Chs \X States)
    OBVIOUS
  <2> QED BY <2>1, <2>2 DEF Types
<1>2. ConnsKnown /\ FramesKnown
  BY DEF ConnsKnown, FramesKnown
<1> QED BY <1>1, <1>2 DEF CInv, OpenLink

\* What the device's connection promises is kept by whatever happens to others.
LEMMA LinkSame ==
    ASSUME CInv, UNCHANGED <<relay, cached, stateUpserts>>, overtaken => overtaken', link' \in {0, link},
           OpenLink' => /\ OpenLink /\ wire'[link] = wire[link]
                        /\ auth[link] = "yes" => auth'[link] = "yes"
    PROVE  (OpenLink => \A c \in Chs : Followed(c))'
<1> SUFFICES ASSUME OpenLink', NEW c \in Chs PROVE Followed(c)'
  OBVIOUS
<1>1. link' = link /\ Followed(c)
  BY DEF CInv, OpenLink
<1> QED BY <1>1 DEF Followed, Recorded

\* A frame is taken from the wire.
LEMMA FrameTaken ==
    ASSUME CInv, NEW k \in Conns, TakesFrame(k), wire' = [wire EXCEPT ![k] = Tail(@)],
           \A j \in Conns \ {k} : auth'[j] = auth[j]
    PROVE  /\ wire' \in [Conns -> Seq(Frame)] /\ wire'[k] = Tail(wire[k])
           /\ \A j \in Conns \ {k} : wire'[j] = wire[j]
           /\ wire[k] \in Seq(Frame) /\ wire[k] # <<>> /\ Head(wire[k]) \in Frame
           /\ Head(wire[k]) = AuthFrame => auth[k] = "no"
           /\ FramesKnown' /\ k <= opened
<1> USE DEF CInv
<1>1. /\ wire[k] \in Seq(Frame) /\ wire[k] # <<>> /\ ready[k] \in {"OPEN", "CLOSING"}
      /\ wire \in [Conns -> Seq(Frame)]
  BY DEF Types, TakesFrame
<1>2. /\ Len(wire[k]) \in Nat \ {0} /\ Head(wire[k]) = wire[k][1] /\ Head(wire[k]) \in Frame
      /\ Tail(wire[k]) \in Seq(Frame) /\ Len(Tail(wire[k])) = Len(wire[k]) - 1
      /\ \A i \in 1..(Len(wire[k]) - 1) : Tail(wire[k])[i] = wire[k][i + 1]
  BY <1>1
<1>3. /\ wire' \in [Conns -> Seq(Frame)] /\ wire'[k] = Tail(wire[k])
      /\ \A j \in Conns \ {k} : wire'[j] = wire[j]
  BY <1>1, <1>2
<1>4. FramesKnown'
  <2>1. SUFFICES ASSUME NEW j \in Conns, NEW i \in 1..Len(wire'[j]), wire'[j][i] = AuthFrame
                 PROVE  i = 1 /\ auth'[j] = "no"
    BY DEF FramesKnown
  <2>2. CASE j = k
    <3>1. i + 1 \in 1..Len(wire[k]) /\ wire[k][i + 1] = AuthFrame /\ i + 1 # 1
      BY <1>2, <1>3, <2>1, <2>2
    <3> QED BY <3>1 DEF FramesKnown
  <2>3. CASE j # k
    BY <1>3, <2>1, <2>3 DEF FramesKnown
  <2> QED BY <2>2, <2>3
<1>5. Head(wire[k]) = AuthFrame => auth[k] = "no"
  BY <1>2 DEF FramesKnown
<1>6. k <= opened
  BY <1>1, Sizes DEF ConnsKnown, Types
<1> QED BY <1>1, <1>2, <1>3, <1>4, <1>5, <1>6

LEMMA ClosingIs ==
    ASSUME Types, NEW k \in Conns \cup {0}, ready' = Closing(k)
    PROVE  /\ ready' \in [Conns -> {"unopened", "OPEN", "CLOSING", "CLOSED"}]
           /\ k # 0 => ready'[k] # "OPEN"
           /\ \A j \in Conns : ready'[j] = "OPEN" => ready[j] = "OPEN"
           /\ \A j \in Conns : ready[j] = "unopened" => ready'[j] = "unopened"
BY DEF Types, Closing

LEMMA AuthFrameKeeps ==
    ASSUME CInv, NEW k \in Conns, HandleAuthFrame(k)
    PROVE  CInv'
<1> USE DEF CInv
<1>1. /\ TakesFrame(k) /\ auth[k] = "no" /\ Head(wire[k]) = AuthFrame
      /\ wire' = [wire EXCEPT ![k] = Tail(@)] /\ auth' = [auth EXCEPT ![k] = "checking"]
      /\ UNCHANGED <<relay, link, opened, changes, ready, registered, refused, isOnline, cached,
                     offlineUpdates, stateUpserts, overtaken>>
  BY DEF HandleAuthFrame, dbVars
<1>2. /\ auth' \in [Conns -> {"no", "checking", "marked", "yes"}] /\ auth'[k] = "checking"
      /\ \A j \in Conns \ {k} : auth'[j] = auth[j]
  BY <1>1 DEF Types
<1>3. /\ wire' \in [Conns -> Seq(Frame)] /\ wire'[k] = Tail(wire[k]) /\ FramesKnown' /\ k <= opened
      /\ \A j \in Conns \ {k} : wire'[j] = wire[j]
      /\ wire[k] \in Seq(Frame) /\ wire[k] # <<>>
  BY <1>1, <1>2, FrameTaken
<1>4. Types'
  BY <1>1, <1>2, <1>3 DEF Types
<1>5. ConnsKnown'
  BY <1>1, <1>2, <1>3, Sizes DEF ConnsKnown, Types
<1>6. (OpenLink => \A c \in Chs : Followed(c))'
  <2>1. CASE k # link
    <3>1. OpenLink' => OpenLink /\ wire'[link] = wire[link] /\ (auth[link] = "yes" => auth'[link] = "yes")
      BY <1>1, <1>2, <1>3, <2>1, Sizes DEF Types, OpenLink
    <3> QED BY <1>1, <3>1, LinkSame
  <2>2. CASE k = link
    <3>1. SUFFICES ASSUME OpenLink, NEW c \in Chs PROVE Followed(c)'
      BY <1>1 DEF OpenLink
    <3>2. Followed(c) /\ AuthFrame \notin Frames(c)
      BY <3>1, FramesOf DEF States
    <3>3. Mentions(wire[k], Frames(c))
      BY <1>1, <2>2, <3>2 DEF Followed
    <3>4. EndsWith(Tail(wire[k]), Frames(c), <<"state", c, relay[c]>>) /\ Mentions(Tail(wire[k]), Frames(c))
      BY <1>1, <1>3, <2>2, <3>2, <3>3, EndsTail DEF Followed
    <3> QED BY <1>1, <1>3, <2>2, <3>4 DEF Followed
  <2> QED BY <2>1, <2>2
<1> QED BY <1>3, <1>4, <1>5, <1>6

LEMMA EarlyFrameKeeps ==
    ASSUME CInv, NEW k \in Conns, HandleEarlyFrame(k)
    PROVE  CInv'
<1> USE DEF CInv
<1>1. /\ TakesFrame(k) /\ wire' = [wire EXCEPT ![k] = Tail(@)] /\ ready' = Closing(k)
      /\ refused' = refused \cup {k}
      /\ UNCHANGED <<relay, link, opened, changes, auth, registered, isOnline, cached,
                     offlineUpdates, stateUpserts, overtaken>>
  BY DEF HandleEarlyFrame, dbVars
<1>2. /\ wire' \in [Conns -> Seq(Frame)] /\ FramesKnown'
      /\ \A j \in Conns \ {k} : wire'[j] = wire[j]
  BY <1>1, FrameTaken
<1>3. /\ ready' \in [Conns -> {"unopened", "OPEN", "CLOSING", "CLOSED"}]
      /\ ready'[k] # "OPEN"
      /\ \A j \in Conns : ready'[j] = "OPEN" => ready[j] = "OPEN"
      /\ \A j \in Conns : ready[j] = "unopened" => ready'[j] = "unopened"
  BY <1>1, ClosingIs, Sizes
<1>4. Types'
  BY <1>1, <1>2, <1>3 DEF Types
<1>5. ConnsKnown'
  BY <1>1, <1>3 DEF ConnsKnown
<1>6. OpenLink' => OpenLink /\ wire'[link] = wire[link] /\ (auth[link] = "yes" => auth'[link] = "yes")
  BY <1>1, <1>2, <1>3, Sizes DEF OpenLink, Types
<1> QED BY <1>1, <1>2, <1>4, <1>5, <1>6, LinkSame

LEMMA StateFrameKeeps ==
    ASSUME CInv, NEW k \in Conns, HandleStateFrame(k)
    PROVE  CInv'
<1> USE DEF CInv
<1>1. /\ TakesFrame(k) /\ auth[k] = "yes" /\ wire' = [wire EXCEPT ![k] = Tail(@)]
      /\ stateUpserts' = Append(stateUpserts, Tail(Head(wire[k])))
      /\ overtaken' = (overtaken \/ k # registered)
      /\ UNCHANGED <<relay, link, opened, changes, ready, auth, registered, refused,
                     isOnline, cached, offlineUpdates>>
  BY DEF HandleStateFrame
<1>2. /\ wire' \in [Conns -> Seq(Frame)] /\ wire'[k] = Tail(wire[k]) /\ FramesKnown'
      /\ \A j \in Conns \ {k} : wire'[j] = wire[j]
      /\ wire[k] \in Seq(Frame) /\ wire[k] # <<>> /\ Head(wire[k]) \in Frame
      /\ Head(wire[k]) # AuthFrame
  BY <1>1, FrameTaken
<1>3. PICK d \in Chs, s \in States :
         /\ Head(wire[k]) = <<"state", d, s>> /\ Tail(Head(wire[k])) = <<d, s>>
         /\ <<d, s>> \in Chs \X States
         /\ \A c \in Chs : (Head(wire[k]) \in Frames(c) <=> d = c) /\ (<<d, s>> \in Upserts(c) <=> d = c)
  BY <1>2, FrameKinds
<1>4. stateUpserts' \in Seq(Chs \X States) /\ stateUpserts \in Seq(Chs \X States)
  BY <1>1, <1>3 DEF Types
<1>5. Types'
  BY <1>1, <1>2, <1>4 DEF Types
<1>6. ConnsKnown'
  BY <1>1 DEF ConnsKnown
<1>7. ASSUME OpenLink', NEW c \in Chs PROVE Followed(c)'
  <2>1. OpenLink /\ Followed(c) /\ link \in Conns
    BY <1>1, <1>7, Sizes DEF OpenLink, Types
  <2>2. CASE k = link
    <3>1. /\ EndsWith(wire'[link], Frames(c), <<"state", c, relay[c]>>)
          /\ Head(wire[k]) \in Frames(c) /\ ~Mentions(wire'[link], Frames(c)) =>
                Head(wire[k]) = <<"state", c, relay[c]>>
          /\ Head(wire[k]) \notin Frames(c) /\ Mentions(wire[link], Frames(c)) =>
                Mentions(wire'[link], Frames(c))
      <4> DEFINE q == wire[k]
                 A == Frames(c)
                 a == <<"state", c, relay[c]>>
      <4>1. q \in Seq(Frame) /\ q # <<>> /\ EndsWith(q, A, a) /\ wire'[link] = Tail(q) /\ link = k
        BY <1>2, <2>1, <2>2 DEF Followed
      <4> HIDE DEF q, A, a
      <4>2. /\ EndsWith(Tail(q), A, a)
            /\ Mentions(q, A) /\ Head(q) \notin A => Mentions(Tail(q), A)
            /\ Head(q) \in A /\ ~Mentions(Tail(q), A) => Head(q) = a
        BY <4>1, EndsTail
      <4> QED BY <4>1, <4>2 DEF q, A, a
    <3>2. ASSUME ~Mentions(wire'[link], Frames(c)), ~overtaken'
          PROVE  Recorded(c)'
      <4>1. CASE d = c
        <5>1. <<d, s>> = <<c, relay[c]>> /\ <<d, s>> \in Upserts(c)
          <6>1. <<"state", d, s>> = <<"state", c, relay[c]>>
            BY <1>3, <3>1, <3>2, <4>1
          <6> QED BY <1>3, <4>1, <6>1
        <5>2. /\ EndsWith(Append(stateUpserts, <<d, s>>), Upserts(c), <<d, s>>)
              /\ Mentions(Append(stateUpserts, <<d, s>>), Upserts(c))
          <6> DEFINE S == Chs \X States
                     e == <<d, s>>
          <6>1. stateUpserts \in Seq(S) /\ e \in S /\ e \in Upserts(c)
            BY <1>3, <1>4, <5>1
          <6> HIDE DEF S, e
          <6>2. EndsWith(Append(stateUpserts, e), Upserts(c), e) /\ Mentions(Append(stateUpserts, e), Upserts(c))
            BY <6>1, EndsAppend
          <6> QED BY <6>2 DEF e
        <5> QED BY <1>1, <1>3, <5>1, <5>2 DEF Recorded
      <4>2. CASE d # c
        <5>1. Recorded(c) /\ <<d, s>> \notin Upserts(c)
          BY <1>1, <1>3, <2>1, <3>1, <3>2, <4>2 DEF Followed
        <5>2. /\ EndsWith(Append(stateUpserts, <<d, s>>), Upserts(c), <<c, relay[c]>>)
              /\ Mentions(Append(stateUpserts, <<d, s>>), Upserts(c)) <=> Mentions(stateUpserts, Upserts(c))
          BY <1>3, <1>4, <5>1, EndsAppend DEF Recorded
        <5> QED BY <1>1, <1>3, <5>1, <5>2 DEF Recorded
      <4> QED BY <4>1, <4>2
    <3> QED BY <1>1, <2>2, <3>1, <3>2 DEF Followed
  \* Another connection is registered, so that the device's own has not been heard yet.
  <2>3. CASE k # link
    <3>1. wire'[link] = wire[link]
      BY <1>2, <2>1, <2>3
    <3>2. ~overtaken' => Mentions(wire[link], Frames(c))
      <4>1. SUFFICES ASSUME registered = k PROVE Mentions(wire[link], Frames(c))
        BY <1>1
      <4>2. auth[link] # "yes"
        BY <2>1, <2>3, <4>1 DEF ConnsKnown, OpenLink
      <4> QED BY <2>1, <4>2 DEF Followed
    <3> QED BY <1>1, <2>1, <3>1, <3>2 DEF Followed
  <2> QED BY <2>2, <2>3
<1> QED BY <1>2, <1>5, <1>6, <1>7

\* Steps of a connection that take no frame.
LEMMA QuietConnKeeps ==
    ASSUME CInv, NEW k \in Conns,
           MarkOnline(k) \/ FinishAuth(k) \/ StartClose(k) \/ CloseEvent(k) \/ MarkOffline(k)
    PROVE  CInv'
<1> USE DEF CInv
<1>1. /\ UNCHANGED <<relay, opened, changes, refused, cached, stateUpserts, overtaken>>
      /\ link' \in {0, link}
      /\ isOnline' \in BOOLEAN /\ offlineUpdates' \subseteq Conns
  <2>1. CASE MarkOnline(k) \/ MarkOffline(k)
    BY <2>1 DEF MarkOnline, MarkOffline, dbVars, Types
  <2>2. CASE FinishAuth(k) \/ StartClose(k)
    BY <2>2 DEF FinishAuth, StartClose, dbVars, Types
  <2>3. CASE CloseEvent(k)
    BY <2>3 DEF CloseEvent, Types
  <2> QED BY <2>1, <2>2, <2>3
<1>2. /\ auth' \in [Conns -> {"no", "checking", "marked", "yes"}]
      /\ \A j \in Conns : auth'[j] = "no" <=> auth[j] = "no"
      /\ \A j \in Conns : auth[j] = "yes" => auth'[j] = "yes"
      /\ \A j \in Conns : auth'[j] = "yes" => auth[j] = "yes" \/ (FinishAuth(k) /\ j = k)
  BY DEF MarkOnline, FinishAuth, StartClose, CloseEvent, MarkOffline, Types
<1>3. /\ ready' \in [Conns -> {"unopened", "OPEN", "CLOSING", "CLOSED"}]
      /\ \A j \in Conns : ready'[j] = "OPEN" => ready[j] = "OPEN"
      /\ \A j \in Conns : ready[j] = "unopened" => ready'[j] = "unopened"
      /\ FinishAuth(k) /\ registered # 0 => ready'[registered] # "OPEN"
  <2>1. CASE UNCHANGED ready
    BY <2>1, Sizes DEF Types, FinishAuth, Closing
  <2>2. CASE ready' = Closing(k) /\ ~FinishAuth(k)
    BY <2>2, ClosingIs
  <2>3. CASE FinishAuth(k)
    BY <2>3, ClosingIs, Sizes DEF FinishAuth, Types
  <2>4. CASE CloseEvent(k) /\ ~FinishAuth(k)
    BY <2>4 DEF CloseEvent, Types
  <2> QED BY <2>1, <2>2, <2>3, <2>4 DEF MarkOnline, StartClose, MarkOffline
<1>4. /\ wire' \in [Conns -> Seq(Frame)]
      /\ \A j \in Conns : wire'[j] = wire[j] \/ (wire'[j] = <<>> /\ ready'[j] # "OPEN")
  <2>1. CASE UNCHANGED wire
    BY <2>1 DEF Types
  <2>2. CASE CloseEvent(k)
    <3>1. /\ wire' = [wire EXCEPT ![k] = <<>>] /\ ready' = [ready EXCEPT ![k] = "CLOSED"]
          /\ <<>> \in Seq(Frame)
      BY <2>2, EmptySeq DEF CloseEvent
    <3> QED BY <3>1 DEF Types
  <2> QED BY <2>1, <2>2 DEF MarkOnline, FinishAuth, StartClose, MarkOffline
<1>5. registered' \in 0..MaxConns
  BY Sizes DEF MarkOnline, FinishAuth, StartClose, CloseEvent, MarkOffline, Types
<1>6. Types'
  BY <1>1, <1>2, <1>3, <1>4, <1>5, Sizes DEF Types
<1>7. ConnsKnown'
  <2>1. SUFFICES ASSUME NEW j \in Conns, auth'[j] = "yes", ready'[j] = "OPEN" PROVE registered' = j
    BY <1>1, <1>2, <1>3 DEF ConnsKnown
  <2>2. CASE FinishAuth(k)
    BY <1>2, <1>3, <2>1, <2>2, Sizes DEF FinishAuth, ConnsKnown
  <2>3. CASE ~FinishAuth(k)
    <3>1. registered = j
      BY <1>2, <1>3, <2>1, <2>3 DEF ConnsKnown
    <3> QED BY <2>1, <2>3, <3>1 DEF MarkOnline, StartClose, CloseEvent, MarkOffline, Types
  <2> QED BY <2>2, <2>3
<1>8. FramesKnown'
  <2>1. SUFFICES ASSUME NEW j \in Conns, NEW i \in 1..Len(wire'[j]), wire'[j][i] = AuthFrame
                 PROVE  i = 1 /\ auth'[j] = "no"
    BY DEF FramesKnown
  <2>2. wire'[j] = wire[j]
    <3>1. wire'[j] # <<>>
      BY <2>1, EmptySeq
    <3> QED BY <1>4, <3>1
  <2>3. i = 1 /\ auth[j] = "no"
    BY <2>1, <2>2 DEF FramesKnown
  <2> QED BY <1>2, <2>3
<1>9. OpenLink' => OpenLink /\ wire'[link] = wire[link] /\ (auth[link] = "yes" => auth'[link] = "yes")
  BY <1>1, <1>2, <1>3, <1>4, Sizes DEF OpenLink, Types
<1> QED BY <1>1, <1>6, <1>7, <1>8, <1>9, LinkSame

\* The replay on connect names every relay, as it is.
LEMMA ConnectKeeps ==
    ASSUME CInv, Connect
    PROVE  CInv'
<1> DEFINE n == opened + 1
           replay == [c \in Chs |-> <<"state", c, relay[c]>>]
           w == <<AuthFrame>> \o replay
<1> USE DEF CInv
<1>1. /\ n \in Conns /\ opened' = n /\ link' = n
      /\ ready' = [ready EXCEPT ![n] = "OPEN"] /\ wire' = [wire EXCEPT ![n] = w]
      /\ UNCHANGED <<relay, changes, auth, registered, refused, isOnline, cached, offlineUpdates,
                     stateUpserts, overtaken>>
  BY Sizes DEF Connect, dbVars, Types
<1>2. replay \in Seq(Frame) /\ Len(replay) = Channels /\ \A c \in Chs : replay[c] = <<"state", c, relay[c]>>
  <2>1. \A c \in Chs : <<"state", c, relay[c]>> \in Frame
    BY FrameParts DEF Types, Frame
  <2>2. replay \in [1..Channels -> Frame]
    BY <2>1, Sizes
  <2>3. replay \in Seq(Frame) /\ Len(replay) = Channels
    BY <2>2, Sizes, IsASeq, LenProperties
  <2> QED BY <2>3
<1>3. <<AuthFrame>> \in Seq(Frame) /\ Len(<<AuthFrame>>) = 1 /\ <<AuthFrame>>[1] = AuthFrame
  BY DEF Frame
<1> HIDE DEF replay
<1>4. /\ w \in Seq(Frame) /\ Len(w) = Channels + 1 /\ w[1] = AuthFrame
      /\ \A c \in Chs : w[c + 1] = <<"state", c, relay[c]>>
  <2> DEFINE u == <<AuthFrame>>
  <2>0. u \in Seq(Frame) /\ Len(u) = 1 /\ u[1] = AuthFrame
    BY <1>3
  <2> HIDE DEF u
  <2>1. /\ u \o replay \in Seq(Frame) /\ Len(u \o replay) = Channels + 1
        /\ \A i \in 1..(1 + Channels) : (u \o replay)[i] = IF i <= 1 THEN u[i] ELSE replay[i - 1]
    <3>1. /\ u \o replay \in Seq(Frame) /\ Len(u \o replay) = Len(u) + Len(replay)
          /\ \A i \in 1..(Len(u) + Len(replay)) :
                (u \o replay)[i] = IF i <= Len(u) THEN u[i] ELSE replay[i - Len(u)]
      BY <1>2, <2>0, ConcatProperties
    <3>2. Len(u) = 1 /\ Len(replay) = Channels /\ 1 + Channels = Channels + 1
      BY <1>2, <2>0, Sizes
    <3> QED BY <3>1, <3>2
  <2>2. (u \o replay)[1] = AuthFrame
    BY <2>0, <2>1, Sizes
  <2>3. ASSUME NEW c \in Chs PROVE (u \o replay)[c + 1] = <<"state", c, relay[c]>>
    <3>1. c + 1 \in 1..(1 + Channels) /\ ~(c + 1 <= 1) /\ (c + 1) - 1 = c
      BY Sizes
    <3>2. (u \o replay)[c + 1] = replay[c]
      BY <2>1, <3>1
    <3> QED BY <1>2, <3>2
  <2> QED BY <2>1, <2>2, <2>3 DEF u
<1> HIDE DEF w
<1>5. /\ wire' \in [Conns -> Seq(Frame)] /\ wire'[n] = w
      /\ \A k \in Conns \ {n} : wire'[k] = wire[k]
  BY <1>1, <1>4 DEF Types
<1>6. /\ ready' \in [Conns -> {"unopened", "OPEN", "CLOSING", "CLOSED"}]
      /\ \A k \in Conns \ {n} : ready'[k] = ready[k]
      /\ ready[n] = "unopened" /\ auth[n] = "no"
  BY <1>1, Sizes DEF Types, ConnsKnown
<1>7. Types'
  BY <1>1, <1>5, <1>6, Sizes DEF Types
<1>8. ConnsKnown'
  BY <1>1, <1>6, Sizes DEF ConnsKnown, Types
<1>9. \A i \in 1..Len(w) : i = 1 \/ \E c \in Chs : i = c + 1 /\ w[i] = <<"state", c, relay[c]>>
  <2>1. SUFFICES ASSUME NEW i \in 1..(Channels + 1), i # 1
                 PROVE  \E c \in Chs : i = c + 1 /\ w[i] = <<"state", c, relay[c]>>
    BY <1>4
  <2>2. i - 1 \in Chs /\ i = (i - 1) + 1
    BY <2>1, Sizes
  <2> QED BY <1>4, <2>2
<1>10. FramesKnown'
  <2>1. SUFFICES ASSUME NEW i \in 1..Len(w), w[i] = AuthFrame PROVE i = 1
    BY <1>1, <1>5, <1>6 DEF FramesKnown
  <2> QED BY <1>9, <2>1, FrameParts DEF Types
<1>11. ASSUME NEW c \in Chs PROVE Followed(c)'
  <2>1. /\ \A d \in Chs : w[d + 1] \in Frames(c) <=> d = c
        /\ AuthFrame \notin Frames(c)
    <3>1. AuthFrame \notin Frames(c)
      BY FramesOf DEF States
    <3>2. ASSUME NEW d \in Chs PROVE w[d + 1] \in Frames(c) <=> d = c
      <4>1. PICK t \in States : w[d + 1] = <<"state", d, t>>
        BY <1>4 DEF Types
      <4>2. <<"state", d, t>> \in Frames(c) <=> d = c
        BY FramesOf
      <4> QED BY <4>1, <4>2
    <3> QED BY <3>1, <3>2
  <2>2. EndsWith(w, Frames(c), <<"state", c, relay[c]>>)
    BY <1>4, <1>9, <2>1 DEF EndsWith
  <2>3. Mentions(w, Frames(c))
    <3>1. c + 1 \in 1..Len(w)
      BY <1>4, Sizes
    <3> QED BY <2>1, <3>1 DEF Mentions
  <2> QED BY <1>1, <1>5, <2>2, <2>3 DEF Followed
<1> QED BY <1>7, <1>8, <1>10, <1>11

LEMMA RelayChangesKeeps ==
    ASSUME CInv, NEW d \in Chs, RelayChanges(d)
    PROVE  CInv'
<1> DEFINE s == IF relay[d] = "ON" THEN "OFF" ELSE "ON"
           e == <<"state", d, s>>
<1> USE DEF CInv
<1>1. /\ changes' \in 0..MaxChanges /\ relay' = [relay EXCEPT ![d] = s]
      /\ wire' = IF link = 0 THEN wire ELSE [wire EXCEPT ![link] = Append(@, e)]
      /\ UNCHANGED <<link, opened, ready, auth, registered, refused, isOnline, cached, offlineUpdates,
                     stateUpserts, overtaken>>
  BY BoundsType DEF RelayChanges, dbVars, Types
<1>2. s \in States /\ relay' \in [Chs -> States] /\ relay'[d] = s /\ \A c \in Chs \ {d} : relay'[c] = relay[c]
  BY <1>1 DEF Types, States
<1>3. e \in Frame /\ e # AuthFrame /\ \A c \in Chs : e \in Frames(c) <=> d = c
  BY <1>2, FrameParts, FramesOf DEF Frame
<1> HIDE DEF s
<1>4. link \in Conns \cup {0} /\ (link # 0 => wire[link] \in Seq(Frame))
  BY Sizes DEF Types
<1>5. e = <<"state", d, relay'[d]>>
  BY <1>2
<1> HIDE DEF e
<1>6. /\ wire' \in [Conns -> Seq(Frame)]
      /\ link # 0 => wire'[link] = Append(wire[link], e)
      /\ \A k \in Conns \ {link} : wire'[k] = wire[k]
  BY <1>1, <1>3, <1>4 DEF Types
<1>7. Types'
  BY <1>1, <1>2, <1>6 DEF Types
<1>8. ConnsKnown'
  BY <1>1 DEF ConnsKnown
<1>9. FramesKnown'
  <2>1. SUFFICES ASSUME NEW k \in Conns, NEW i \in 1..Len(wire'[k]), wire'[k][i] = AuthFrame
                 PROVE  i = 1 /\ auth[k] = "no"
    BY <1>1 DEF FramesKnown
  <2>2. CASE k # link
    BY <1>6, <2>1, <2>2 DEF FramesKnown
  <2>3. CASE k = link
    <3>1. wire'[k] = Append(wire[k], e) /\ wire[k] \in Seq(Frame)
      BY <1>4, <1>6, <2>3, Sizes
    <3>2. i \in 1..Len(wire[k]) /\ wire[k][i] = AuthFrame
      BY <1>3, <2>1, <3>1
    <3> QED BY <3>2 DEF FramesKnown
  <2> QED BY <2>2, <2>3
<1>10. ASSUME OpenLink', NEW c \in Chs PROVE Followed(c)'
  <2>1. Followed(c) /\ link # 0 /\ wire[link] \in Seq(Frame)
    BY <1>1, <1>4, <1>10 DEF OpenLink
  <2> DEFINE q == wire[link]
             A == Frames(c)
             a == <<"state", c, relay[c]>>
  <2>2. q \in Seq(Frame) /\ e \in Frame /\ EndsWith(q, A, a)
    BY <1>3, <2>1 DEF Followed
  <2> HIDE DEF q, A, a
  <2>3. /\ e \notin A => EndsWith(Append(q, e), A, a)
        /\ e \in A => EndsWith(Append(q, e), A, e)
        /\ Mentions(Append(q, e), A) <=> Mentions(q, A) \/ e \in A
    BY <2>2, EndsAppend
  <2>4. wire'[link] = Append(q, e)
    BY <1>6, <2>1 DEF q
  <2>5. CASE d = c
    BY <1>1, <1>3, <1>5, <2>3, <2>4, <2>5 DEF Followed, A
  <2>6. CASE d # c
    <3>1. relay'[c] = relay[c] /\ e \notin A
      BY <1>2, <1>3, <2>6 DEF A
    <3> QED BY <1>1, <2>1, <2>3, <2>4, <3>1 DEF Followed, Recorded, A, a, q
  <2> QED BY <2>5, <2>6
<1> QED BY <1>7, <1>8, <1>9, <1>10

LEMMA RecordKeeps ==
    ASSUME CInv, NEW i \in 1..Len(stateUpserts), RecordStateChange(i)
    PROVE  CInv'
<1> DEFINE q == stateUpserts
<1> USE DEF CInv
<1>1. /\ cached' = [cached EXCEPT ![q[i][1]] = q[i][2]] /\ q' = Without(q, i)
      /\ overtaken' = (overtaken \/ \E j \in 1..(i - 1) : q[j][1] = q[i][1])
      /\ UNCHANGED <<relay, link, opened, changes, wire, ready, auth, registered, refused,
                     isOnline, offlineUpdates>>
  BY DEF RecordStateChange, Without
<1>2. q \in Seq(Chs \X States) /\ Without(q, i) \in Seq(Chs \X States) /\ Len(q) \in Nat
  BY WithoutShape DEF Types
<1>3. \A j \in 1..Len(q) : \E d \in Chs, s \in States : q[j] = <<d, s>> /\ q[j][1] = d /\ q[j][2] = s
  <2>1. TAKE j \in 1..Len(q)
  <2>2. q[j] \in Chs \X States
    BY <1>2
  <2> QED BY <2>2
<1>4. PICK d \in Chs, s \in States : q[i] = <<d, s>> /\ q[i][1] = d /\ q[i][2] = s
  BY <1>3
<1>5. cached' \in [Chs -> States] /\ cached'[d] = s /\ \A c \in Chs \ {d} : cached'[c] = cached[c]
  BY <1>1, <1>4 DEF Types
<1>6. Types'
  BY <1>1, <1>2, <1>5 DEF Types
<1>7. ConnsKnown' /\ FramesKnown'
  BY <1>1 DEF ConnsKnown, FramesKnown
<1>8. ASSUME OpenLink', NEW c \in Chs PROVE Followed(c)'
  <2>1. Followed(c)
    BY <1>1, <1>8 DEF OpenLink
  <2>2. ASSUME Recorded(c), ~overtaken' PROVE Recorded(c)'
    <3> DEFINE A == Upserts(c)
               a == <<c, relay[c]>>
               S == Chs \X States
    <3>1. \A j \in 1..Len(q) : q[j] \in A <=> q[j][1] = c
      <4>1. TAKE j \in 1..Len(q)
      <4>2. PICK e \in Chs, t \in States : q[j] = <<e, t>> /\ q[j][1] = e
        BY <1>3
      <4>3. <<e, t>> \in Upserts(c) <=> e = c
        BY <4>2, FramesOf
      <4> QED BY <4>2, <4>3
    <3>2. q[i] \in A => \A j \in 1..(i - 1) : q[j] \notin A
      <4>1. \A j \in 1..(i - 1) : j \in 1..Len(q)
        BY <1>2
      <4> QED BY <1>1, <2>2, <3>1, <4>1
    <3>3. q \in Seq(S) /\ EndsWith(q, A, a)
      BY <1>2, <2>2 DEF Recorded
    <3> HIDE DEF A, a, S
    <3>4. /\ EndsWith(Without(q, i), A, a)
          /\ q[i] \notin A /\ Mentions(q, A) => Mentions(Without(q, i), A)
          /\ q[i] \in A /\ ~Mentions(Without(q, i), A) => q[i] = a
      BY <3>2, <3>3, EndsWithout
    <3>5. ~Mentions(Without(q, i), A) => cached'[c] = relay[c]
      <4>1. CASE d = c
        <5>1. q[i] \in A
          BY <1>4, <3>1, <4>1
        <5>2. ~Mentions(Without(q, i), A) => <<d, s>> = <<c, relay[c]>>
          BY <1>4, <3>4, <5>1 DEF a
        <5> QED BY <1>5, <4>1, <5>2
      <4>2. CASE d # c
        <5>1. q[i] \notin A
          BY <1>4, <3>1, <4>2
        <5> QED BY <1>5, <2>2, <3>4, <4>2, <5>1 DEF Recorded, A
      <4> QED BY <4>1, <4>2
    <3> QED BY <1>1, <3>4, <3>5 DEF Recorded, A, a
  <2> QED BY <1>1, <2>1, <2>2 DEF Followed
<1> QED BY <1>6, <1>7, <1>8

LEMMA NextCInv == CInv /\ [Next]_vars => CInv'
<1> SUFFICES ASSUME CInv, [Next]_vars PROVE CInv'
  OBVIOUS
<1>1. CASE Connect
  BY <1>1, ConnectKeeps
<1>2. CASE DeviceDisconnects
  <2>1. /\ link' = 0
        /\ UNCHANGED <<relay, opened, changes, wire, ready, auth, registered, refused, isOnline, cached,
                       offlineUpdates, stateUpserts, overtaken>>
    BY <1>2 DEF DeviceDisconnects, dbVars
  <2> QED BY <2>1 DEF CInv, Types, ConnsKnown, FramesKnown, OpenLink
<1>3. ASSUME NEW c \in Chs, RelayChanges(c) PROVE CInv'
  BY <1>3, RelayChangesKeeps
<1>4. ASSUME NEW k \in Conns, ConnStep(k) PROVE CInv'
  BY <1>4, AuthFrameKeeps, EarlyFrameKeeps, StateFrameKeeps, QuietConnKeeps DEF ConnStep
<1>5. ASSUME NEW i \in 1..Len(stateUpserts), RecordStateChange(i) PROVE CInv'
  BY <1>5, RecordKeeps
<1>6. CASE UNCHANGED vars
  BY <1>6 DEF vars, CInv, Types, ConnsKnown, FramesKnown, OpenLink, Followed, Recorded
<1> QED BY <1>1, <1>2, <1>3, <1>4, <1>5, <1>6 DEF Next

LEMMA CInvHolds == Spec => []CInv
BY InitCInv, NextCInv, PTL DEF Spec

\* The frames under way, the statements still to run and the cache keep their types.
THEOREM SessionTypeCorrect == Spec => []TypeOK
<1>1. CInv => TypeOK
  <2> SUFFICES ASSUME Types PROVE TypeOK
    BY DEF CInv
  <2>1. \A k \in Conns : \A i \in 1..Len(wire[k]) : wire[k][i] \in StateFrames \cup {AuthFrame}
    BY DEF Types, Frame
  <2>2. link \in 0..MaxConns
    BY BoundsType DEF Types
  <2>3. \A i \in 1..Len(stateUpserts) : stateUpserts[i] \in Chs \X States
    BY DEF Types
  <2> QED BY <2>1, <2>2, <2>3 DEF Types, TypeOK
<1> QED BY <1>1, CInvHolds, PTL

\* The replay on connect does its work for any number of channels, connections and changes: a
\* registered connection with nothing left to handle leaves the cache equal to the relays, unless
\* a report has overtaken another (cloud_client.cpp: "so the cloud's cached view resyncs").
THEOREM CacheIsResynced == Spec => []CacheFollowsRelays
<1>1. CInv => CacheFollowsRelays
  <2> SUFFICES ASSUME CInv, ~overtaken, Quiet, link # 0, ready[link] = "OPEN", wire[link] = <<>>
               PROVE  cached = relay
    BY DEF CacheFollowsRelays, CacheResynced
  <2>1. \A c \in Chs : Followed(c)
    BY DEF CInv, OpenLink
  <2>2. stateUpserts = <<>>
    BY DEF Quiet
  <2>3. \A A : ~Mentions(wire[link], A) /\ ~Mentions(stateUpserts, A)
    BY <2>2 DEF Mentions
  <2>4. \A c \in Chs : cached[c] = relay[c]
    BY <2>1, <2>3 DEF Followed, Recorded
  <2> QED BY <2>4 DEF CInv, Types
<1> QED BY <1>1, CInvHolds, PTL

-----------------------------------------------------------------------------
(* The registry that feeds them is DeviceRelay's.                          *)

\* What is registered has authenticated, an open connection that has is
\* registered, and connections are opened in turn.
RInv ==
    /\ auth \in [Conns -> {"no", "checking", "marked", "yes"}]
    /\ ready \in [Conns -> {"unopened", "OPEN", "CLOSING", "CLOSED"}]
    /\ opened \in 0..MaxConns
    /\ \A k \in Conns : k > opened => ready[k] = "unopened" /\ auth[k] = "no"
    /\ \A k \in Conns : auth[k] = "yes" /\ ready[k] = "OPEN" => registered = k
    /\ registered # 0 => registered \in Conns /\ auth[registered] = "yes"

LEMMA InitRInv == Init => RInv
BY BoundsType DEF Init, RInv

LEMMA ConnStepRInv == ASSUME RInv, NEW k \in Conns, ConnStep(k) PROVE RInv'
<1> USE DEF RInv, dbVars
<1>0. Conns \subseteq Nat /\ 0 \notin Conns /\ MaxConns \in Nat
  BY BoundsType DEF Conns
<1>1. CASE HandleAuthFrame(k)
  BY <1>1 DEF HandleAuthFrame, TakesFrame
<1>2. CASE HandleEarlyFrame(k)
  BY <1>2 DEF HandleEarlyFrame, TakesFrame, Closing
<1>3. CASE HandleStateFrame(k)
  BY <1>3 DEF HandleStateFrame
<1>4. CASE MarkOnline(k)
  BY <1>4 DEF MarkOnline
<1>5. CASE FinishAuth(k)
  <2>1. auth[k] = "marked" /\ auth' = [auth EXCEPT ![k] = "yes"] /\ registered' = k
        /\ ready' = Closing(registered) /\ UNCHANGED opened
    BY <1>5 DEF FinishAuth
  <2>2. \A j \in Conns : ready'[j] = IF j = registered /\ ready[j] = "OPEN" THEN "CLOSING" ELSE ready[j]
    BY <1>0, <2>1 DEF Closing
  <2>3. ready' \in [Conns -> {"unopened", "OPEN", "CLOSING", "CLOSED"}]
    BY <2>1 DEF Closing
  <2>4. \A j \in Conns : auth'[j] = IF j = k THEN "yes" ELSE auth[j]
    BY <2>1
  <2>5. \A j \in Conns : j > opened => ready'[j] = "unopened" /\ auth'[j] = "no"
    BY <2>1, <2>2, <2>4
  <2>6. \A j \in Conns : auth'[j] = "yes" /\ ready'[j] = "OPEN" => j = k
    BY <2>2, <2>4
  <2>7. auth' \in [Conns -> {"no", "checking", "marked", "yes"}]
    BY <2>1
  <2> QED BY <1>0, <2>1, <2>3, <2>4, <2>5, <2>6, <2>7
<1>6. CASE StartClose(k)
  BY <1>6 DEF StartClose, Closing
<1>7. CASE CloseEvent(k)
  BY <1>7 DEF CloseEvent
<1>8. CASE MarkOffline(k)
  BY <1>8 DEF MarkOffline
<1> QED BY <1>1, <1>2, <1>3, <1>4, <1>5, <1>6, <1>7, <1>8 DEF ConnStep

LEMMA NextRInv == RInv /\ [Next]_vars => RInv'
<1> SUFFICES ASSUME RInv, [Next]_vars PROVE RInv'
  OBVIOUS
<1>1. CASE Connect
  <2>1. opened + 1 \in Conns /\ opened + 1 \in 0..MaxConns /\ Conns \subseteq Nat
    BY <1>1, BoundsType DEF RInv, Connect, Conns
  <2> QED BY <1>1, <2>1 DEF RInv, Connect
<1>2. CASE DeviceDisconnects
  BY <1>2 DEF RInv, DeviceDisconnects
<1>3. ASSUME NEW c \in Chs, RelayChanges(c) PROVE RInv'
  BY <1>3 DEF RInv, RelayChanges
<1>4. ASSUME NEW k \in Conns, ConnStep(k) PROVE RInv'
  BY <1>4, ConnStepRInv
<1>5. ASSUME NEW i \in 1..Len(stateUpserts), RecordStateChange(i) PROVE RInv'
  BY <1>5 DEF RInv, RecordStateChange
<1>6. CASE UNCHANGED vars
  BY <1>6 DEF RInv, vars
<1> QED BY <1>1, <1>2, <1>3, <1>4, <1>5, <1>6 DEF Next

\* The handler's progress, as the registry's closure has it.
AuthSeen == [k \in Conns |-> IF auth[k] = "marked" THEN "checking" ELSE auth[k]]
Alive == [k \in Conns |-> auth[k] = "yes"]
Entry == [d \in {Device} |-> registered]

LEMMA Unseen ==
    ASSUME UNCHANGED <<ready, auth, registered>> PROVE UNCHANGED Registry!vars
BY DEF Registry!vars

\* ws.close() is the same in both modules.
LEMMA ClosingSame ==
    ASSUME RInv
    PROVE  /\ \A k \in Conns : Closing(k) = Registry!Closing({k})
           /\ Closing(0) = Registry!Closing({})
<1> USE DEF Closing, Registry!Closing, RInv
<1>1. 0 \notin Conns
  BY DEF Conns
<1>2. ASSUME NEW k \in Conns PROVE Closing(k) = Registry!Closing({k})
  BY <1>1, <1>2
<1>3. Closing(0) = Registry!Closing({})
  OBVIOUS
<1> QED BY <1>2, <1>3

LEMMA RegistryStep ==
    ASSUME RInv, NEW k \in Conns, ConnStep(k) PROVE [Registry!Next]_(Registry!vars)
<1>0. 0 \notin Conns /\ [j \in Conns |-> Device][k] = Device
  BY BoundsType DEF Conns
<1>1. CASE HandleAuthFrame(k)
  <2>1. ready[k] \in {"OPEN", "CLOSING"} /\ auth[k] = "no" /\ auth' = [auth EXCEPT ![k] = "checking"]
        /\ UNCHANGED <<ready, registered>>
    BY <1>1 DEF HandleAuthFrame, TakesFrame
  <2>2. AuthSeen[k] = "no" /\ AuthSeen' = [AuthSeen EXCEPT ![k] = "checking"] /\ Alive' = Alive
    BY <2>1 DEF RInv, AuthSeen, Alive
  <2>3. Registry!AuthFrame(k)
    BY <2>1, <2>2 DEF Registry!AuthFrame, AuthSeen, Alive, Registry!reqVars
  <2> QED BY <2>3 DEF Registry!Next, Registry!SocketStep
<1>2. CASE HandleEarlyFrame(k)
  <2>1. auth[k] # "yes" /\ ready' = Closing(k) /\ UNCHANGED <<auth, registered>>
    BY <1>2 DEF HandleEarlyFrame
  <2>2. CASE ready[k] = "OPEN"
    <3>1. AuthSeen[k] # "yes"
      BY <2>1 DEF RInv, AuthSeen
    <3>2. Registry!CloseUnauthenticated(k)
      BY <2>1, <2>2, <3>1, ClosingSame DEF Registry!CloseUnauthenticated, AuthSeen, Registry!reqVars
    <3> QED BY <3>2 DEF Registry!Next, Registry!SocketStep
  <2>3. CASE ready[k] # "OPEN"
    BY <2>1, <2>3, Unseen DEF Closing
  <2> QED BY <2>2, <2>3
<1>3. CASE HandleStateFrame(k)
  BY <1>3, Unseen DEF HandleStateFrame
<1>4. CASE MarkOnline(k)
  <2>1. auth[k] = "checking" /\ auth' = [auth EXCEPT ![k] = "marked"] /\ UNCHANGED <<ready, registered>>
    BY <1>4 DEF MarkOnline
  <2>2. AuthSeen' = AuthSeen /\ Alive' = Alive
    BY <2>1 DEF RInv, AuthSeen, Alive
  <2>3. UNCHANGED Registry!vars
    BY <2>1, <2>2 DEF Registry!vars, AuthSeen, Alive
  <2> QED BY <2>3
<1>5. CASE FinishAuth(k)
  <2>1. auth[k] = "marked" /\ auth' = [auth EXCEPT ![k] = "yes"] /\ ready' = Closing(registered)
        /\ registered' = k
    BY <1>5 DEF FinishAuth
  <2>2. AuthSeen[k] = "checking" /\ AuthSeen' = [AuthSeen EXCEPT ![k] = "yes"]
        /\ Alive' = [Alive EXCEPT ![k] = TRUE]
    BY <2>1 DEF RInv, AuthSeen, Alive
  <2>3. registered # k /\ registered \in Conns \cup {0}
    BY <1>0, <2>1 DEF RInv
  <2>4. Entry' = [Entry EXCEPT ![Device] = k] /\ Entry[Device] = registered
    BY <2>1 DEF Entry
  <2>5. {registered} \ {k, 0} = IF registered = 0 THEN {} ELSE {registered}
    BY <2>3
  <2>6. ready' = Registry!Closing({registered} \ {k, 0})
    BY <2>1, <2>3, <2>5, ClosingSame
  <2>7. Registry!RegisterDevice(k)
    BY <1>0, <2>4, <2>6 DEF Registry!RegisterDevice, Entry
  <2>8. Registry!AuthAccepted(k)
    BY <2>2, <2>7 DEF Registry!AuthAccepted, AuthSeen, Alive, Registry!reqVars
  <2> QED BY <2>8 DEF Registry!Next, Registry!SocketStep
<1>6. CASE StartClose(k)
  <2>1. ready[k] = "OPEN" /\ ready' = Closing(k) /\ UNCHANGED <<auth, registered>>
    BY <1>6 DEF StartClose
  <2>2. Registry!PeerCloses(k)
    BY <2>1, ClosingSame DEF Registry!PeerCloses, Registry!reqVars
  <2> QED BY <2>2 DEF Registry!Next, Registry!SocketStep
<1>7. CASE CloseEvent(k)
  <2>1. ready[k] = "CLOSING" /\ ready' = [ready EXCEPT ![k] = "CLOSED"] /\ UNCHANGED auth
        /\ registered' = IF auth[k] = "yes" /\ registered = k THEN 0 ELSE registered
    BY <1>7 DEF CloseEvent
  <2>2. AuthSeen' = AuthSeen /\ Alive' = Alive /\ (AuthSeen[k] = "yes" <=> auth[k] = "yes")
    BY <2>1 DEF RInv, AuthSeen, Alive
  <2>3. CASE auth[k] = "yes"
    <3>1. Registry!Registered(k) <=> registered = k
      BY <1>0 DEF Registry!Registered
    <3>2. registered' = IF registered = k THEN 0 ELSE registered
      BY <2>1, <2>3
    <3>3. Entry' = IF registered = k THEN [Entry EXCEPT ![Device] = 0] ELSE Entry
      BY <3>2 DEF Entry
    <3>4. Registry!UnregisterDevice(k)
      BY <1>0, <3>1, <3>3 DEF Registry!UnregisterDevice, Entry
    <3>5. Registry!RejectPendingForDevice(Device)
      BY DEF Registry!RejectPendingForDevice, Registry!Settle
    <3>6. Registry!CloseEvent(k)
      BY <1>0, <2>1, <2>2, <2>3, <3>4, <3>5 DEF Registry!CloseEvent, AuthSeen, Alive
    <3> QED BY <3>6 DEF Registry!Next, Registry!SocketStep
  <2>4. CASE auth[k] # "yes"
    <3>1. UNCHANGED registered
      BY <2>1, <2>4
    <3>2. Registry!CloseEvent(k)
      BY <2>1, <2>2, <2>4, <3>1 DEF Registry!CloseEvent, AuthSeen, Alive
    <3> QED BY <3>2 DEF Registry!Next, Registry!SocketStep
  <2> QED BY <2>3, <2>4
<1>8. CASE MarkOffline(k)
  BY <1>8, Unseen DEF MarkOffline
<1> QED BY <1>1, <1>2, <1>3, <1>4, <1>5, <1>6, <1>7, <1>8 DEF ConnStep

\* The whole device session is a behaviour of the registry.
THEOREM SessionKeepsRegistry == Spec => RegistryKept
<1>1. Init => Registry!Init
  <2>1. ASSUME Init PROVE Registry!Init
    <3>1. ready = [k \in Conns |-> "unopened"] /\ auth = [k \in Conns |-> "no"] /\ registered = 0
      BY <2>1 DEF Init
    <3>2. AuthSeen = [k \in Conns |-> "no"] /\ Alive = [k \in Conns |-> FALSE]
      BY <3>1 DEF AuthSeen, Alive
    <3> QED BY <3>1, <3>2 DEF Registry!Init, AuthSeen, Alive
  <2> QED BY <2>1
<1>2. RInv /\ [Next]_vars => [Registry!Next]_(Registry!vars)
  <2> SUFFICES ASSUME RInv, [Next]_vars PROVE [Registry!Next]_(Registry!vars)
    OBVIOUS
  <2>1. CASE Connect
    <3>1. opened + 1 \in Conns /\ ready[opened + 1] = "unopened"
      BY <2>1, BoundsType DEF RInv, Connect, Conns
    <3>2. Registry!Open(opened + 1)
      BY <2>1, <3>1 DEF Connect, Registry!Open, Registry!reqVars
    <3> QED BY <3>1, <3>2 DEF Registry!Next, Registry!SocketStep
  <2>2. CASE DeviceDisconnects
    BY <2>2, Unseen DEF DeviceDisconnects
  <2>3. ASSUME NEW c \in Chs, RelayChanges(c) PROVE UNCHANGED Registry!vars
    BY <2>3, Unseen DEF RelayChanges
  <2>4. ASSUME NEW k \in Conns, ConnStep(k) PROVE [Registry!Next]_(Registry!vars)
    BY <2>4, RegistryStep
  <2>5. ASSUME NEW i \in 1..Len(stateUpserts), RecordStateChange(i) PROVE UNCHANGED Registry!vars
    BY <2>5, Unseen DEF RecordStateChange
  <2>6. CASE UNCHANGED vars
    BY <2>6, Unseen DEF vars
  <2> QED BY <2>1, <2>2, <2>3, <2>4, <2>5, <2>6 DEF Next
<1> QED BY <1>1, <1>2, InitRInv, NextRInv, PTL DEF Spec, RegistryKept, Registry!Spec

\* The open connection that has authenticated is the one that is registered,
\* so its frames feed the cache and its close marks the device offline.
THEOREM NewestSessionWins == Spec => []Registry!OneLiveConnection
<1>1. RInv => Registry!OneLiveConnection
  BY DEF RInv, Registry!OneLiveConnection, Registry!Registered
<1> QED BY <1>1, InitRInv, NextRInv, PTL DEF Spec

-----------------------------------------------------------------------------
(* The configuration.                                                      *)

GoodRows == {given \in H!SwitchRows : \A c \in HwChannels : ~given[c].row => given[c].mode = "DISABLED"}
HwFrames == [channels : GoodRows, interlock : H!Flags]
PlaceOk(s) == s.placeSet <=> s.place # H!Unset
HwCaches == [hw : [HwChannels -> [mode : H!Modes, name : H!Names]], interlock : H!Flags]

\* The rows, and what the requests and the pushes have read of them.
RowsTyped ==
    /\ settings \in H!Settings /\ PlaceOk(settings)
    /\ switches \in GoodRows
    /\ seen \in [HwReqs -> [settings : H!Settings, switch : H!Switches]]
    /\ \A r \in HwReqs : PlaceOk(seen[r].settings)
    /\ read \in [H!Procs -> [switches : {<<>>} \union {<<given>> : given \in GoodRows},
                           interlock : H!Flags \union {H!Unset}]]

BoardTyped ==
    /\ online \in BOOLEAN /\ seeded \in BOOLEAN /\ calm \in BOOLEAN
    /\ hwLink \in Seq(HwFrames)
    /\ cache \in HwCaches

\* The body of a request is the one its step handles.
BodyFits(r) ==
    /\ op[r] \in IF hwPc[r] \in {"read", "write", "delete"} THEN Bodies ELSE {H!NoOp}
    /\ hwPc[r] = "read" => op[r].kind \in {"settings", "patch"}
    /\ hwPc[r] = "delete" => op[r].kind = "delete"

StepsTyped ==
    /\ hwPc \in [H!Procs -> {"idle", "read", "write", "delete", "seed", "push", "done"}]
    /\ op \in [HwReqs -> H!AllBodies \union {H!NoOp}]
    /\ \A r \in HwReqs : BodyFits(r)
    /\ BoardTyped

\* Deleted switches.
DeletedInv ==
    /\ removed \subseteq HwChannels
    /\ \A c \in removed : ~switches[c].row
    /\ removed # {} => seeded
    /\ seeded => settings.row

\* A closed socket carries nothing, and only a push has read what to send.
SocketInv ==
    /\ ~online => hwLink = <<>>
    /\ \A p \in H!Procs : hwPc[p] # "push" => read[p] = H!NothingRead

OneBusy == \A p \in H!Procs, q \in H!Procs : H!Started(p) /\ H!Started(q) => p = q

PushCurrent ==
    \A p \in H!Procs : hwPc[p] = "push" =>
        /\ read[p].switches \in {<<>>, <<switches>>}
        /\ read[p].interlock \in {H!Unset, settings.interlock}

SeenCurrent ==
    \A r \in HwReqs : hwPc[r] = "write" /\ op[r].kind = "settings" =>
        seen[r].settings.interlock = settings.interlock

\* The last frame, or what the board has when none is on its way.
LastCurrent ==
    \/ hwLink = <<>> /\ H!Behaves
    \/ /\ hwLink # <<>>
       /\ hwLink[Len(hwLink)].interlock = settings.interlock
       /\ \A c \in HwChannels : hwLink[Len(hwLink)].channels[c].mode = switches[c].mode

WillPush == \E p \in H!Procs : hwPc[p] \in {"seed", "push"}

\* While no two handlers overlapped.
CalmInv == calm => online /\ OneBusy /\ PushCurrent /\ SeenCurrent /\ (WillPush \/ LastCurrent)

HInv == RowsTyped /\ StepsTyped /\ DeletedInv /\ SocketInv /\ CalmInv

-----------------------------------------------------------------------------
USE DEF H!Procs

\* What the body of a request has in its fields.
LEMMA BodyFields ==
    ASSUME NEW body \in H!AllBodies
    PROVE  /\ body.kind \in {"settings", "timezone", "post", "patch", "delete"}
           /\ body.kind = "settings" => body.interlock \in H!Flags \union {H!Omitted} /\ body.place \in {"here", H!Omitted}
           /\ body.kind \in {"post", "patch"} =>
                body.ch \in HwChannels /\ body.name \in {"given", H!Omitted} /\ body.zone \in H!Zones \union {H!Omitted}
                /\ body.mode \in H!Modes \union {H!Omitted}
           /\ body.kind = "delete" => body.ch \in HwChannels
BY DEF H!AllBodies, H!SettingsBodies, H!TimezoneBodies, H!SwitchBodies, H!DeleteBodies

LEMMA RowFields ==
    ASSUME NEW s \in H!Settings
    PROVE  s.row \in BOOLEAN /\ s.interlock \in H!Flags /\ s.place \in H!Places /\ s.placeSet \in BOOLEAN
BY DEF H!Settings

LEMMA SwitchFields ==
    ASSUME NEW s \in H!Switches
    PROVE  s.row \in BOOLEAN /\ s.name \in H!Names /\ s.zone \in H!Zones /\ s.mode \in H!Modes
BY DEF H!Switches

LEMMA GoodRow ==
    ASSUME NEW given \in GoodRows, NEW c \in HwChannels
    PROVE  given[c] \in H!Switches /\ (~given[c].row => given[c].mode = "DISABLED")
BY DEF GoodRows, H!SwitchRows

\* Setting one row: a channel without one has no input mode.
LEMMA SetRow ==
    ASSUME NEW given \in GoodRows, NEW c \in HwChannels, NEW s \in H!Switches, ~s.row => s.mode = "DISABLED"
    PROVE  [given EXCEPT ![c] = s] \in GoodRows
BY DEF GoodRows, H!SwitchRows

\* The rows the code makes up have their types.
LEMMA NoSwitchTyped ==
    /\ H!NoSwitch \in H!Switches /\ H!DefaultSwitch \in H!Switches /\ ~H!NoSwitch.row
    /\ H!NoSwitch.mode = "DISABLED" /\ H!DefaultSwitch.mode = "DISABLED"
BY DEF H!NoSwitch, H!DefaultSwitch, H!Switches, H!Names, H!Zones, H!Modes

LEMMA NothingTyped ==
    /\ H!DefaultSettings \in H!Settings /\ PlaceOk(H!DefaultSettings) /\ ~H!DefaultSettings.row
    /\ H!NothingSeen \in [settings : H!Settings, switch : H!Switches] /\ H!NothingSeen.settings = H!DefaultSettings
<1>1. H!DefaultSettings \in H!Settings /\ PlaceOk(H!DefaultSettings) /\ ~H!DefaultSettings.row
  BY DEF H!DefaultSettings, H!Settings, PlaceOk, H!Flags, H!Places, H!Unset
<1> QED BY <1>1, NoSwitchTyped DEF H!NothingSeen

-----------------------------------------------------------------------------
LEMMA HInit ==
    ASSUME H!ConstantsAssumption, H!Init
    PROVE  HInv
<1>1. RowsTyped
  <2>1. switches \in GoodRows BY NoSwitchTyped DEF H!Init, GoodRows, H!SwitchRows
  <2>2. read \in [H!Procs -> [switches : {<<>>} \union {<<given>> : given \in GoodRows},
                           interlock : H!Flags \union {H!Unset}]]
    <3>1. H!NothingRead \in [switches : {<<>>} \union {<<given>> : given \in GoodRows},
                           interlock : H!Flags \union {H!Unset}] BY DEF H!NothingRead
    <3> QED BY <3>1 DEF H!Init
  <2>3. settings \in H!Settings /\ PlaceOk(settings) BY NothingTyped DEF H!Init
  <2>4. /\ seen \in [HwReqs -> [settings : H!Settings, switch : H!Switches]]
        /\ \A r \in HwReqs : PlaceOk(seen[r].settings)
    BY NothingTyped DEF H!Init
  <2> QED BY <2>1, <2>2, <2>3, <2>4 DEF RowsTyped
<1>2. StepsTyped
  <2>1. H!BlankCache \in HwCaches BY DEF H!BlankCache, HwCaches, H!Modes, H!Names, H!Flags
  <2>2. hwLink \in Seq(HwFrames) BY DEF H!Init
  <2>3. op \in [HwReqs -> H!AllBodies \union {H!NoOp}] BY DEF H!Init
  <2>4. \A r \in HwReqs : hwPc[r] = "idle" /\ op[r] = H!NoOp BY DEF H!Init
  <2>5. hwPc \in [H!Procs -> {"idle", "read", "write", "delete", "seed", "push", "done"}] BY DEF H!Init
  <2> QED BY <2>1, <2>2, <2>3, <2>4, <2>5 DEF H!Init, StepsTyped, BodyFits, BoardTyped
<1>3. DeletedInv BY NothingTyped DEF H!Init, DeletedInv
<1>4. SocketInv BY DEF H!Init, SocketInv
<1>5. CalmInv BY DEF H!Init, CalmInv
<1> QED BY <1>1, <1>2, <1>3, <1>4, <1>5 DEF HInv

\* A request begins while no other handler runs, or the run is no longer calm.
LEMMA HBegin ==
    ASSUME H!ConstantsAssumption, HInv, NEW r \in HwReqs, NEW body \in Bodies, H!Begin(r, body)
    PROVE  HInv'
<1> USE DEF HInv, H!Begin
<1>b. body \in H!AllBodies BY DEF H!ConstantsAssumption
<1>k. body.kind \in {"settings", "timezone", "post", "patch", "delete"} BY <1>b, BodyFields
<1>f. /\ body.kind \in {"settings", "patch"} => H!FirstStep(body) = "read"
      /\ body.kind \in {"post", "timezone"} => H!FirstStep(body) = "write"
      /\ body.kind = "delete" => H!FirstStep(body) = "delete"
  BY DEF H!FirstStep
<1>p. /\ hwPc'[r] = H!FirstStep(body) /\ op'[r] = body /\ hwPc[r] = "idle"
      /\ \A q \in H!Procs : q # r => hwPc'[q] = hwPc[q]
      /\ \A q \in HwReqs : q # r => op'[q] = op[q]
  BY DEF StepsTyped, BodyFits, BoardTyped, H!Upcoming
<1>1. RowsTyped' BY DEF RowsTyped
<1>2. StepsTyped'
  <2>1. H!FirstStep(body) \in {"read", "write", "delete"} BY <1>k, <1>f
  <2>2. hwPc' \in [H!Procs -> {"idle", "read", "write", "delete", "seed", "push", "done"}]
    BY <2>1 DEF StepsTyped, BodyFits, BoardTyped
  <2>3. op' \in [HwReqs -> H!AllBodies \union {H!NoOp}] BY <1>b DEF StepsTyped, BodyFits, BoardTyped
  <2>4. calm' \in BOOLEAN /\ UNCHANGED <<online, seeded, hwLink, cache>> BY DEF StepsTyped, BodyFits, BoardTyped
  <2>7. /\ online' \in BOOLEAN /\ seeded' \in BOOLEAN
        /\ hwLink' \in Seq(HwFrames) /\ cache' \in HwCaches
    BY <2>4 DEF StepsTyped, BodyFits, BoardTyped
  <2>5. \A q \in HwReqs : op'[q] \in IF hwPc'[q] \in {"read", "write", "delete"} THEN Bodies ELSE {H!NoOp}
    BY <1>p, <2>1 DEF StepsTyped, BodyFits, BoardTyped
  <2>6. \A q \in HwReqs : /\ hwPc'[q] = "read" => op'[q].kind \in {"settings", "patch"}
                          /\ hwPc'[q] = "delete" => op'[q].kind = "delete"
    BY <1>p, <1>f, <1>k DEF StepsTyped, BodyFits, BoardTyped
  <2> HIDE DEF HInv, H!Begin
  <2>8. /\ (hwPc \in [H!Procs -> {"idle", "read", "write", "delete", "seed", "push", "done"}])'
        /\ (op \in [HwReqs -> H!AllBodies \union {H!NoOp}])'
    BY <2>2, <2>3
  <2>9. (\A q \in HwReqs : BodyFits(q))' BY <2>5, <2>6 DEF BodyFits
  <2>10. BoardTyped' BY <2>7, <2>4 DEF BoardTyped
  <2> QED BY <2>8, <2>9, <2>10 DEF StepsTyped
<1>3. DeletedInv' BY DEF DeletedInv
<1>4. SocketInv' BY <1>p, <1>k, <1>f DEF SocketInv
<1>5. CalmInv'
  <2> SUFFICES ASSUME calm' PROVE (online /\ OneBusy /\ PushCurrent /\ SeenCurrent /\ (WillPush \/ LastCurrent))'
    BY DEF CalmInv
  <2>1. calm /\ \A q \in H!Procs : ~H!Started(q) BY DEF H!Busy
  <2>2. online' BY <2>1 DEF CalmInv
  <2>3. OneBusy' BY <2>1, <1>p DEF OneBusy, H!Started
  <2>4. PushCurrent' BY <2>1, <1>p, <1>k, <1>f DEF CalmInv, PushCurrent
  <2>5. SeenCurrent'
    <3>1. \A q \in HwReqs : q # r => hwPc'[q] # "write" BY <2>1, <1>p DEF H!Started
    <3> QED BY <3>1, <1>p, <1>k, <1>f DEF SeenCurrent
  <2>6. LastCurrent'
    <3>1. ~WillPush BY <2>1 DEF WillPush, H!Started
    <3> QED BY <2>1, <3>1 DEF CalmInv, LastCurrent, H!Behaves
  <2> QED BY <2>2, <2>3, <2>4, <2>5, <2>6
<1> QED BY <1>1, <1>2, <1>3, <1>4, <1>5 DEF HInv

\* A step of p that is not its last keeps that no other is under way; what it
\* moves on to.
\* A handler that goes on, alone, is still alone.
LEMMA KeepsOneBusy ==
    ASSUME OneBusy, NEW p \in H!Procs, H!Started(p), \A q \in H!Procs : q # p => hwPc'[q] = hwPc[q]
    PROVE  OneBusy' /\ \A q \in H!Procs : q # p => ~H!Started(q) /\ ~H!Started(q)'
BY DEF OneBusy, H!Started

\* The current row is read: it is as it is stored.
LEMMA HReadCurrent ==
    ASSUME H!ConstantsAssumption, HInv, NEW r \in HwReqs, H!ReadCurrent(r)
    PROVE  HInv'
<1> USE DEF HInv, H!ReadCurrent
<1>p. /\ hwPc'[r] = "write" /\ hwPc[r] = "read"
      /\ \A q \in H!Procs : q # r => hwPc'[q] = hwPc[q]
      /\ \A q \in HwReqs : q # r => seen'[q] = seen[q]
  BY DEF StepsTyped, BodyFits, BoardTyped, RowsTyped
<1>o. op[r] \in H!AllBodies /\ op[r].kind \in {"settings", "patch"}
  BY <1>p DEF StepsTyped, BodyFits, BoardTyped, H!ConstantsAssumption
<1>s. /\ seen'[r] \in [settings : H!Settings, switch : H!Switches] /\ PlaceOk(seen'[r].settings)
      /\ op[r].kind = "settings" => seen'[r].settings = settings
  <2>1. CASE op[r].kind = "settings"
    <3>1. seen'[r] = [seen[r] EXCEPT !.settings = settings] BY <2>1 DEF RowsTyped
    <3>2. seen'[r] \in [settings : H!Settings, switch : H!Switches] BY <3>1 DEF RowsTyped
    <3>3. seen'[r].settings = settings BY <3>1 DEF RowsTyped
    <3> QED BY <3>2, <3>3 DEF RowsTyped
  <2>2. CASE op[r].kind = "patch"
    <3>1. seen'[r] = [seen[r] EXCEPT !.switch = switches[op[r].ch]] BY <2>2 DEF RowsTyped
    <3>2. switches[op[r].ch] \in H!Switches BY <2>2, <1>o, BodyFields, GoodRow DEF RowsTyped
    <3>3. seen'[r] \in [settings : H!Settings, switch : H!Switches] BY <3>1, <3>2 DEF RowsTyped
    <3>4. seen'[r].settings = seen[r].settings BY <3>1 DEF RowsTyped
    <3> QED BY <2>2, <3>3, <3>4 DEF RowsTyped
  <2> QED BY <2>1, <2>2, <1>o
<1>1. RowsTyped' BY <1>s, <1>p DEF RowsTyped
<1>2. StepsTyped' BY <1>p, <1>o DEF StepsTyped, BodyFits, BoardTyped
<1>3. DeletedInv' BY DEF DeletedInv
<1>4. SocketInv' BY <1>p DEF SocketInv
<1>5. CalmInv'
  <2> SUFFICES ASSUME calm PROVE (online /\ OneBusy /\ PushCurrent /\ SeenCurrent /\ (WillPush \/ LastCurrent))'
    BY DEF CalmInv
  <2>1. OneBusy' /\ \A q \in H!Procs : q # r => ~H!Started(q)
    BY <1>p, KeepsOneBusy DEF CalmInv, H!Started
  <2>2. PushCurrent' BY <1>p DEF CalmInv, PushCurrent
  <2>3. SeenCurrent' BY <1>p, <1>s DEF CalmInv, SeenCurrent
  <2>4. LastCurrent'
    <3>1. ~WillPush BY <2>1, <1>p DEF WillPush, H!Started
    <3> QED BY <3>1 DEF CalmInv, LastCurrent, H!Behaves
  <2> QED BY <2>1, <2>2, <2>3, <2>4 DEF CalmInv
<1> QED BY <1>1, <1>2, <1>3, <1>4, <1>5 DEF HInv

\* The last statement of a request: what it leaves behind.
LEMMA HwForgotten ==
    ASSUME HInv, NEW r \in HwReqs, NEW next \in {"push", "done"},
           hwPc[r] \in {"write", "delete"}, hwPc' = [hwPc EXCEPT ![r] = next], H!Forget(r)
    PROVE  /\ hwPc'[r] = next /\ \A q \in H!Procs : q # r => hwPc'[q] = hwPc[q]
           /\ hwPc' \in [H!Procs -> {"idle", "read", "write", "delete", "seed", "push", "done"}]
           /\ op' \in [HwReqs -> H!AllBodies \union {H!NoOp}]
           /\ seen' \in [HwReqs -> [settings : H!Settings, switch : H!Switches]]
           /\ \A q \in HwReqs : PlaceOk(seen'[q].settings)
           /\ \A q \in HwReqs : op'[q] \in IF hwPc'[q] \in {"read", "write", "delete"} THEN Bodies ELSE {H!NoOp}
           /\ \A q \in HwReqs : /\ hwPc'[q] = "read" => op'[q].kind \in {"settings", "patch"}
                                /\ hwPc'[q] = "delete" => op'[q].kind = "delete"
           /\ read[r] = H!NothingRead
           /\ op[r] \in Bodies
<1> USE DEF HInv, H!Forget
<1>1. hwPc'[r] = next /\ \A q \in H!Procs : q # r => hwPc'[q] = hwPc[q] BY DEF StepsTyped, BodyFits, BoardTyped
<1>2. /\ hwPc' \in [H!Procs -> {"idle", "read", "write", "delete", "seed", "push", "done"}]
      /\ op' \in [HwReqs -> H!AllBodies \union {H!NoOp}]
  BY DEF StepsTyped, BodyFits, BoardTyped
<1>3. op'[r] = H!NoOp /\ \A q \in HwReqs : q # r => op'[q] = op[q] BY DEF StepsTyped, BodyFits, BoardTyped
<1>4. seen'[r] = H!NothingSeen /\ \A q \in HwReqs : q # r => seen'[q] = seen[q] BY DEF RowsTyped
<1>5. seen' \in [HwReqs -> [settings : H!Settings, switch : H!Switches]] BY NothingTyped DEF RowsTyped
<1>6. \A q \in HwReqs : PlaceOk(seen'[q].settings) BY <1>4, NothingTyped DEF RowsTyped
<1>7. \A q \in HwReqs : op'[q] \in IF hwPc'[q] \in {"read", "write", "delete"} THEN Bodies ELSE {H!NoOp}
  BY <1>1, <1>3 DEF StepsTyped, BodyFits, BoardTyped
<1>8. \A q \in HwReqs : /\ hwPc'[q] = "read" => op'[q].kind \in {"settings", "patch"}
                        /\ hwPc'[q] = "delete" => op'[q].kind = "delete"
  BY <1>1, <1>3 DEF StepsTyped, BodyFits, BoardTyped
<1>9. read[r] = H!NothingRead BY DEF SocketInv
<1>10. op[r] \in Bodies BY DEF StepsTyped, BodyFits, BoardTyped
<1> QED BY <1>1, <1>2, <1>5, <1>6, <1>7, <1>8, <1>9, <1>10

\* Such a step leaves the socket alone and has read nothing for a push.
LEMMA HwForgottenSocket ==
    ASSUME HInv, NEW r \in HwReqs, NEW next \in {"push", "done"},
           hwPc[r] \in {"write", "delete"}, hwPc' = [hwPc EXCEPT ![r] = next], H!Forget(r),
           UNCHANGED <<read, online, hwLink>>
    PROVE  SocketInv'
BY HwForgotten DEF HInv, SocketInv

\* In calm, such a step was the only handler's: no push was under way.
LEMMA HwForgottenCalm ==
    ASSUME HInv, NEW r \in HwReqs, NEW next \in {"push", "done"},
           hwPc[r] \in {"write", "delete"}, hwPc' = [hwPc EXCEPT ![r] = next], H!Forget(r),
           UNCHANGED read, calm
    PROVE  OneBusy' /\ ~WillPush /\ PushCurrent' /\ SeenCurrent'
<1>1. /\ hwPc'[r] = next /\ \A q \in H!Procs : q # r => hwPc'[q] = hwPc[q]
      /\ read[r] = H!NothingRead
  BY HwForgotten
<1>2. OneBusy' /\ \A q \in H!Procs : q # r => ~H!Started(q) /\ ~H!Started(q)'
  BY <1>1, KeepsOneBusy DEF HInv, CalmInv, H!Started
<1>3. ~WillPush BY <1>2 DEF WillPush, H!Started
<1>4. PushCurrent'
  <2>1. \A q \in H!Procs : q # r => hwPc'[q] # "push" BY <1>2 DEF H!Started
  <2> QED BY <2>1, <1>1 DEF PushCurrent, H!NothingRead
<1>5. SeenCurrent'
  <2>1. \A q \in HwReqs : hwPc'[q] # "write" BY <1>1, <1>2 DEF H!Started
  <2> QED BY <2>1 DEF SeenCurrent
<1> QED BY <1>2, <1>3, <1>4, <1>5

\* upsertSettings: both coordinates are written, or the stored ones are.
LEMMA HWriteSettings ==
    ASSUME H!ConstantsAssumption, HInv, NEW r \in HwReqs, H!WriteSettings(r)
    PROVE  HInv'
<1> USE DEF H!WriteSettings
<1> DEFINE next == IF op[r].interlock # H!Omitted THEN "push" ELSE "done"
<1>p. /\ hwPc'[r] = next /\ \A q \in H!Procs : q # r => hwPc'[q] = hwPc[q]
      /\ hwPc' \in [H!Procs -> {"idle", "read", "write", "delete", "seed", "push", "done"}]
      /\ op' \in [HwReqs -> H!AllBodies \union {H!NoOp}]
      /\ seen' \in [HwReqs -> [settings : H!Settings, switch : H!Switches]]
      /\ \A q \in HwReqs : PlaceOk(seen'[q].settings)
      /\ \A q \in HwReqs : op'[q] \in IF hwPc'[q] \in {"read", "write", "delete"} THEN Bodies ELSE {H!NoOp}
      /\ \A q \in HwReqs : /\ hwPc'[q] = "read" => op'[q].kind \in {"settings", "patch"}
                           /\ hwPc'[q] = "delete" => op'[q].kind = "delete"
      /\ op[r] \in Bodies
      /\ SocketInv'
      /\ calm => /\ OneBusy' /\ ~WillPush /\ PushCurrent' /\ SeenCurrent'
  BY HwForgotten, HwForgottenSocket, HwForgottenCalm
<1>o. /\ op[r] \in H!AllBodies /\ op[r].interlock \in H!Flags \union {H!Omitted} /\ op[r].place \in {"here", H!Omitted}
      /\ seen[r].settings \in H!Settings /\ PlaceOk(seen[r].settings)
  BY <1>p, BodyFields DEF H!ConstantsAssumption, HInv, RowsTyped
<1>s. settings' \in H!Settings /\ PlaceOk(settings') /\ settings'.row
      /\ settings'.interlock = H!Given(op[r].interlock, seen[r].settings.interlock)
  BY <1>o, RowFields DEF H!MergedSettings, H!Settings, H!Given, PlaceOk, H!Unset, H!Omitted, H!Places
<1>1. RowsTyped' BY <1>s, <1>p DEF HInv, RowsTyped
<1>2. StepsTyped' BY <1>p DEF HInv, StepsTyped, BodyFits, BoardTyped
<1>3. DeletedInv' BY <1>s DEF HInv, DeletedInv
<1>5. CalmInv'
  <2> SUFFICES ASSUME calm PROVE online' /\ (WillPush \/ LastCurrent)'
    BY <1>p DEF CalmInv
  <2>1. CASE op[r].interlock # H!Omitted BY <2>1, <1>p DEF WillPush, HInv, CalmInv
  <2>2. CASE op[r].interlock = H!Omitted
    <3>1. settings'.interlock = settings.interlock
      BY <2>2, <1>s DEF H!Given, HInv, CalmInv, SeenCurrent
    <3> QED BY <3>1, <1>p DEF HInv, CalmInv, LastCurrent, H!Behaves
  <2> QED BY <2>1, <2>2
<1> QED BY <1>1, <1>2, <1>3, <1>p, <1>5 DEF HInv

LEMMA HWriteTimezone ==
    ASSUME H!ConstantsAssumption, HInv, NEW r \in HwReqs, H!WriteTimezone(r)
    PROVE  HInv'
<1> USE DEF H!WriteTimezone
<1>p. /\ hwPc' \in [H!Procs -> {"idle", "read", "write", "delete", "seed", "push", "done"}]
      /\ op' \in [HwReqs -> H!AllBodies \union {H!NoOp}]
      /\ seen' \in [HwReqs -> [settings : H!Settings, switch : H!Switches]]
      /\ \A q \in HwReqs : PlaceOk(seen'[q].settings)
      /\ \A q \in HwReqs : op'[q] \in IF hwPc'[q] \in {"read", "write", "delete"} THEN Bodies ELSE {H!NoOp}
      /\ \A q \in HwReqs : /\ hwPc'[q] = "read" => op'[q].kind \in {"settings", "patch"}
                           /\ hwPc'[q] = "delete" => op'[q].kind = "delete"
      /\ SocketInv'
      /\ calm => /\ OneBusy' /\ ~WillPush /\ PushCurrent' /\ SeenCurrent'
  BY HwForgotten, HwForgottenSocket, HwForgottenCalm
<1>s. /\ settings' \in H!Settings /\ PlaceOk(settings') /\ settings'.row
      /\ settings'.interlock = settings.interlock
  BY RowFields DEF HInv, RowsTyped, H!Settings, PlaceOk
<1>1. RowsTyped' BY <1>s, <1>p DEF HInv, RowsTyped
<1>2. StepsTyped' BY <1>p DEF HInv, StepsTyped, BodyFits, BoardTyped
<1>3. DeletedInv' BY <1>s DEF HInv, DeletedInv
<1>5. CalmInv' BY <1>s, <1>p DEF HInv, CalmInv, LastCurrent, H!Behaves
<1> QED BY <1>1, <1>2, <1>3, <1>p, <1>5 DEF HInv

LEMMA HWriteSwitch ==
    ASSUME H!ConstantsAssumption, HInv, NEW r \in HwReqs, H!WriteSwitch(r)
    PROVE  HInv'
<1> DEFINE body == H!Asked(r)
<1> DEFINE next == IF H!TouchesBoard(body) THEN "push" ELSE "done"
<1>p. /\ hwPc'[r] = next
      /\ hwPc' \in [H!Procs -> {"idle", "read", "write", "delete", "seed", "push", "done"}]
      /\ op' \in [HwReqs -> H!AllBodies \union {H!NoOp}]
      /\ seen' \in [HwReqs -> [settings : H!Settings, switch : H!Switches]]
      /\ \A q \in HwReqs : PlaceOk(seen'[q].settings)
      /\ \A q \in HwReqs : op'[q] \in IF hwPc'[q] \in {"read", "write", "delete"} THEN Bodies ELSE {H!NoOp}
      /\ \A q \in HwReqs : /\ hwPc'[q] = "read" => op'[q].kind \in {"settings", "patch"}
                           /\ hwPc'[q] = "delete" => op'[q].kind = "delete"
      /\ op[r] \in Bodies
      /\ SocketInv'
      /\ calm => /\ OneBusy' /\ ~WillPush /\ PushCurrent' /\ SeenCurrent'
  BY HwForgotten, HwForgottenSocket, HwForgottenCalm DEF H!WriteSwitch
<1>o. /\ op[r].ch \in HwChannels /\ op[r].name \in {"given", H!Omitted} /\ op[r].zone \in H!Zones \union {H!Omitted}
      /\ op[r].mode \in H!Modes \union {H!Omitted} /\ op[r] \in H!AllBodies
      /\ seen[r].switch \in H!Switches
  BY <1>p, BodyFields DEF H!ConstantsAssumption, HInv, RowsTyped, H!WriteSwitch
<1>b. /\ body.ch \in HwChannels /\ body.name \in H!Names \union {H!Omitted} /\ body.zone \in H!Zones \union {H!Omitted}
      /\ body.mode \in H!Modes \union {H!Omitted}
  <2>1. CASE op[r].kind = "post" BY <2>1, <1>o DEF H!Asked, H!Names
  <2>2. CASE op[r].kind # "post"
    <3>1. op[r] \in H!SwitchBodies
      BY <1>o DEF H!WriteSwitch, H!AllBodies, H!SettingsBodies, H!TimezoneBodies, H!DeleteBodies
    <3> DEFINE n == H!Given(op[r].name, IF seen[r].switch.row THEN seen[r].switch.name ELSE "default")
               z == H!Given(op[r].zone, seen[r].switch.zone)
    <3>2. body = [op[r] EXCEPT !.name = n, !.zone = z] BY <2>2, <3>1 DEF H!Asked, H!SwitchBodies
    <3>3. n \in H!Names /\ z \in H!Zones BY <1>o, SwitchFields DEF H!Given, H!Names, H!Zones, H!Omitted
    <3> HIDE DEF n, z, body
    <3>4. body.ch = op[r].ch /\ body.mode = op[r].mode /\ body.name = n /\ body.zone = z
      BY <3>1, <3>2 DEF H!SwitchBodies
    <3> QED BY <3>3, <3>4, <1>o
  <2> QED BY <2>1, <2>2
<1> HIDE DEF body
<1>w. /\ switches' = [switches EXCEPT ![body.ch] = H!Upserted(body)] /\ removed' = removed \ {body.ch}
      /\ UNCHANGED <<settings, read, online, hwLink, cache, seeded, calm>>
  BY DEF H!WriteSwitch, body
<1>u. H!Upserted(body) \in H!Switches /\ H!Upserted(body).row
      /\ (body.mode = H!Omitted => H!Upserted(body).mode = switches[body.ch].mode)
  <2>1. switches[body.ch].mode \in H!Modes BY <1>b, GoodRow, SwitchFields DEF HInv, RowsTyped
  <2> QED BY <2>1, <1>b DEF H!Upserted, H!Switches, H!Given, H!Names, H!Zones, H!Modes, H!Omitted
<1>g. switches' \in GoodRows BY <1>w, <1>u, <1>b, SetRow DEF HInv, RowsTyped
<1>c. \A c \in HwChannels : c # body.ch => switches'[c] = switches[c]
  BY <1>w DEF HInv, RowsTyped, GoodRows, H!SwitchRows
<1>d. switches'[body.ch] = H!Upserted(body)
  BY <1>w, <1>b DEF HInv, RowsTyped, GoodRows, H!SwitchRows
<1>1. RowsTyped' BY <1>w, <1>g, <1>p DEF HInv, RowsTyped
<1>2. StepsTyped' BY <1>w, <1>p DEF HInv, StepsTyped, BodyFits, BoardTyped
<1>3. DeletedInv' BY <1>w, <1>c DEF HInv, DeletedInv
<1>5. CalmInv'
  <2> SUFFICES ASSUME calm PROVE online' /\ (WillPush \/ LastCurrent)'
    BY <1>p, <1>w DEF CalmInv
  <2>1. CASE H!TouchesBoard(body) BY <2>1, <1>p, <1>w DEF WillPush, HInv, CalmInv
  <2>2. CASE ~H!TouchesBoard(body)
    <3>1. body.mode = H!Omitted BY <2>2 DEF H!TouchesBoard
    <3>2. \A c \in HwChannels : switches'[c].mode = switches[c].mode BY <3>1, <1>c, <1>d, <1>u
    <3> QED BY <3>2, <1>p, <1>w DEF HInv, CalmInv, LastCurrent, H!Behaves
  <2> QED BY <2>1, <2>2
<1> QED BY <1>1, <1>2, <1>3, <1>p, <1>5 DEF HInv

\* A deletion leaves no row, and always asks for a push.
LEMMA HDeleteSwitch ==
    ASSUME H!ConstantsAssumption, HInv, NEW r \in HwReqs, H!DeleteSwitch(r)
    PROVE  HInv'
<1> USE DEF H!DeleteSwitch
<1>p. /\ hwPc'[r] = "push"
      /\ hwPc' \in [H!Procs -> {"idle", "read", "write", "delete", "seed", "push", "done"}]
      /\ op' \in [HwReqs -> H!AllBodies \union {H!NoOp}]
      /\ seen' \in [HwReqs -> [settings : H!Settings, switch : H!Switches]]
      /\ \A q \in HwReqs : PlaceOk(seen'[q].settings)
      /\ \A q \in HwReqs : op'[q] \in IF hwPc'[q] \in {"read", "write", "delete"} THEN Bodies ELSE {H!NoOp}
      /\ \A q \in HwReqs : /\ hwPc'[q] = "read" => op'[q].kind \in {"settings", "patch"}
                           /\ hwPc'[q] = "delete" => op'[q].kind = "delete"
      /\ op[r] \in Bodies
      /\ SocketInv'
      /\ calm => /\ OneBusy' /\ ~WillPush /\ PushCurrent' /\ SeenCurrent'
  BY HwForgotten, HwForgottenSocket, HwForgottenCalm
<1>o. op[r].ch \in HwChannels BY <1>p, BodyFields DEF HInv, StepsTyped, BodyFits, BoardTyped, H!ConstantsAssumption
<1>g. switches' \in GoodRows BY <1>o, NoSwitchTyped, SetRow DEF HInv, RowsTyped
<1>c. /\ \A c \in HwChannels : c # op[r].ch => switches'[c] = switches[c]
      /\ switches'[op[r].ch] = H!NoSwitch
  BY <1>o DEF HInv, RowsTyped, GoodRows, H!SwitchRows
<1>1. RowsTyped' BY <1>g, <1>p DEF HInv, RowsTyped
<1>2. StepsTyped' BY <1>p DEF HInv, StepsTyped, BodyFits, BoardTyped
<1>3. DeletedInv' BY <1>c, <1>o, NoSwitchTyped DEF HInv, DeletedInv
<1>5. CalmInv' BY <1>p DEF HInv, CalmInv, WillPush
<1> QED BY <1>1, <1>2, <1>3, <1>p, <1>5 DEF HInv

\* A new socket starts empty and its handler will push: calm again if no other handler runs.
LEMMA HConnect ==
    ASSUME H!ConstantsAssumption, HInv, NEW c \in HwConns, H!Connect(c)
    PROVE  HInv'
<1> USE DEF H!Connect
<1>p. /\ hwPc'[c] = "seed" /\ hwPc[c] = "idle" /\ \A q \in H!Procs : q # c => hwPc'[q] = hwPc[q]
      /\ hwPc' \in [H!Procs -> {"idle", "read", "write", "delete", "seed", "push", "done"}]
      /\ c \notin HwReqs
  BY DEF HInv, StepsTyped, BodyFits, BoardTyped, H!Upcoming, H!ConstantsAssumption
<1>1. RowsTyped' BY DEF HInv, RowsTyped
<1>2. StepsTyped'
  <2>1. calm' \in BOOLEAN OBVIOUS
  <2>2. \A r \in HwReqs : hwPc'[r] = hwPc[r] BY <1>p
  <2> QED BY <1>p, <2>1, <2>2 DEF HInv, StepsTyped, BodyFits, BoardTyped
<1>3. DeletedInv' BY DEF HInv, DeletedInv
<1>4. SocketInv' BY <1>p DEF HInv, SocketInv
<1>5. CalmInv'
  <2> SUFFICES ASSUME calm' PROVE (OneBusy /\ PushCurrent /\ SeenCurrent /\ WillPush)'
    BY DEF CalmInv
  <2>1. \A q \in H!Procs : ~H!Started(q) BY DEF H!Busy
  <2>2. \A q \in H!Procs : q # c => hwPc'[q] \in {"idle", "done"} BY <2>1, <1>p DEF H!Started
  <2>3. OneBusy' BY <2>2 DEF OneBusy, H!Started
  <2>4. PushCurrent' BY <2>2, <1>p DEF PushCurrent
  <2>5. SeenCurrent' BY <2>2, <1>p DEF SeenCurrent
  <2>6. WillPush' BY <1>p DEF WillPush
  <2> QED BY <2>3, <2>4, <2>5, <2>6
<1> QED BY <1>1, <1>2, <1>3, <1>4, <1>5 DEF HInv

\* Rows are seeded only when there were none, so none that was deleted.
LEMMA HSeed ==
    ASSUME H!ConstantsAssumption, HInv, NEW c \in HwConns, H!Seed(c)
    PROVE  HInv'
<1> USE DEF H!Seed
<1>p. /\ hwPc'[c] = "push" /\ hwPc[c] = "seed" /\ \A q \in H!Procs : q # c => hwPc'[q] = hwPc[q]
      /\ hwPc' \in [H!Procs -> {"idle", "read", "write", "delete", "seed", "push", "done"}]
      /\ c \notin HwReqs /\ read[c] = H!NothingRead
  BY DEF HInv, StepsTyped, BodyFits, BoardTyped, SocketInv, H!ConstantsAssumption
<1>s. /\ settings' \in H!Settings /\ PlaceOk(settings') /\ settings'.row
  BY RowFields DEF HInv, RowsTyped, H!Settings, PlaceOk
<1>g. switches' \in GoodRows
  <2>1. CASE settings.row BY <2>1 DEF HInv, RowsTyped
  <2>2. CASE ~settings.row
    <3>1. switches' = [ch \in HwChannels |-> IF switches[ch].row THEN switches[ch] ELSE H!DefaultSwitch]
      BY <2>2
    <3> QED BY <3>1, NoSwitchTyped, GoodRow DEF HInv, RowsTyped, GoodRows, H!SwitchRows
  <2> QED BY <2>1, <2>2
<1>1. RowsTyped' BY <1>s, <1>g DEF HInv, RowsTyped
<1>2. StepsTyped'
  <2>2. \A r \in HwReqs : hwPc'[r] = hwPc[r] BY <1>p
  <2> QED BY <1>p, <2>2 DEF HInv, StepsTyped, BodyFits, BoardTyped
<1>3. DeletedInv'
  <2>1. CASE settings.row BY <2>1, <1>s DEF HInv, DeletedInv
  <2>2. CASE ~settings.row BY <2>2, <1>s DEF HInv, DeletedInv
  <2> QED BY <2>1, <2>2
<1>4. SocketInv' BY <1>p DEF HInv, SocketInv
<1>5. CalmInv'
  <2> SUFFICES ASSUME calm PROVE (online /\ OneBusy /\ PushCurrent /\ SeenCurrent /\ WillPush)'
    BY DEF CalmInv
  <2>1. OneBusy' /\ \A q \in H!Procs : q # c => ~H!Started(q) /\ ~H!Started(q)'
    BY <1>p, KeepsOneBusy DEF HInv, CalmInv, H!Started
  <2>2. PushCurrent'
    <3>1. \A q \in H!Procs : q # c => hwPc'[q] # "push" BY <2>1 DEF H!Started
    <3> QED BY <3>1, <1>p DEF PushCurrent, H!NothingRead
  <2>3. SeenCurrent'
    <3>1. \A q \in HwReqs : hwPc'[q] # "write" BY <2>1, <1>p DEF H!Started
    <3> QED BY <3>1 DEF SeenCurrent
  <2>4. WillPush' BY <1>p DEF WillPush
  <2> QED BY <2>1, <2>2, <2>3, <2>4 DEF HInv, CalmInv
<1> QED BY <1>1, <1>2, <1>3, <1>4, <1>5 DEF HInv

LEMMA HDisconnect ==
    ASSUME H!ConstantsAssumption, HInv, H!Disconnect
    PROVE  HInv'
<1> USE DEF H!Disconnect
<1>1. RowsTyped' BY DEF HInv, RowsTyped
<1>2. StepsTyped'
  <2>1. hwLink' \in Seq(HwFrames) OBVIOUS
  <2> QED BY <2>1 DEF HInv, StepsTyped, BodyFits, BoardTyped
<1>3. DeletedInv' BY DEF HInv, DeletedInv
<1>4. SocketInv' BY DEF HInv, SocketInv
<1>5. CalmInv' BY DEF CalmInv
<1> QED BY <1>1, <1>2, <1>3, <1>4, <1>5 DEF HInv

LEMMA HReadSwitches ==
    ASSUME H!ConstantsAssumption, HInv, NEW p \in H!Procs, H!ReadSwitches(p)
    PROVE  HInv'
<1> USE DEF H!ReadSwitches
<1>r. /\ read'[p].switches = <<switches>> /\ read'[p].interlock = read[p].interlock
      /\ \A q \in H!Procs : q # p => read'[q] = read[q]
      /\ read' \in [H!Procs -> [switches : {<<>>} \union {<<given>> : given \in GoodRows},
                              interlock : H!Flags \union {H!Unset}]]
  BY DEF HInv, RowsTyped
<1>1. RowsTyped' BY <1>r DEF HInv, RowsTyped
<1>2. StepsTyped' BY DEF HInv, StepsTyped, BodyFits, BoardTyped
<1>3. DeletedInv' BY DEF HInv, DeletedInv
<1>4. SocketInv' BY <1>r DEF HInv, SocketInv
<1>5. CalmInv'
  <2>1. calm => PushCurrent' BY <1>r DEF HInv, CalmInv, PushCurrent
  <2> QED BY <2>1 DEF HInv, CalmInv, OneBusy, H!Started, SeenCurrent, WillPush, LastCurrent, H!Behaves
<1> QED BY <1>1, <1>2, <1>3, <1>4, <1>5 DEF HInv

LEMMA HReadInterlock ==
    ASSUME H!ConstantsAssumption, HInv, NEW p \in H!Procs, H!ReadInterlock(p)
    PROVE  HInv'
<1> USE DEF H!ReadInterlock
<1>r. /\ read'[p].switches = read[p].switches /\ read'[p].interlock = settings.interlock
      /\ \A q \in H!Procs : q # p => read'[q] = read[q]
      /\ read' \in [H!Procs -> [switches : {<<>>} \union {<<given>> : given \in GoodRows},
                              interlock : H!Flags \union {H!Unset}]]
  BY RowFields DEF HInv, RowsTyped
<1>1. RowsTyped' BY <1>r DEF HInv, RowsTyped
<1>2. StepsTyped' BY DEF HInv, StepsTyped, BodyFits, BoardTyped
<1>3. DeletedInv' BY DEF HInv, DeletedInv
<1>4. SocketInv' BY <1>r DEF HInv, SocketInv
<1>5. CalmInv'
  <2>1. calm => PushCurrent' BY <1>r DEF HInv, CalmInv, PushCurrent
  <2> QED BY <2>1 DEF HInv, CalmInv, OneBusy, H!Started, SeenCurrent, WillPush, LastCurrent, H!Behaves
<1> QED BY <1>1, <1>2, <1>3, <1>4, <1>5 DEF HInv

\* The last frame is now the one that was just made of the rows.
LEMMA HSendPush ==
    ASSUME H!ConstantsAssumption, HInv, NEW p \in H!Procs, H!SendPush(p)
    PROVE  HInv'
<1> USE DEF H!SendPush
<1> DEFINE frame == [channels |-> read[p].switches[1], interlock |-> read[p].interlock]
<1>p. /\ hwPc'[p] = "done" /\ \A q \in H!Procs : q # p => hwPc'[q] = hwPc[q]
      /\ hwPc' \in [H!Procs -> {"idle", "read", "write", "delete", "seed", "push", "done"}]
  BY DEF HInv, StepsTyped, BodyFits, BoardTyped
<1>r. /\ read'[p] = H!NothingRead /\ \A q \in H!Procs : q # p => read'[q] = read[q]
      /\ read' \in [H!Procs -> [switches : {<<>>} \union {<<given>> : given \in GoodRows},
                              interlock : H!Flags \union {H!Unset}]]
  <2>1. H!NothingRead \in [switches : {<<>>} \union {<<given>> : given \in GoodRows},
                         interlock : H!Flags \union {H!Unset}] BY DEF H!NothingRead
  <2> QED BY <2>1 DEF HInv, RowsTyped
<1>f. frame \in HwFrames
  <2>1. read[p] \in [switches : {<<>>} \union {<<given>> : given \in GoodRows},
                     interlock : H!Flags \union {H!Unset}] BY DEF HInv, RowsTyped
  <2>2. PICK given \in GoodRows : read[p].switches = <<given>> BY <2>1
  <2>3. read[p].switches[1] = given BY <2>2
  <2> QED BY <2>1, <2>3 DEF HwFrames
<1> HIDE DEF frame
<1>l. hwLink' = IF online THEN Append(hwLink, frame) ELSE hwLink BY DEF frame
<1>1. RowsTyped' BY <1>r DEF HInv, RowsTyped
<1>2. StepsTyped'
  <2>1. hwLink' \in Seq(HwFrames) BY <1>f, <1>l DEF HInv, StepsTyped, BodyFits, BoardTyped
  <2>2. \A r \in HwReqs : hwPc'[r] \in {"read", "write", "delete"} <=> hwPc[r] \in {"read", "write", "delete"}
    BY <1>p
  <2>3. \A r \in HwReqs : (hwPc'[r] = "read" => hwPc[r] = "read") /\ (hwPc'[r] = "delete" => hwPc[r] = "delete")
    BY <1>p
  <2> QED BY <2>1, <2>2, <2>3, <1>p DEF HInv, StepsTyped, BodyFits, BoardTyped
<1>3. DeletedInv' BY DEF HInv, DeletedInv
<1>4. SocketInv' BY <1>p, <1>r, <1>l DEF HInv, SocketInv
<1>5. CalmInv'
  <2> SUFFICES ASSUME calm PROVE (online /\ OneBusy /\ PushCurrent /\ SeenCurrent /\ LastCurrent)'
    BY DEF CalmInv
  <2>1. OneBusy' BY <1>p, KeepsOneBusy DEF HInv, CalmInv, H!Started
  <2>2. PushCurrent' BY <1>p, <1>r DEF HInv, CalmInv, PushCurrent
  <2>3. SeenCurrent' BY <1>p DEF HInv, CalmInv, SeenCurrent
  <2>4. LastCurrent'
    <3>1. hwLink' = Append(hwLink, frame) /\ hwLink \in Seq(HwFrames) BY <1>l DEF HInv, CalmInv, StepsTyped, BodyFits, BoardTyped
    <3>2. hwLink' # <<>> /\ hwLink'[Len(hwLink')] = frame BY <3>1, <1>f
    <3>3. read[p].switches = <<switches>> /\ read[p].interlock = settings.interlock
      BY DEF HInv, CalmInv, PushCurrent
    <3>4. frame.channels = switches /\ frame.interlock = settings.interlock BY <3>3 DEF frame
    <3> QED BY <3>2, <3>4 DEF LastCurrent
  <2> QED BY <2>1, <2>2, <2>3, <2>4 DEF HInv, CalmInv
<1> QED BY <1>1, <1>2, <1>3, <1>4, <1>5 DEF HInv

\* The board has the frame that left the link; the last frame is still the last.
LEMMA HHear ==
    ASSUME H!ConstantsAssumption, HInv, H!Hear
    PROVE  HInv'
<1> USE DEF H!Hear
<1>l. hwLink \in Seq(HwFrames) /\ Len(hwLink) > 0 /\ Head(hwLink) \in HwFrames /\ Head(hwLink) = hwLink[1]
  BY DEF HInv, StepsTyped, BodyFits, BoardTyped
<1>c. /\ cache' \in HwCaches /\ cache'.interlock = Head(hwLink).interlock
      /\ \A c \in HwChannels : cache'.hw[c].mode = Head(hwLink).channels[c].mode
  <2>1. /\ Head(hwLink).channels \in GoodRows /\ Head(hwLink).interlock \in H!Flags BY <1>l DEF HwFrames
  <2>2. \A c \in HwChannels : /\ Head(hwLink).channels[c].name \in H!Names
                              /\ Head(hwLink).channels[c].mode \in H!Modes
                              /\ ~Head(hwLink).channels[c].row => Head(hwLink).channels[c].mode = "DISABLED"
    BY <2>1, GoodRow, SwitchFields
  <2> DEFINE piece(c) == IF Head(hwLink).channels[c].row
               THEN [mode |-> Head(hwLink).channels[c].mode, name |-> Head(hwLink).channels[c].name]
               ELSE [mode |-> "DISABLED", name |-> ""]
  <2>3. \A c \in HwChannels : piece(c) \in [mode : H!Modes, name : H!Names] /\ piece(c).mode = Head(hwLink).channels[c].mode
    BY <2>2 DEF H!Modes, H!Names
  <2>4. cache' = [hw |-> [c \in HwChannels |-> piece(c)], interlock |-> Head(hwLink).interlock] BY DEF H!Heard
  <2> HIDE DEF piece
  <2>5. cache'.hw = [c \in HwChannels |-> piece(c)] /\ cache'.interlock = Head(hwLink).interlock BY <2>4
  <2>6. cache' \in HwCaches BY <2>4, <2>3, <2>1 DEF HwCaches
  <2> QED BY <2>3, <2>5, <2>6
<1>1. RowsTyped' BY DEF HInv, RowsTyped
<1>2. StepsTyped'
  <2>1. hwLink' \in Seq(HwFrames) BY <1>l
  <2> QED BY <2>1, <1>c DEF HInv, StepsTyped, BodyFits, BoardTyped
<1>3. DeletedInv' BY DEF HInv, DeletedInv
<1>4. SocketInv' BY DEF HInv, SocketInv
<1>5. CalmInv'
  <2> SUFFICES ASSUME calm PROVE (online /\ OneBusy /\ PushCurrent /\ SeenCurrent /\ (WillPush \/ LastCurrent))'
    BY DEF CalmInv
  <2>1. (online /\ OneBusy /\ PushCurrent /\ SeenCurrent)'
    BY DEF HInv, CalmInv, OneBusy, H!Started, PushCurrent, SeenCurrent
  <2>2. WillPush => WillPush' BY DEF WillPush
  <2>3. LastCurrent => LastCurrent'
    <3>1. CASE Len(hwLink) = 1
      <4>1. hwLink' = <<>> BY <3>1, <1>l
      <4> QED BY <4>1, <3>1, <1>l, <1>c DEF LastCurrent, H!Behaves
    <3>2. CASE Len(hwLink) # 1
      <4>0. /\ hwLink' = Tail(hwLink) /\ Len(Tail(hwLink)) = Len(hwLink) - 1
            /\ \A i \in 1 .. Len(hwLink) - 1 : Tail(hwLink)[i] = hwLink[i + 1]
        BY <1>l
      <4>1. hwLink' # <<>> /\ Len(hwLink') = Len(hwLink) - 1 /\ hwLink'[Len(hwLink')] = hwLink[Len(hwLink)]
        <5> DEFINE n == Len(hwLink)
        <5>8. n \in Nat /\ n # 0 BY <1>l, LenProperties
        <5>7. n \in Nat /\ n # 0 /\ n # 1 BY <3>2, <5>8
        <5>1. n \in Nat /\ n > 1
          <6> HIDE DEF n
          <6> QED BY <5>7
        <5>2. hwLink' = Tail(hwLink) /\ Len(hwLink') = n - 1 BY <4>0
        <5>3. \A i \in 1 .. n - 1 : Tail(hwLink)[i] = hwLink[i + 1] BY <4>0
        <5> HIDE DEF n
        <5>4. n - 1 \in 1 .. n - 1 /\ (n - 1) + 1 = n BY <5>1
        <5>5. Tail(hwLink)[n - 1] = hwLink[n] BY <5>3, <5>4
        <5>6. hwLink' # <<>> BY <5>1, <5>2
        <5> QED BY <5>2, <5>5, <5>6 DEF n
      <4> QED BY <4>1, <1>l DEF LastCurrent
    <3> QED BY <3>1, <3>2
  <2> QED BY <2>1, <2>2, <2>3 DEF HInv, CalmInv
<1> QED BY <1>1, <1>2, <1>3, <1>4, <1>5 DEF HInv

LEMMA HNext ==
    ASSUME H!ConstantsAssumption, HInv, H!Next
    PROVE  HInv'
BY HBegin, HReadCurrent, HWriteSettings, HWriteTimezone, HWriteSwitch, HDeleteSwitch, HConnect,
   HSeed, HDisconnect, HReadSwitches, HReadInterlock, HSendPush, HHear DEF H!Next

LEMMA HHolds ==
    ASSUME HInv
    PROVE  H!TypeOK /\ H!CalmMeansCurrent /\ H!PlaceWhole /\ H!DeletedStaysDeleted
<1>1. H!CalmMeansCurrent
  <2> SUFFICES ASSUME calm, H!Settled PROVE H!Behaves BY DEF H!CalmMeansCurrent
  <2>1. ~WillPush BY DEF WillPush, H!Settled, H!Busy, H!Started
  <2> QED BY <2>1 DEF HInv, CalmInv, LastCurrent, H!Settled
<1>2. H!PlaceWhole BY DEF HInv, RowsTyped, PlaceOk, H!PlaceWhole
<1>3. H!DeletedStaysDeleted BY DEF HInv, DeletedInv, H!DeletedStaysDeleted
<1>4. H!TypeOK
  <2>1. hwLink \in Seq(HwFrames) BY DEF HInv, StepsTyped, BoardTyped
  <2>2. \A i \in 1 .. Len(hwLink) : hwLink[i] \in HwFrames BY <2>1
  <2>3. GoodRows \subseteq H!SwitchRows BY DEF GoodRows
  <2>4. HwFrames \subseteq [channels : H!SwitchRows, interlock : H!Flags] BY <2>3 DEF HwFrames
  <2>5. \A i \in 1 .. Len(hwLink) : hwLink[i] \in [channels : H!SwitchRows, interlock : H!Flags]
    BY <2>2, <2>4
  <2>6. switches \in H!SwitchRows BY <2>3 DEF HInv, RowsTyped
  <2> QED BY <2>5, <2>6 DEF HInv, RowsTyped, StepsTyped, BodyFits, BoardTyped, DeletedInv, HwCaches, H!TypeOK
<1> QED BY <1>1, <1>2, <1>3, <1>4

-----------------------------------------------------------------------------
(* The schedules.                                                          *)

Copies == [Schedules -> E!Rows]
Mutations == [pc : {"idle", "sent", "done", "failed"}, of : Schedules \cup {E!New}, on : BOOLEAN,
              what : E!Versions, ver : E!Versions, before : {<<>>} \cup Copies]
Fetches == {E!NoFetch, E!Asked} \cup [pc : {"read"}, rows : Copies]

EditTyped ==
    /\ rows \in Copies /\ view \in Copies
    /\ writes \in E!Versions /\ clicks \in 0..MaxClicks /\ dirty \in BOOLEAN
    /\ fetch \in Fetches
    /\ dialog \in [open : BOOLEAN, of : Schedules \cup {E!New}, on : BOOLEAN]
    /\ mut \in [E!Muts -> Mutations]
    /\ owed \in [Schedules -> E!Versions]

\* The rows only get newer.
Newest ==
    \A s \in Schedules : /\ rows[s].ver \in E!Versions /\ rows[s].ver <= writes
                         /\ owed[s] <= rows[s].ver

\* What a mutation that runs is about.
MutOf(m) ==
    /\ mut[m].pc = "done" => mut[m].of \in Schedules /\ mut[m].ver <= rows[mut[m].of].ver
    /\ mut[m].pc # "idle" /\ m # E!Save => mut[m].of = m[2]
    /\ mut[m].pc # "idle" /\ m[1] = "toggle" => mut[m].before \in Copies

FetchNew == fetch.pc = "read" => \A s \in Schedules : fetch.rows[s].ver >= owed[s]

ViewNew ==
    \/ \E s \in Schedules : mut[E!Toggle(s)].pc # "idle"
    \/ dirty
    \/ \A s \in Schedules : view[s].ver >= owed[s]

EInv == EditTyped /\ Newest /\ (\A m \in E!Muts : MutOf(m)) /\ FetchNew /\ ViewNew

-----------------------------------------------------------------------------
\* The names of the mutations differ.
LEMMA MutIds ==
    ASSUME E!ConstantsAssumption
    PROVE  /\ E!Save \in E!Muts /\ E!Save[1] = "save"
           /\ \A s \in Schedules : /\ E!Toggle(s) \in E!Muts /\ E!Toggle(s)[1] = "toggle" /\ E!Toggle(s)[2] = s
                                   /\ E!Remove(s) \in E!Muts /\ E!Remove(s)[1] = "remove" /\ E!Remove(s)[2] = s
                                   /\ E!Toggle(s) # E!Save /\ E!Remove(s) # E!Save /\ E!Toggle(s) # E!Remove(s)
           /\ \A m \in E!Muts : m = E!Save \/ (m[2] \in Schedules /\ m[2] # E!New /\ m[1] \in {"toggle", "remove"})
BY DEF E!ConstantsAssumption, E!Muts, E!Save, E!Toggle, E!Remove

LEMMA AbsentRow ==
    ASSUME E!ConstantsAssumption, NEW v \in E!Versions \cup {E!Guess}
    PROVE  [E!Absent EXCEPT !.ver = v] \in E!Rows /\ [E!Absent EXCEPT !.ver = v].ver = v
<1>1. 0 \in E!Versions BY DEF E!ConstantsAssumption, E!Versions
<1> QED BY <1>1 DEF E!Absent, E!Rows

LEMMA NextIsVersion ==
    ASSUME E!ConstantsAssumption, EditTyped, E!MayWrite
    PROVE  E!NextVersion \in E!Versions
BY DEF EditTyped, E!MayWrite, E!NextVersion, E!Versions, E!ConstantsAssumption

LEMMA EInit ==
    ASSUME E!ConstantsAssumption, E!Init
    PROVE  EInv
<1> USE DEF E!ConstantsAssumption
<1>1. 0 \in E!Versions BY DEF E!Versions
<1>2. E!Absent \in E!Rows /\ [E!Absent EXCEPT !.alive = TRUE, !.on = TRUE] \in E!Rows
      /\ E!Absent.ver = 0 /\ [E!Absent EXCEPT !.alive = TRUE, !.on = TRUE].ver = 0
  BY <1>1 DEF E!Absent, E!Rows
<1>3. E!Idle \in Mutations /\ E!Idle.pc = "idle" BY <1>1 DEF E!Idle, Mutations
<1>4. rows \in Copies /\ \A s \in Schedules : rows[s].ver = 0
  BY <1>2 DEF E!Init, Copies
<1>5. dialog \in [open : BOOLEAN, of : Schedules \cup {E!New}, on : BOOLEAN] BY DEF E!Init, E!Closed
<1>11. owed \in [Schedules -> E!Versions] /\ \A s \in Schedules : owed[s] = 0 BY <1>1 DEF E!Init
<1>12. mut \in [E!Muts -> Mutations] BY <1>3 DEF E!Init
<1>14. writes = 0 /\ writes \in E!Versions BY <1>1 DEF E!Init
<1>15. clicks \in 0..MaxClicks BY DEF E!Init
<1>16. fetch \in Fetches BY DEF E!Init, Fetches
<1>17. view \in Copies /\ view = rows BY <1>4 DEF E!Init
<1>13. dirty \in BOOLEAN BY DEF E!Init
<1>6. EditTyped BY <1>11, <1>12, <1>13, <1>14, <1>15, <1>16, <1>17, <1>4, <1>5 DEF EditTyped
<1>7. Newest
  <2>1. \A s \in Schedules : rows[s].ver = 0 /\ owed[s] = 0 BY <1>4, <1>11
  <2>2. writes = 0 /\ 0 \in E!Versions BY <1>1, <1>14
  <2>3. 0 <= 0 OBVIOUS
  <2> QED BY <2>1, <2>2, <2>3 DEF Newest
<1>8. \A m \in E!Muts : MutOf(m) BY <1>3 DEF E!Init, MutOf
<1>9. FetchNew BY DEF E!Init, FetchNew, E!NoFetch
<1>10. ViewNew
  <2>1. \A s \in Schedules : view[s].ver = 0 /\ owed[s] = 0 BY <1>4, <1>11, <1>17
  <2> QED BY <2>1 DEF ViewNew
<1> QED BY <1>6, <1>7, <1>8, <1>9, <1>10 DEF EInv

-----------------------------------------------------------------------------
(* What the steps are made of.                                             *)

\* A write gives one row the next version.
LEMMA WriteRow ==
    ASSUME E!ConstantsAssumption, EInv, E!MayWrite, NEW s \in Schedules, NEW newRow \in E!Rows,
           newRow.ver = E!NextVersion, rows' = [rows EXCEPT ![s] = newRow], UNCHANGED owed
    PROVE  /\ rows' \in Copies /\ writes' \in E!Versions /\ Newest' /\ E!NextVersion \in E!Versions
           /\ rows'[s].ver = E!NextVersion
           /\ \A t \in Schedules : rows[t].ver <= rows'[t].ver
<1>1. /\ rows' \in Copies /\ rows'[s] = newRow /\ \A t \in Schedules : t # s => rows'[t] = rows[t]
  BY DEF EInv, EditTyped, Copies
<1>2. writes \in Nat /\ writes' = writes + 1 /\ E!NextVersion = writes + 1 /\ writes' \in E!Versions
      /\ E!NextVersion \in E!Versions
  BY DEF EInv, EditTyped, E!MayWrite, E!NextVersion, E!Versions, E!ConstantsAssumption
<1>3. \A t \in Schedules : rows[t].ver \in Nat /\ rows[t].ver \in E!Versions /\ owed[t] \in Nat
  BY DEF EInv, EditTyped, Newest, E!Versions
<1>4. \A t \in Schedules : rows[t].ver <= writes /\ owed[t] <= rows[t].ver BY DEF EInv, Newest
<1>5. Newest' BY <1>1, <1>2, <1>3, <1>4 DEF Newest
<1>6. \A t \in Schedules : rows[t].ver <= rows'[t].ver BY <1>1, <1>2, <1>3, <1>4
<1> QED BY <1>1, <1>2, <1>5, <1>6

\* What is known of the mutations stays known while rows get newer.
LEMMA MutKept ==
    ASSUME EInv, NEW m \in E!Muts, UNCHANGED mut \/ mut'[m] = mut[m],
           \A t \in Schedules : rows[t].ver <= rows'[t].ver,
           \A t \in Schedules : rows'[t].ver \in E!Versions
    PROVE  MutOf(m)'
<1>1. mut'[m] = mut[m] OBVIOUS
<1>2. MutOf(m) /\ mut[m] \in Mutations BY DEF EInv, EditTyped
<1>3. CASE mut[m].pc = "done"
  <2>1. mut[m].of \in Schedules /\ mut[m].ver <= rows[mut[m].of].ver BY <1>2, <1>3 DEF MutOf
  <2>2. mut[m].ver \in Nat /\ rows[mut[m].of].ver \in Nat /\ rows'[mut[m].of].ver \in Nat
    BY <1>2, <2>1 DEF Mutations, E!Versions, EInv, Newest
  <2>3. mut[m].ver <= rows'[mut[m].of].ver BY <2>1, <2>2
  <2> QED BY <1>1, <1>2, <2>1, <2>3 DEF MutOf
<1>4. CASE mut[m].pc # "done" BY <1>1, <1>2, <1>4 DEF MutOf
<1> QED BY <1>3, <1>4

\* A mutation goes on and keeps the rest of its record.
LEMMA SetPc ==
    ASSUME mut \in [E!Muts -> Mutations], NEW m \in E!Muts, NEW pc \in {"idle", "sent", "done", "failed"},
           mut' = [mut EXCEPT ![m].pc = pc]
    PROVE  /\ mut' \in [E!Muts -> Mutations]
           /\ mut'[m].pc = pc /\ mut'[m].of = mut[m].of /\ mut'[m].ver = mut[m].ver
           /\ mut'[m].before = mut[m].before
           /\ \A n \in E!Muts : n # m => mut'[n] = mut[n]
<1>1. mut[m] \in Mutations OBVIOUS
<1>2. mut'[m] = [mut[m] EXCEPT !.pc = pc] /\ \A n \in E!Muts : n # m => mut'[n] = mut[n] OBVIOUS
<1>3. mut'[m] \in Mutations /\ mut'[m].pc = pc /\ mut'[m].of = mut[m].of /\ mut'[m].ver = mut[m].ver
           /\ mut'[m].before = mut[m].before
  BY <1>1, <1>2 DEF Mutations
<1>4. mut' = [mut EXCEPT ![m] = mut'[m]] BY <1>2
<1>5. mut' \in [E!Muts -> Mutations] BY <1>3, <1>4
<1> QED BY <1>2, <1>3, <1>5

\* The answer of a write that was done on schedule s.
LEMMA SetDone ==
    ASSUME mut \in [E!Muts -> Mutations], NEW m \in E!Muts, NEW s \in Schedules, NEW v \in E!Versions,
           mut' = [mut EXCEPT ![m].pc = "done", ![m].of = s, ![m].ver = v]
    PROVE  /\ mut' \in [E!Muts -> Mutations]
           /\ mut'[m].pc = "done" /\ mut'[m].of = s /\ mut'[m].ver = v /\ mut'[m].before = mut[m].before
           /\ \A n \in E!Muts : n # m => mut'[n] = mut[n]
<1> DEFINE f == [mut EXCEPT ![m].pc = "done"]
           g == [f EXCEPT ![m].of = s]
<1>1. mut' = [g EXCEPT ![m].ver = v] OBVIOUS
<1>2. f \in [E!Muts -> Mutations] /\ f[m].pc = "done" /\ f[m].before = mut[m].before
      /\ \A n \in E!Muts : n # m => f[n] = mut[n]
  <2>1. f[m] = [mut[m] EXCEPT !.pc = "done"] /\ \A n \in E!Muts : n # m => f[n] = mut[n] OBVIOUS
  <2>2. f[m] \in Mutations /\ f[m].pc = "done" /\ f[m].before = mut[m].before BY <2>1 DEF Mutations
  <2>3. f = [mut EXCEPT ![m] = f[m]] BY <2>1
  <2> HIDE DEF f
  <2> QED BY <2>1, <2>2, <2>3
<1> HIDE DEF f
<1>3. g \in [E!Muts -> Mutations] /\ g[m].pc = "done" /\ g[m].of = s /\ g[m].before = mut[m].before
      /\ \A n \in E!Muts : n # m => g[n] = mut[n]
  <2>1. g[m] = [f[m] EXCEPT !.of = s] /\ \A n \in E!Muts : n # m => g[n] = f[n] BY <1>2
  <2>4. f[m] \in Mutations BY <1>2
  <2>2. g[m] \in Mutations /\ g[m].pc = "done" /\ g[m].of = s /\ g[m].before = mut[m].before
    <3> HIDE DEF g
    <3> QED BY <1>2, <2>1, <2>4 DEF Mutations
  <2>3. g = [f EXCEPT ![m] = g[m]] BY <1>2, <2>1
  <2> HIDE DEF g
  <2> QED BY <1>2, <2>1, <2>2, <2>3
<1> HIDE DEF g
<1>4. mut'[m] = [g[m] EXCEPT !.ver = v] /\ \A n \in E!Muts : n # m => mut'[n] = g[n] BY <1>1, <1>3
<1>5. mut'[m] \in Mutations /\ mut'[m].pc = "done" /\ mut'[m].of = s /\ mut'[m].ver = v /\ mut'[m].before = mut[m].before
  BY <1>3, <1>4 DEF Mutations
<1>6. mut' = [g EXCEPT ![m] = mut'[m]] BY <1>1, <1>3, <1>4
<1>7. mut' \in [E!Muts -> Mutations] BY <1>3, <1>5, <1>6
<1> QED BY <1>3, <1>4, <1>5, <1>7

\* A click sends a mutation.
LEMMA SetSent ==
    ASSUME mut \in [E!Muts -> Mutations], NEW m \in E!Muts, NEW q \in Mutations, mut' = [mut EXCEPT ![m] = q]
    PROVE  mut' \in [E!Muts -> Mutations] /\ mut'[m] = q /\ \A n \in E!Muts : n # m => mut'[n] = mut[n]
OBVIOUS

LEMMA IdleTyped == ASSUME E!ConstantsAssumption PROVE E!Idle \in Mutations /\ E!Idle.pc = "idle" /\ E!Idle.of = E!New
BY DEF E!Idle, Mutations, E!Versions, E!ConstantsAssumption

\* A step that changes neither the rows nor what is owed.
LEMMA NewestKept ==
    ASSUME EInv, UNCHANGED <<rows, writes, owed>>
    PROVE  /\ Newest' /\ rows' \in Copies /\ owed' \in [Schedules -> E!Versions]
           /\ \A t \in Schedules : rows[t].ver <= rows'[t].ver /\ rows'[t].ver \in E!Versions
<1>1. \A t \in Schedules : rows[t].ver \in Nat BY DEF EInv, Newest, E!Versions
<1> QED BY <1>1 DEF EInv, EditTyped, Newest

-----------------------------------------------------------------------------
(* One lemma for each step.                                                *)

LEMMA EOutside ==
    ASSUME E!ConstantsAssumption, EInv, NEW s \in Schedules, E!Outside(s)
    PROVE  EInv'
<1> USE DEF E!Outside
<1>1. PICK newRow \in E!Rows : newRow.ver = E!NextVersion /\ rows' = [rows EXCEPT ![s] = newRow]
  <2>9. rows[s] \in E!Rows BY DEF EInv, EditTyped, Copies
  <2>0. E!NextVersion \in E!Versions BY NextIsVersion DEF EInv
  <2>1. CASE rows' = [rows EXCEPT ![s] = [E!Absent EXCEPT !.ver = E!NextVersion]]
    <3>1. [E!Absent EXCEPT !.ver = E!NextVersion] \in E!Rows /\ [E!Absent EXCEPT !.ver = E!NextVersion].ver = E!NextVersion
      BY <2>0, AbsentRow
    <3> QED BY <3>1, <2>1
  <2>2. ASSUME NEW on \in BOOLEAN, NEW what \in {rows[s].what, E!NextVersion},
               rows' = [rows EXCEPT ![s].on = on, ![s].what = what, ![s].ver = E!NextVersion]
        PROVE  \E newRow \in E!Rows : newRow.ver = E!NextVersion /\ rows' = [rows EXCEPT ![s] = newRow]
    <3> DEFINE newRow == [rows[s] EXCEPT !.on = on, !.what = what, !.ver = E!NextVersion]
    <3>1. what \in E!Versions BY <2>0, <2>9 DEF E!Rows
    <3>2. newRow \in E!Rows /\ newRow.ver = E!NextVersion BY <2>0, <2>9, <3>1 DEF E!Rows
    <3>3. rows \in [Schedules -> E!Rows] BY DEF EInv, EditTyped, Copies
    <3>4. rows' = [rows EXCEPT ![s] = newRow] BY <2>2, <3>3
    <3> HIDE DEF newRow
    <3> QED BY <3>2, <3>4
  <2> QED BY <2>1, <2>2
<1>2. /\ rows' \in Copies /\ writes' \in E!Versions /\ Newest'
      /\ \A t \in Schedules : rows[t].ver <= rows'[t].ver
  BY <1>1, WriteRow
<1>3. EditTyped' BY <1>2 DEF EInv, EditTyped
<1>4. \A m \in E!Muts : MutOf(m)'
  <2>1. \A t \in Schedules : rows'[t].ver \in E!Versions BY <1>2 DEF Newest
  <2> QED BY <1>2, <2>1, MutKept
<1>5. FetchNew' /\ ViewNew' BY DEF EInv, FetchNew, ViewNew
<1> QED BY <1>2, <1>3, <1>4, <1>5 DEF EInv

\* A request that fails.
LEMMA Failed ==
    ASSUME E!ConstantsAssumption, EInv, NEW m \in E!Muts, mut[m].pc # "idle",
           mut' = [mut EXCEPT ![m].pc = "failed"],
           UNCHANGED <<rows, writes, view, dirty, fetch, dialog, clicks, owed>>
    PROVE  EInv'
<1>1. /\ mut' \in [E!Muts -> Mutations]
      /\ mut'[m].pc = "failed" /\ mut'[m].of = mut[m].of /\ mut'[m].before = mut[m].before
      /\ \A n \in E!Muts : n # m => mut'[n] = mut[n]
  BY SetPc DEF EInv, EditTyped
<1>2. EditTyped' BY <1>1 DEF EInv, EditTyped
<1>3. Newest' BY NewestKept
<1>4. \A n \in E!Muts : MutOf(n)'
  <2>1. \A n \in E!Muts : n # m => MutOf(n)' BY <1>1, NewestKept, MutKept
  <2>2. MutOf(m)' BY <1>1 DEF EInv, MutOf
  <2> QED BY <2>1, <2>2
<1>5. FetchNew' BY DEF EInv, FetchNew
<1>6. ViewNew'
  <2>1. \A s \in Schedules : mut[E!Toggle(s)].pc # "idle" => mut'[E!Toggle(s)].pc # "idle" BY <1>1, MutIds
  <2> QED BY <2>1 DEF EInv, ViewNew
<1> QED BY <1>2, <1>3, <1>4, <1>5, <1>6 DEF EInv

\* A request that is done.
LEMMA Succeeded ==
    ASSUME E!ConstantsAssumption, EInv, NEW m \in E!Muts, NEW s \in Schedules, mut[m].pc # "idle",
           m # E!Save => m[2] = s, E!MayWrite, NEW newRow \in E!Rows, newRow.ver = E!NextVersion,
           rows' = [rows EXCEPT ![s] = newRow],
           mut' = [mut EXCEPT ![m].pc = "done", ![m].of = s, ![m].ver = E!NextVersion],
           UNCHANGED <<view, dirty, fetch, dialog, clicks, owed>>
    PROVE  EInv'
<1>1. /\ rows' \in Copies /\ writes' \in E!Versions /\ Newest' /\ E!NextVersion \in E!Versions
      /\ rows'[s].ver = E!NextVersion
      /\ \A t \in Schedules : rows[t].ver <= rows'[t].ver
  BY WriteRow
<1>2. /\ mut' \in [E!Muts -> Mutations]
      /\ mut'[m].pc = "done" /\ mut'[m].of = s /\ mut'[m].ver = E!NextVersion /\ mut'[m].before = mut[m].before
      /\ \A n \in E!Muts : n # m => mut'[n] = mut[n]
  BY <1>1, SetDone DEF EInv, EditTyped
<1>3. EditTyped' BY <1>1, <1>2 DEF EInv, EditTyped
<1>4. \A n \in E!Muts : MutOf(n)'
  <2>1. \A t \in Schedules : rows'[t].ver \in E!Versions BY <1>1 DEF Newest
  <2>2. \A n \in E!Muts : n # m => MutOf(n)' BY <1>1, <1>2, <2>1, MutKept
  <2>3. E!NextVersion <= E!NextVersion BY <1>1 DEF E!Versions
  <2>4. MutOf(m)' BY <1>1, <1>2, <2>3 DEF EInv, MutOf
  <2> QED BY <2>2, <2>4
<1>5. FetchNew' BY DEF EInv, FetchNew
<1>6. ViewNew'
  <2>1. \A t \in Schedules : mut[E!Toggle(t)].pc # "idle" => mut'[E!Toggle(t)].pc # "idle" BY <1>2, MutIds
  <2> QED BY <2>1 DEF EInv, ViewNew
<1> QED BY <1>1, <1>3, <1>4, <1>5, <1>6 DEF EInv

LEMMA EUpsert ==
    ASSUME E!ConstantsAssumption, EInv, NEW m \in E!Muts, E!Upsert(m)
    PROVE  EInv'
<1>1. mut[m] \in Mutations /\ mut[m].pc = "sent" /\ m[1] # "remove" BY DEF E!Upsert, EInv, EditTyped
<1>2. CASE E!NotFound(m)
  BY <1>1, <1>2, Failed DEF E!Upsert, E!NotFound
<1>3. CASE ~E!NotFound(m)
  <2>1. PICK s \in IF mut[m].of = E!New THEN {t \in Schedules : rows[t] = E!Absent}
                   ELSE {t \in {mut[m].of} : rows[t].alive} :
            /\ E!MayWrite
            /\ rows' = [rows EXCEPT ![s] =
                  [alive |-> TRUE, on |-> mut[m].on, ver |-> E!NextVersion,
                   what |-> IF m = E!Save THEN E!NextVersion ELSE mut[m].what]]
            /\ mut' = [mut EXCEPT ![m].pc = "done", ![m].of = s, ![m].ver = E!NextVersion]
    BY <1>3 DEF E!Upsert
  <2>2. s \in Schedules /\ (mut[m].of # E!New => s = mut[m].of) BY <2>1, <1>1 DEF Mutations
  <2>3. m # E!Save => m[2] = s
    <3>1. m # E!Save => mut[m].of = m[2] /\ m[2] # E!New BY <1>1, MutIds DEF EInv, MutOf
    <3> QED BY <3>1, <2>2
  <2> DEFINE newRow == [alive |-> TRUE, on |-> mut[m].on, ver |-> E!NextVersion,
                     what |-> IF m = E!Save THEN E!NextVersion ELSE mut[m].what]
  <2>4. newRow \in E!Rows /\ newRow.ver = E!NextVersion
    <3>1. E!NextVersion \in E!Versions BY <2>1, NextIsVersion DEF EInv
    <3>2. mut[m].on \in BOOLEAN /\ mut[m].what \in E!Versions BY <1>1 DEF Mutations
    <3> QED BY <3>1, <3>2 DEF E!Rows
  <2>5. rows' = [rows EXCEPT ![s] = newRow] /\ E!MayWrite
        /\ mut' = [mut EXCEPT ![m].pc = "done", ![m].of = s, ![m].ver = E!NextVersion]
    BY <2>1
  <2>6. UNCHANGED <<view, dirty, fetch, dialog, clicks, owed>> BY DEF E!Upsert
  <2> HIDE DEF newRow
  <2> QED BY <1>1, <2>2, <2>3, <2>4, <2>5, <2>6, Succeeded
<1> QED BY <1>2, <1>3

LEMMA EDelete ==
    ASSUME E!ConstantsAssumption, EInv, NEW s \in Schedules, E!Delete(s)
    PROVE  EInv'
<1> DEFINE m == E!Remove(s)
<1>1. m \in E!Muts /\ mut[m].pc = "sent" /\ m # E!Save /\ m[2] = s BY MutIds DEF E!Delete
<1>2. mut[m].of = s /\ mut[m] \in Mutations BY <1>1 DEF EInv, EditTyped, MutOf
<1>3. CASE E!NotFound(m) BY <1>1, <1>3, Failed DEF E!Delete, E!NotFound
<1>4. CASE ~E!NotFound(m)
  <2> DEFINE newRow == [E!Absent EXCEPT !.ver = E!NextVersion]
  <2>1. /\ E!MayWrite /\ rows' = [rows EXCEPT ![s] = newRow]
        /\ mut' = [mut EXCEPT ![m].pc = "done", ![m].ver = E!NextVersion]
        /\ UNCHANGED <<view, dirty, fetch, dialog, clicks, owed>>
    BY <1>4 DEF E!Delete
  <2>2. E!NextVersion \in E!Versions BY <2>1, NextIsVersion DEF EInv
  <2>3. newRow \in E!Rows /\ newRow.ver = E!NextVersion BY <2>2, AbsentRow
  <2>4. mut' = [mut EXCEPT ![m].pc = "done", ![m].of = s, ![m].ver = E!NextVersion]
    <3> HIDE DEF m
    <3>1. mut \in [E!Muts -> Mutations] BY DEF EInv, EditTyped
    <3> QED BY <1>1, <1>2, <2>1, <3>1 DEF Mutations
  <2> HIDE DEF newRow, m
  <2> QED BY <1>1, <2>1, <2>3, <2>4, Succeeded
<1> QED BY <1>3, <1>4

LEMMA ELose ==
    ASSUME E!ConstantsAssumption, EInv, NEW m \in E!Muts, E!Lose(m)
    PROVE  EInv'
BY Failed DEF E!Lose

\* Asking for a copy anew, or dropping the request.
LEMMA ERefetch ==
    ASSUME E!ConstantsAssumption, EInv, E!Refetch
    PROVE  EInv'
<1>1. fetch' = E!Asked /\ fetch' \in Fetches /\ fetch'.pc # "read" BY DEF E!Refetch, E!Asked, Fetches
<1>2. EditTyped' BY <1>1 DEF E!Refetch, EInv, EditTyped
<1>3. Newest' BY NewestKept DEF E!Refetch
<1>4. \A n \in E!Muts : MutOf(n)' BY NewestKept, MutKept DEF E!Refetch
<1>5. FetchNew' BY <1>1 DEF FetchNew
<1>6. ViewNew' BY DEF E!Refetch, EInv, ViewNew
<1> QED BY <1>2, <1>3, <1>4, <1>5, <1>6 DEF EInv

LEMMA EReadRows ==
    ASSUME E!ConstantsAssumption, EInv, E!ReadRows
    PROVE  EInv'
<1>1. rows \in Copies BY DEF EInv, EditTyped
<1>2. fetch' \in Fetches /\ fetch'.rows = rows BY <1>1 DEF E!ReadRows, Fetches
<1>3. EditTyped' BY <1>2 DEF E!ReadRows, EInv, EditTyped
<1>4. Newest' BY NewestKept DEF E!ReadRows
<1>5. \A n \in E!Muts : MutOf(n)' BY NewestKept, MutKept DEF E!ReadRows
<1>6. FetchNew'
  <2>4. \A s \in Schedules : owed[s] \in E!Versions BY DEF EInv, EditTyped
  <2>5. \A s \in Schedules : rows[s].ver \in E!Versions /\ owed[s] <= rows[s].ver BY DEF EInv, Newest
  <2>1. \A s \in Schedules : rows[s].ver \in Nat /\ owed[s] \in Nat /\ owed[s] <= rows[s].ver
    <3>1. E!Versions \subseteq Nat BY DEF E!Versions
    <3> QED BY <2>4, <2>5, <3>1
  <2>2. owed' = owed BY DEF E!ReadRows
  <2> QED BY <1>2, <2>1, <2>2 DEF FetchNew
<1>7. ViewNew' BY DEF E!ReadRows, EInv, ViewNew
<1> QED BY <1>3, <1>4, <1>5, <1>6, <1>7 DEF EInv

\* The copy that was read is shown: it is as new as what was confirmed (FetchNew).
LEMMA EEndFetch ==
    ASSUME E!ConstantsAssumption, EInv, E!EndFetch
    PROVE  EInv'
<1>1. fetch' \in Fetches /\ fetch'.pc # "read" BY DEF E!EndFetch, E!NoFetch, Fetches
<1>2. Newest' BY NewestKept DEF E!EndFetch
<1>3. \A n \in E!Muts : MutOf(n)' BY NewestKept, MutKept DEF E!EndFetch
<1>4. FetchNew' BY <1>1 DEF FetchNew
<1>5. view' \in Copies /\ dirty' \in BOOLEAN /\ ViewNew'
  <2>1. CASE fetch.pc = "read" /\ E!SetView(fetch.rows)
    <3>1. view' = fetch.rows /\ dirty' = FALSE BY <2>1 DEF E!SetView
    <3>2. fetch.rows \in Copies BY <2>1 DEF EInv, EditTyped, Fetches, E!NoFetch, E!Asked
    <3>3. \A s \in Schedules : view'[s].ver >= owed'[s] BY <2>1, <3>1 DEF EInv, FetchNew, E!EndFetch
    <3>4. ViewNew' BY <3>3 DEF ViewNew
    <3> QED BY <3>1, <3>2, <3>4
  <2>2. CASE UNCHANGED <<view, dirty>>
    BY <2>2 DEF E!EndFetch, EInv, EditTyped, ViewNew
  <2> QED BY <2>1, <2>2 DEF E!EndFetch
<1>6. EditTyped' BY <1>1, <1>2, <1>5 DEF E!EndFetch, EInv, EditTyped
<1> QED BY <1>2, <1>3, <1>4, <1>5, <1>6 DEF EInv

\* The editor alone changes.
LEMMA EDialog ==
    ASSUME E!ConstantsAssumption, EInv, E!OpenDialog \/ E!CloseDialog
    PROVE  EInv'
<1>1. UNCHANGED <<rows, writes, view, dirty, fetch, mut, clicks, owed>> BY DEF E!OpenDialog, E!CloseDialog
<1>2. dialog' \in [open : BOOLEAN, of : Schedules \cup {E!New}, on : BOOLEAN]
  <2>3. E!Closed \in [open : BOOLEAN, of : Schedules \cup {E!New}, on : BOOLEAN]
        /\ [E!Closed EXCEPT !.open = TRUE] \in [open : BOOLEAN, of : Schedules \cup {E!New}, on : BOOLEAN]
    BY DEF E!Closed
  <2>1. CASE dialog' = E!Closed \/ dialog' = [E!Closed EXCEPT !.open = TRUE] BY <2>1, <2>3
  <2>2. ASSUME NEW s \in Schedules, dialog' = [open |-> TRUE, of |-> s, on |-> view[s].on]
        PROVE  dialog' \in [open : BOOLEAN, of : Schedules \cup {E!New}, on : BOOLEAN]
    <3>1. view[s].on \in BOOLEAN BY DEF EInv, EditTyped, Copies, E!Rows
    <3> QED BY <2>2, <3>1
  <2> QED BY <2>1, <2>2 DEF E!OpenDialog, E!CloseDialog
<1>3. EditTyped' BY <1>1, <1>2 DEF EInv, EditTyped
<1>4. Newest' BY <1>1, NewestKept
<1>5. \A n \in E!Muts : MutOf(n)' BY <1>1, NewestKept, MutKept
<1>6. FetchNew' /\ ViewNew' BY <1>1 DEF EInv, FetchNew, ViewNew
<1> QED BY <1>3, <1>4, <1>5, <1>6 DEF EInv

\* A click that sends a mutation other than a toggle.
LEMMA Sent ==
    ASSUME E!ConstantsAssumption, EInv, NEW m \in E!Muts, NEW q \in Mutations,
           mut' = [mut EXCEPT ![m] = q], q.pc = "sent", m # E!Save => q.of = m[2], m[1] # "toggle",
           E!Click, UNCHANGED <<rows, writes, view, dirty, fetch, dialog, owed>>
    PROVE  EInv'
<1>1. mut' \in [E!Muts -> Mutations] /\ mut'[m] = q /\ \A n \in E!Muts : n # m => mut'[n] = mut[n]
  BY SetSent DEF EInv, EditTyped
<1>2. clicks' \in 0..MaxClicks BY DEF E!Click, EInv, EditTyped, E!ConstantsAssumption
<1>3. EditTyped' BY <1>1, <1>2 DEF EInv, EditTyped
<1>4. Newest' BY NewestKept
<1>5. \A n \in E!Muts : MutOf(n)'
  <2>1. \A n \in E!Muts : n # m => MutOf(n)' BY <1>1, NewestKept, MutKept
  <2>2. MutOf(m)' BY <1>1 DEF MutOf
  <2> QED BY <2>1, <2>2
<1>6. FetchNew' BY DEF EInv, FetchNew
<1>7. ViewNew'
  <2>1. \A s \in Schedules : mut[E!Toggle(s)].pc # "idle" => mut'[E!Toggle(s)].pc # "idle" BY <1>1, MutIds
  <2> QED BY <2>1 DEF EInv, ViewNew
<1> QED BY <1>3, <1>4, <1>5, <1>6, <1>7 DEF EInv

LEMMA ESubmit ==
    ASSUME E!ConstantsAssumption, EInv, E!SubmitDialog
    PROVE  EInv'
<1> DEFINE q == [E!Idle EXCEPT !.pc = "sent", !.of = dialog.of, !.on = dialog.on]
<1>1. dialog.of \in Schedules \cup {E!New} /\ dialog.on \in BOOLEAN BY DEF EInv, EditTyped
<1>2. q \in Mutations /\ q.pc = "sent" BY <1>1, IdleTyped DEF Mutations
<1>3. E!Save \in E!Muts /\ E!Save[1] # "toggle" BY MutIds
<1>4. mut' = [mut EXCEPT ![E!Save] = q] /\ E!Click /\ UNCHANGED <<rows, writes, view, dirty, fetch, dialog, owed>>
  BY DEF E!SubmitDialog
<1> HIDE DEF q
<1> QED BY <1>2, <1>3, <1>4, Sent

LEMMA EConfirmDelete ==
    ASSUME E!ConstantsAssumption, EInv, NEW s \in Schedules, E!ConfirmDelete(s)
    PROVE  EInv'
<1> DEFINE q == [E!Idle EXCEPT !.pc = "sent", !.of = s]
           m == E!Remove(s)
<1>1. q \in Mutations /\ q.pc = "sent" /\ q.of = s BY IdleTyped DEF Mutations
<1>2. m \in E!Muts /\ m[1] # "toggle" /\ m[2] = s BY MutIds
<1>3. mut' = [mut EXCEPT ![m] = q] /\ E!Click /\ UNCHANGED <<rows, writes, view, dirty, fetch, dialog, owed>>
  BY DEF E!ConfirmDelete
<1> HIDE DEF q, m
<1> QED BY <1>1, <1>2, <1>3, Sent

\* A guess is shown, and a switch is still to be answered.
LEMMA EClickSwitch ==
    ASSUME E!ConstantsAssumption, EInv, NEW s \in Schedules, E!ClickSwitch(s)
    PROVE  EInv'
<1> DEFINE turned == [view[s] EXCEPT !.on = ~@, !.ver = E!Guess]
           m == E!Toggle(s)
           q == [E!Idle EXCEPT !.pc = "sent", !.of = s, !.on = turned.on, !.what = view[s].what, !.before = view]
<1>1. view \in Copies /\ view[s] \in E!Rows /\ view \in [Schedules -> E!Rows] BY DEF EInv, EditTyped, Copies
<1>2. turned \in E!Rows /\ turned.on \in BOOLEAN /\ view[s].what \in E!Versions BY <1>1 DEF E!Rows
<1>3. /\ view' = [view EXCEPT ![s] = turned] /\ dirty' = FALSE /\ fetch' = E!NoFetch
      /\ mut' = [mut EXCEPT ![m] = q] /\ E!Click
      /\ UNCHANGED <<rows, writes, dialog, owed>>
  BY DEF E!ClickSwitch, E!SetView
<1> HIDE DEF turned
<1>4. q \in Mutations /\ q.pc = "sent" /\ q.of = s /\ q.before = view
  BY <1>1, <1>2, IdleTyped DEF Mutations
<1>5. m \in E!Muts /\ m # E!Save /\ m[2] = s BY MutIds
<1> HIDE DEF q
<1>6. mut' \in [E!Muts -> Mutations] /\ mut'[m] = q /\ \A n \in E!Muts : n # m => mut'[n] = mut[n]
  <2> HIDE DEF m
  <2> QED BY <1>3, <1>4, <1>5, SetSent DEF EInv, EditTyped
<1>7. clicks' \in 0..MaxClicks BY <1>3 DEF E!Click, EInv, EditTyped, E!ConstantsAssumption
<1>8. view' \in Copies BY <1>1, <1>2, <1>3 DEF Copies
<1>9. fetch' \in Fetches /\ fetch'.pc # "read" BY <1>3 DEF E!NoFetch, Fetches
<1>10. EditTyped' BY <1>3, <1>6, <1>7, <1>8, <1>9 DEF EInv, EditTyped
<1>11. Newest' BY <1>3, NewestKept
<1>12. \A n \in E!Muts : MutOf(n)'
  <2> HIDE DEF m
  <2>1. \A n \in E!Muts : n # m => MutOf(n)' BY <1>3, <1>6, NewestKept, MutKept
  <2>2. MutOf(m)' BY <1>1, <1>4, <1>5, <1>6 DEF MutOf
  <2> QED BY <2>1, <2>2
<1>13. FetchNew' BY <1>9 DEF FetchNew
<1>14. ViewNew'
  <2>1. mut'[E!Toggle(s)].pc = "sent" BY <1>4, <1>6
  <2> QED BY <2>1 DEF ViewNew
<1> QED BY <1>10, <1>11, <1>12, <1>13, <1>14 DEF EInv

-----------------------------------------------------------------------------
(* The answers.                                                            *)

\* A mutation is forgotten.
LEMMA Forgotten ==
    ASSUME E!ConstantsAssumption, EInv, NEW m \in E!Muts, E!Forget(m), UNCHANGED rows
    PROVE  /\ mut' \in [E!Muts -> Mutations] /\ \A n \in E!Muts : n # m => mut'[n] = mut[n]
           /\ \A n \in E!Muts : MutOf(n)'
<1>1. mut' \in [E!Muts -> Mutations] /\ mut'[m] = E!Idle /\ \A n \in E!Muts : n # m => mut'[n] = mut[n]
  BY IdleTyped, SetSent DEF E!Forget, EInv, EditTyped
<1>2. \A t \in Schedules : rows'[t].ver \in E!Versions /\ rows[t].ver <= rows'[t].ver
  BY DEF EInv, Newest, E!Versions
<1>3. \A n \in E!Muts : n # m => MutOf(n)' BY <1>1, <1>2, MutKept
<1>4. MutOf(m)' BY <1>1, IdleTyped DEF MutOf
<1> QED BY <1>1, <1>3, <1>4

\* What is confirmed is no newer than the row.
LEMMA Owing ==
    ASSUME E!ConstantsAssumption, EInv, NEW m \in E!Muts, mut[m].pc = "done", E!Confirmed(m), UNCHANGED <<rows, writes>>
    PROVE  owed' \in [Schedules -> E!Versions] /\ Newest'
<1>1. mut[m].of \in Schedules /\ mut[m].ver <= rows[mut[m].of].ver BY DEF EInv, MutOf
<1>2. mut[m].ver \in E!Versions BY DEF EInv, EditTyped, Mutations
<1>3. owed \in [Schedules -> E!Versions] BY DEF EInv, EditTyped
<1>4. owed' \in [Schedules -> E!Versions]
      /\ \A s \in Schedules : owed'[s] = IF s = mut[m].of THEN mut[m].ver ELSE owed[s]
  BY <1>1, <1>2, <1>3 DEF E!Confirmed
<1>5. \A s \in Schedules : owed'[s] <= rows[s].ver BY <1>1, <1>4 DEF EInv, Newest
<1>6. Newest' BY <1>5 DEF EInv, Newest
<1> QED BY <1>4, <1>6

\* An answer after which the copy is asked for anew.
LEMMA Asking ==
    ASSUME E!ConstantsAssumption, EInv, NEW m \in E!Muts, E!Forget(m), E!Invalidate,
           UNCHANGED <<rows, writes, clicks>>, view' \in Copies,
           owed' \in [Schedules -> E!Versions], Newest',
           dialog' \in [open : BOOLEAN, of : Schedules \cup {E!New}, on : BOOLEAN]
    PROVE  EInv'
<1>1. mut' \in [E!Muts -> Mutations] /\ \A n \in E!Muts : MutOf(n)' BY Forgotten
<1>2. dirty' = TRUE /\ fetch' \in Fetches /\ fetch'.pc # "read" BY DEF E!Invalidate, E!Asked, Fetches
<1>3. EditTyped' BY <1>1, <1>2 DEF EInv, EditTyped
<1>4. FetchNew' /\ ViewNew' BY <1>2 DEF FetchNew, ViewNew
<1> QED BY <1>1, <1>3, <1>4 DEF EInv

\* A failure of a mutation other than a toggle.
LEMMA GivenUp ==
    ASSUME E!ConstantsAssumption, EInv, NEW m \in E!Muts, m[1] # "toggle", E!Forget(m),
           UNCHANGED <<rows, writes, view, dirty, fetch, dialog, clicks, owed>>
    PROVE  EInv'
<1>1. /\ mut' \in [E!Muts -> Mutations] /\ \A n \in E!Muts : n # m => mut'[n] = mut[n]
      /\ \A n \in E!Muts : MutOf(n)'
  BY Forgotten
<1>2. EditTyped' BY <1>1 DEF EInv, EditTyped
<1>3. Newest' BY NewestKept
<1>4. FetchNew' BY DEF EInv, FetchNew
<1>5. ViewNew'
  <2>1. \A s \in Schedules : mut'[E!Toggle(s)] = mut[E!Toggle(s)] BY <1>1, MutIds
  <2> QED BY <2>1 DEF EInv, ViewNew
<1> QED BY <1>1, <1>2, <1>3, <1>4, <1>5 DEF EInv

LEMMA ESettleSave ==
    ASSUME E!ConstantsAssumption, EInv, E!SettleSave
    PROVE  EInv'
<1>1. E!Save \in E!Muts /\ E!Save[1] # "toggle" /\ E!Forget(E!Save) BY MutIds DEF E!SettleSave
<1>2. CASE mut[E!Save].pc = "done"
  <2>1. E!Confirmed(E!Save) /\ E!Invalidate /\ dialog' = E!Closed /\ UNCHANGED <<rows, writes, view, clicks>>
    BY <1>2 DEF E!SettleSave
  <2>2. owed' \in [Schedules -> E!Versions] /\ Newest' BY <1>1, <1>2, <2>1, Owing
  <2>3. dialog' \in [open : BOOLEAN, of : Schedules \cup {E!New}, on : BOOLEAN] BY <2>1 DEF E!Closed
  <2>4. view' \in Copies BY <2>1 DEF EInv, EditTyped
  <2> QED BY <1>1, <2>1, <2>2, <2>3, <2>4, Asking
<1>3. CASE mut[E!Save].pc # "done"
  <2>1. UNCHANGED <<rows, writes, view, dirty, fetch, dialog, clicks, owed>> BY <1>3 DEF E!SettleSave
  <2> QED BY <1>1, <2>1, GivenUp
<1> QED BY <1>2, <1>3

\* The copy of before the click may be old, and is asked for anew.
LEMMA ESettleToggle ==
    ASSUME E!ConstantsAssumption, EInv, NEW s \in Schedules, E!SettleToggle(s)
    PROVE  EInv'
<1> DEFINE m == E!Toggle(s)
<1>1. m \in E!Muts /\ m[1] = "toggle" BY MutIds
<1>2. /\ mut[m].pc \in {"done", "failed"} /\ E!Forget(m) /\ E!Invalidate
      /\ UNCHANGED <<rows, writes, dialog, clicks>>
      /\ IF mut[m].pc = "done" THEN E!Confirmed(m) /\ UNCHANGED view
         ELSE view' = mut[m].before /\ UNCHANGED owed
  BY DEF E!SettleToggle
<1> HIDE DEF m
<1>3. dialog' \in [open : BOOLEAN, of : Schedules \cup {E!New}, on : BOOLEAN]
  BY <1>2 DEF EInv, EditTyped
<1>4. owed' \in [Schedules -> E!Versions] /\ Newest'
  <2>1. CASE mut[m].pc = "done" BY <1>1, <1>2, <2>1, Owing
  <2>2. CASE mut[m].pc # "done" BY <1>2, <2>2, NewestKept
  <2> QED BY <2>1, <2>2
<1>5. view' \in Copies
  <2>1. CASE mut[m].pc = "done" BY <1>2, <2>1 DEF EInv, EditTyped
  <2>2. CASE mut[m].pc # "done"
    <3>1. mut[m].before \in Copies BY <1>1, <1>2 DEF EInv, MutOf
    <3> QED BY <1>2, <2>2, <3>1
  <2> QED BY <2>1, <2>2
<1> QED BY <1>1, <1>2, <1>3, <1>4, <1>5, Asking

LEMMA ESettleDelete ==
    ASSUME E!ConstantsAssumption, EInv, NEW s \in Schedules, E!SettleDelete(s)
    PROVE  EInv'
<1> DEFINE m == E!Remove(s)
           gone == [E!Absent EXCEPT !.ver = E!Guess]
<1>1. m \in E!Muts /\ m[1] # "toggle" BY MutIds
<1>2. /\ E!Forget(m) /\ UNCHANGED <<rows, writes, dialog, clicks>>
      /\ IF mut[m].pc = "done" THEN E!Confirmed(m) /\ E!Invalidate /\ view' = [view EXCEPT ![s] = gone]
         ELSE UNCHANGED <<owed, dirty, fetch, view>>
  BY DEF E!SettleDelete
<1>3. gone \in E!Rows BY AbsentRow
<1> HIDE DEF m, gone
<1>4. CASE mut[m].pc = "done"
  <2>1. owed' \in [Schedules -> E!Versions] /\ Newest' BY <1>1, <1>2, <1>4, Owing
  <2>2. view' \in Copies BY <1>2, <1>3, <1>4 DEF EInv, EditTyped, Copies
  <2>3. dialog' \in [open : BOOLEAN, of : Schedules \cup {E!New}, on : BOOLEAN]
    BY <1>2 DEF EInv, EditTyped
  <2> QED BY <1>1, <1>2, <1>4, <2>1, <2>2, <2>3, Asking
<1>5. CASE mut[m].pc # "done" BY <1>1, <1>2, <1>5, GivenUp
<1> QED BY <1>4, <1>5

-----------------------------------------------------------------------------
LEMMA ENext ==
    ASSUME E!ConstantsAssumption, EInv, [E!Next]_editingVars
    PROVE  EInv'
<1>1. CASE UNCHANGED editingVars
  BY <1>1 DEF editingVars, EInv, EditTyped, Newest, MutOf, FetchNew, ViewNew
<1>2. ASSUME NEW s \in Schedules, E!Outside(s) PROVE EInv' BY <1>2, EOutside
<1>3. ASSUME NEW s \in Schedules, E!Delete(s) PROVE EInv' BY <1>3, EDelete
<1>4. ASSUME NEW m \in E!Muts, E!Upsert(m) PROVE EInv' BY <1>4, EUpsert
<1>5. ASSUME NEW m \in E!Muts, E!Lose(m) PROVE EInv' BY <1>5, ELose
<1>6. ASSUME NEW s \in Schedules, E!ClickSwitch(s) PROVE EInv' BY <1>6, EClickSwitch
<1>7. ASSUME NEW s \in Schedules, E!ConfirmDelete(s) PROVE EInv' BY <1>7, EConfirmDelete
<1>8. ASSUME NEW s \in Schedules, E!SettleToggle(s) PROVE EInv' BY <1>8, ESettleToggle
<1>9. ASSUME NEW s \in Schedules, E!SettleDelete(s) PROVE EInv' BY <1>9, ESettleDelete
<1>10. E!User => EInv' BY <1>6, <1>7, EDialog, ESubmit DEF E!User
<1>11. E!Answers => EInv' BY <1>8, <1>9, ESettleSave DEF E!Answers
<1> HIDE DEF EInv
<1> QED BY <1>1, <1>2, <1>3, <1>4, <1>5, <1>10, <1>11, ERefetch, EReadRows, EEndFetch DEF E!Next

\* At rest no toggle runs and the copy is not invalidated: what is left of
\* ViewNew is the property.
LEMMA EHolds ==
    ASSUME E!ConstantsAssumption, EInv
    PROVE  E!TypeOK /\ E!ShowsOwnChanges
<1>1. E!TypeOK
  <2>1. fetch.pc \in {"none", "asked", "read"} BY DEF EInv, EditTyped, Fetches, E!NoFetch, E!Asked
  <2>2. \A m \in E!Muts : mut[m].pc \in {"idle", "sent", "done", "failed"} BY DEF EInv, EditTyped, Mutations
  <2> QED BY <2>1, <2>2 DEF EInv, EditTyped, E!TypeOK, Copies
<1>2. E!ShowsOwnChanges
  <2>1. ASSUME E!AtRest PROVE \A s \in Schedules : view[s].ver >= owed[s]
    <3>1. \A s \in Schedules : mut[E!Toggle(s)].pc = "idle" BY <2>1, MutIds, IdleTyped DEF E!AtRest
    <3> QED BY <2>1, <3>1 DEF E!AtRest, EInv, ViewNew
  <2> QED BY <2>1 DEF E!ShowsOwnChanges
<1> QED BY <1>1, <1>2

-----------------------------------------------------------------------------
(* The ticks.                                                              *)

\* A fire was due no later than it was recorded and is of no later arming than
\* the row's; a one-shot is disarmed by it.
FireKnown(f) ==
    /\ f.at <= row.lastFiredAt /\ f.arming <= row.arming
    /\ f.type \in {"once", "countdown"} /\ f.arming = row.arming => ~row.enabled

\* What a tick has seen was recorded before it made its snapshot.
SeenOf(x) ==
    /\ x.snapshot \in K!Rows
    /\ x.snapshot.lastFiredAt <= minute /\ x.snapshot.arming <= row.arming
    /\ \A f \in x.seen :
          /\ f.at <= x.snapshot.lastFiredAt
          /\ f.type \in {"once", "countdown"} => f.arming # x.snapshot.arming

\* What a tick fires was due when it looked.
DueOf(x) ==
    /\ x.at \in K!Minutes /\ x.at <= minute
    /\ x.snapshot.lastFiredAt <= x.at /\ K!IsDue(x.snapshot, x.at)

TickRecords == [pc : {"idle", "select", "visit", "try", "retry", "update"}, start : K!Minutes \cup {K!Never},
                at : K!Minutes \cup {K!Never}, snapshot : K!Rows \cup {<<>>}, seen : SUBSET K!Fires]

\* What is known of a tick at each of its steps.
TickKnown(x) ==
    /\ x.pc = "idle" <=> x = K!Idle
    /\ x.pc # "idle" => x.start \in K!Minutes
    /\ x.seen \subseteq fired
    /\ x.pc \in {"visit", "try", "retry", "update"} => SeenOf(x)
    /\ x.pc \in {"try", "retry", "update"} => DueOf(x)

TicksInv ==
    /\ minute \in K!Minutes /\ edits \in 0..MaxEdits /\ ticked \in K!Minutes \cup {K!Never}
    /\ row \in K!Rows /\ row.arming <= edits /\ row.lastFiredAt <= minute
    /\ fired \subseteq K!Fires /\ \A f \in fired : FireKnown(f)
    /\ tick \in [Ticks -> TickRecords] /\ \A t \in Ticks : TickKnown(tick[t])

-----------------------------------------------------------------------------
\* Days follow one another.
LEMMA DaysInOrder ==
    ASSUME K!ConstantsAssumption, NEW a \in Int, NEW b \in Int, a <= b
    PROVE  K!Day(a) <= K!Day(b) /\ K!Day(a) \in Int /\ K!Day(b) \in Int
<1> DEFINE d == DayMinutes
           p == a \div d
           q == b \div d
<1>1. d \in Nat /\ d > 0 BY DEF K!ConstantsAssumption
<1> HIDE DEF d
<1>2. p \in Int /\ q \in Int /\ a % d \in 0..d - 1 /\ b % d \in 0..d - 1 BY <1>1
<1>3. a = (d * p) + (a % d) /\ b = (d * q) + (b % d) BY <1>1
<1> QED BY <1>1, <1>2, <1>3 DEF K!Day, d

LEMMA TickRowFields ==
    ASSUME NEW r \in K!Rows
    PROVE  /\ r.type \in K!Types /\ r.time \in 0..(DayMinutes - 1) /\ r.enabled \in BOOLEAN
           /\ r.startedAt \in K!Minutes \cup {K!Never} /\ r.lastFiredAt \in K!Minutes \cup {K!Never}
           /\ r.arming \in 0..MaxEdits
BY DEF K!Rows

LEMMA TimesAreInts == K!Minutes \cup {K!Never} \subseteq Int /\ 0..MaxEdits \subseteq Nat
BY DEF K!Minutes, K!Never

LEMMA IdleTick ==
    /\ K!Idle \in TickRecords /\ K!Idle.pc = "idle" /\ TickKnown(K!Idle)
BY DEF K!Idle, TickRecords, TickKnown

LEMMA TicksInit ==
    ASSUME K!ConstantsAssumption, K!Init
    PROVE  TicksInv
<1>1. minute \in K!Minutes /\ edits \in 0..MaxEdits BY DEF K!Init, K!Minutes, K!ConstantsAssumption
<1>2. row \in K!Rows /\ row.arming = 0 /\ row.lastFiredAt = K!Never BY DEF K!Init
<1>3. row.arming <= edits /\ row.lastFiredAt <= minute BY <1>2 DEF K!Init, K!Never
<1>4. tick \in [Ticks -> TickRecords] /\ \A t \in Ticks : TickKnown(tick[t])
  BY IdleTick DEF K!Init
<1> QED BY <1>1, <1>2, <1>3, <1>4 DEF K!Init, TicksInv

\* A step of one tick that leaves the row and the clock alone.
LEMMA TickMoves ==
    ASSUME TicksInv, NEW t \in Ticks, NEW x \in TickRecords, TickKnown(x),
           tick' = [tick EXCEPT ![t] = x],
           UNCHANGED <<minute, row, edits, fired>>, ticked' \in K!Minutes \cup {K!Never}
    PROVE  TicksInv'
<1>1. tick' \in [Ticks -> TickRecords] /\ tick'[t] = x /\ \A u \in Ticks : u # t => tick'[u] = tick[u]
  BY DEF TicksInv
<1>2. \A u \in Ticks : TickKnown(tick'[u]) BY <1>1 DEF TicksInv
<1>3. \A u \in Ticks : TickKnown(tick[u])' BY <1>2 DEF TickKnown, SeenOf, DueOf
<1>4. \A f \in fired : FireKnown(f)' BY DEF TicksInv, FireKnown
<1> QED BY <1>1, <1>3, <1>4 DEF TicksInv

LEMMA TickDone ==
    ASSUME TicksInv, NEW t \in Ticks, K!Done(t), UNCHANGED <<minute, row, edits, ticked, fired>>
    PROVE  TicksInv'
<1>1. ticked' \in K!Minutes \cup {K!Never} BY DEF TicksInv
<1> QED BY <1>1, IdleTick, TickMoves DEF K!Done

LEMMA TickGoes ==
    ASSUME TicksInv, NEW t \in Ticks, tick[t].pc \in {"try", "retry"}, NEW pc \in {"retry", "update"},
           K!Goto(t, pc), UNCHANGED <<minute, row, edits, ticked, fired>>
    PROVE  TicksInv'
<1> DEFINE x == [tick[t] EXCEPT !.pc = pc]
<1>1. tick[t] \in TickRecords /\ TickKnown(tick[t]) BY DEF TicksInv
<1>2. x \in TickRecords /\ x.pc = pc /\ x.start = tick[t].start /\ x.at = tick[t].at
      /\ x.snapshot = tick[t].snapshot /\ x.seen = tick[t].seen
  BY <1>1 DEF TickRecords
<1>3. tick' = [tick EXCEPT ![t] = x] /\ ticked' \in K!Minutes \cup {K!Never} BY DEF K!Goto, TicksInv
<1> HIDE DEF x
<1>4. x # K!Idle BY <1>2, IdleTick
<1>5. TickKnown(x) BY <1>1, <1>2, <1>4 DEF TickKnown, SeenOf, DueOf
<1> QED BY <1>2, <1>3, <1>5, TickMoves

LEMMA TClock ==
    ASSUME K!ConstantsAssumption, TicksInv, K!Clock
    PROVE  TicksInv'
<1>1. minute \in Nat /\ minute' = minute + 1 /\ minute' \in K!Minutes BY DEF TicksInv, K!Clock, K!Minutes, K!ConstantsAssumption
<1>2. UNCHANGED <<row, edits, tick, ticked, fired>> BY DEF K!Clock
<1>3. row.lastFiredAt \in Int /\ row.lastFiredAt <= minute BY TickRowFields, TimesAreInts DEF TicksInv
<1>4. row.lastFiredAt <= minute' BY <1>1, <1>3
<1>5. \A t \in Ticks : TickKnown(tick[t])'
  <2> TAKE t \in Ticks
  <2> DEFINE x == tick[t]
  <2>1. TickKnown(x) BY DEF TicksInv
  <2>2. SeenOf(x) => x.snapshot.lastFiredAt \in Int BY TickRowFields, TimesAreInts DEF SeenOf
  <2>3. DueOf(x) => x.at \in Int BY TimesAreInts DEF DueOf
  <2> HIDE DEF x
  <2>4. \A z \in Int : z <= minute => z <= minute' BY <1>1
  <2>5. SeenOf(x) => x.snapshot.lastFiredAt <= minute' BY <2>2, <2>4 DEF SeenOf
  <2>6. DueOf(x) => x.at <= minute' BY <2>3, <2>4 DEF DueOf
  <2> QED BY <1>2, <2>1, <2>5, <2>6 DEF TickKnown, SeenOf, DueOf, x
<1>6. \A f \in fired : FireKnown(f)' BY <1>2 DEF TicksInv, FireKnown
<1> QED BY <1>1, <1>2, <1>4, <1>5, <1>6 DEF TicksInv

\* A schedule armed again is of a new arming, of which there is no fire yet.
LEMMA TUpsert ==
    ASSUME K!ConstantsAssumption, TicksInv, NEW type \in K!Types, NEW time \in 0..(DayMinutes - 1),
           NEW enabled \in BOOLEAN, K!UpsertSchedule(type, time, enabled)
    PROVE  TicksInv'
<1> DEFINE rearmed == ~row.enabled /\ enabled
           started == IF type # "countdown" THEN K!Never
                      ELSE IF rearmed \/ row.startedAt = K!Never THEN minute ELSE row.startedAt
           arming == IF rearmed THEN row.arming + 1 ELSE row.arming
<1>1. /\ edits < MaxEdits /\ edits' = edits + 1
      /\ row' = [row EXCEPT !.type = type, !.time = time, !.enabled = enabled,
                            !.startedAt = started, !.arming = arming]
      /\ UNCHANGED <<minute, tick, ticked, fired>>
  BY DEF K!UpsertSchedule
<1>2. row \in K!Rows /\ minute \in K!Minutes /\ edits \in 0..MaxEdits /\ row.arming <= edits BY DEF TicksInv
<1>3. started \in K!Minutes \cup {K!Never} BY <1>2, TickRowFields
<1>4. edits \in Nat /\ edits' \in 0..MaxEdits BY <1>1, <1>2 DEF K!ConstantsAssumption
<1>5. row.arming \in Nat BY <1>2, TickRowFields, TimesAreInts
<1>6. arming \in 0..MaxEdits /\ arming <= edits' /\ row.arming <= arming
  BY <1>1, <1>2, <1>4, <1>5 DEF K!ConstantsAssumption
<1>r. row' \in K!Rows /\ row'.enabled = enabled /\ row'.arming = arming /\ row'.lastFiredAt = row.lastFiredAt
  <2> HIDE DEF started, arming
  <2> QED BY <1>1, <1>2, <1>3, <1>6 DEF K!Rows
<1>7. \A f \in fired : FireKnown(f)'
  <2> TAKE f \in fired
  <2>1. FireKnown(f) /\ f.arming \in Nat BY TimesAreInts DEF TicksInv, K!Fires
  <2>2. f.arming <= row.arming BY <2>1 DEF FireKnown
  <2>3. f.arming <= arming BY <2>1, <2>2, <1>5, <1>6
  <2>4. rearmed => f.arming # arming BY <2>1, <2>2, <1>5
  <2>5. ~rearmed /\ enabled => row.enabled /\ arming = row.arming BY <1>2, TickRowFields
  <2> HIDE DEF arming, rearmed
  <2>6. f.type \in {"once", "countdown"} /\ f.arming = arming => ~enabled
    BY <2>1, <2>4, <2>5 DEF FireKnown
  <2> QED BY <1>r, <1>1, <2>1, <2>3, <2>6 DEF FireKnown
<1>8. \A t \in Ticks : TickKnown(tick[t])'
  <2> TAKE t \in Ticks
  <2> DEFINE x == tick[t]
  <2>1. TickKnown(x) BY DEF TicksInv
  <2>2. SeenOf(x) => x.snapshot.arming <= arming
    <3>1. SeenOf(x) => x.snapshot.arming \in Nat /\ x.snapshot.arming <= row.arming
      BY TickRowFields, TimesAreInts DEF SeenOf
    <3>2. arming \in Nat BY <1>6
    <3> HIDE DEF x, arming
    <3> QED BY <3>1, <3>2, <1>5, <1>6
  <2> HIDE DEF x, arming
  <2> QED BY <1>1, <1>r, <2>1, <2>2 DEF TickKnown, SeenOf, DueOf, x
<1> HIDE DEF arming
<1>9. row'.arming <= edits' /\ row'.lastFiredAt <= minute' BY <1>1, <1>r, <1>6 DEF TicksInv
<1> QED BY <1>1, <1>4, <1>r, <1>7, <1>8, <1>9 DEF TicksInv

LEMMA TRunTick ==
    ASSUME K!ConstantsAssumption, TicksInv, NEW t \in Ticks, K!RunTick(t)
    PROVE  TicksInv'
<1> DEFINE x == [K!Idle EXCEPT !.pc = "select", !.start = minute]
<1>1. minute \in K!Minutes /\ tick[t] = K!Idle BY DEF TicksInv, K!RunTick
<1>2. x \in TickRecords /\ x.pc = "select" /\ x.start = minute /\ x.seen = {}
  BY <1>1 DEF K!Idle, TickRecords
<1>3. tick' = [tick EXCEPT ![t] = x] BY <1>1 DEF K!RunTick, TicksInv
<1>4. ticked' \in K!Minutes \cup {K!Never} /\ UNCHANGED <<minute, row, edits, fired>> BY <1>1 DEF K!RunTick
<1> HIDE DEF x
<1>5. TickKnown(x) BY <1>1, <1>2, IdleTick DEF TickKnown
<1> QED BY <1>2, <1>3, <1>4, <1>5, TickMoves

\* An enabled row: what was fired of its arming is not of a one-shot.
LEMMA TSelectRows ==
    ASSUME K!ConstantsAssumption, TicksInv, NEW t \in Ticks, K!SelectRows(t)
    PROVE  TicksInv'
<1>1. CASE ~row.enabled BY <1>1, TickDone DEF K!SelectRows
<1>2. CASE row.enabled
  <2> DEFINE x == [tick[t] EXCEPT !.pc = "visit", !.snapshot = row, !.seen = fired]
  <2>1. tick[t] \in TickRecords /\ TickKnown(tick[t]) /\ row \in K!Rows /\ fired \subseteq K!Fires BY DEF TicksInv
  <2>2. x \in TickRecords /\ x.pc = "visit" /\ x.start = tick[t].start /\ x.snapshot = row /\ x.seen = fired
    BY <2>1 DEF TickRecords
  <2>3. /\ tick' = [tick EXCEPT ![t] = x] /\ ticked' \in K!Minutes \cup {K!Never}
        /\ UNCHANGED <<minute, row, edits, fired>>
    BY <1>2 DEF K!SelectRows, TicksInv
  <2> HIDE DEF x
  <2>4. \A f \in fired : FireKnown(f) BY DEF TicksInv
  <2>5. row.arming <= row.arming BY <2>1, TickRowFields, TimesAreInts
  <2>6. SeenOf(x) BY <1>2, <2>1, <2>2, <2>4, <2>5 DEF SeenOf, FireKnown, TicksInv
  <2>7. x.start \in K!Minutes BY <2>1, <2>2 DEF TickKnown, K!SelectRows
  <2>8. x # K!Idle BY <2>2, IdleTick
  <2>9. TickKnown(x) BY <2>2, <2>6, <2>7, <2>8 DEF TickKnown
  <2> QED BY <2>2, <2>3, <2>9, TickMoves
<1> QED BY <1>1, <1>2

LEMMA TVisit ==
    ASSUME K!ConstantsAssumption, TicksInv, NEW t \in Ticks, K!Visit(t)
    PROVE  TicksInv'
<1>1. CASE ~K!IsDue(tick[t].snapshot, minute) BY <1>1, TickDone DEF K!Visit
<1>2. CASE K!IsDue(tick[t].snapshot, minute)
  <2> DEFINE x == [tick[t] EXCEPT !.pc = "try", !.at = minute]
  <2>1. tick[t] \in TickRecords /\ TickKnown(tick[t]) /\ minute \in K!Minutes BY DEF TicksInv
  <2>2. x \in TickRecords /\ x.pc = "try" /\ x.start = tick[t].start /\ x.at = minute
        /\ x.snapshot = tick[t].snapshot /\ x.seen = tick[t].seen
    BY <2>1 DEF TickRecords
  <2>3. /\ tick' = [tick EXCEPT ![t] = x] /\ ticked' \in K!Minutes \cup {K!Never}
        /\ UNCHANGED <<minute, row, edits, fired>> /\ tick[t].pc = "visit"
    BY <1>2 DEF K!Visit, TicksInv
  <2> HIDE DEF x
  <2>4. minute <= minute BY <2>1, TimesAreInts
  <2>7. x.snapshot.lastFiredAt <= minute BY <2>1, <2>2, <2>3 DEF SeenOf, TickKnown
  <2>5. DueOf(x) BY <1>2, <2>1, <2>2, <2>4, <2>7 DEF DueOf
  <2>6. SeenOf(x) BY <2>1, <2>2, <2>3 DEF SeenOf, TickKnown
  <2>8. x # K!Idle BY <2>2, IdleTick
  <2>9. TickKnown(x) BY <2>1, <2>2, <2>3, <2>5, <2>6, <2>8 DEF TickKnown
  <2> QED BY <2>2, <2>3, <2>9, TickMoves
<1> QED BY <1>1, <1>2

LEMMA TAttempt ==
    ASSUME TicksInv, NEW t \in Ticks, K!Handled(t) \/ K!Fails(t)
    PROVE  TicksInv'
BY TickGoes, TickDone DEF K!Handled, K!Fails

\* A fire is recorded: no fire is newer, and a one-shot's row is disabled.
LEMMA TUpdateFired ==
    ASSUME K!ConstantsAssumption, TicksInv, NEW t \in Ticks, K!UpdateFired(t)
    PROVE  TicksInv'
<1> DEFINE old == tick[t].snapshot
           on == row.enabled /\ ~K!IsOneShot(old)
           new == [tick |-> tick[t].start, at |-> tick[t].at, type |-> old.type, arming |-> old.arming]
<1>1. /\ tick[t].pc = "update"
      /\ row' = [row EXCEPT !.lastFiredAt = minute, !.enabled = on]
      /\ fired' = fired \cup {new}
      /\ tick' = [tick EXCEPT ![t] = K!Idle]
      /\ UNCHANGED <<minute, edits, ticked>>
  BY DEF K!UpdateFired, K!Done
<1>2. /\ row \in K!Rows /\ minute \in K!Minutes /\ tick[t] \in TickRecords /\ tick[t].start \in K!Minutes
      /\ SeenOf(tick[t]) /\ DueOf(tick[t])
  BY <1>1, IdleTick DEF TicksInv, TickKnown
<1>3. old \in K!Rows /\ old.arming <= row.arming /\ tick[t].at \in K!Minutes /\ tick[t].at <= minute
  BY <1>2 DEF SeenOf, DueOf
<1>4. on \in BOOLEAN /\ (on => row.enabled) BY <1>2, TickRowFields
<1>5. row' \in K!Rows /\ row'.lastFiredAt = minute /\ row'.enabled = on /\ row'.arming = row.arming
  <2> HIDE DEF on
  <2> QED BY <1>1, <1>2, <1>4 DEF K!Rows
<1>6. new \in K!Fires /\ new.at = tick[t].at /\ new.type = old.type /\ new.arming = old.arming
  <2> HIDE DEF old
  <2> QED BY <1>2, <1>3, TickRowFields DEF K!Fires
<1>7. new.type \in {"once", "countdown"} => ~on BY <1>6 DEF K!IsOneShot
<1> HIDE DEF on, new
<1>8. \A f \in fired' : FireKnown(f)'
  <2>1. \A f \in {new} : FireKnown(f)' BY <1>1, <1>3, <1>5, <1>6, <1>7 DEF FireKnown
  <2>2. ASSUME NEW f \in fired PROVE FireKnown(f)'
    <3>1. FireKnown(f) /\ f.at \in Int BY TimesAreInts DEF TicksInv, K!Fires
    <3>2. row.lastFiredAt \in Int /\ minute \in Int /\ row.lastFiredAt <= minute
      BY <1>2, TickRowFields, TimesAreInts DEF TicksInv
    <3>3. f.at <= row.lastFiredAt BY <3>1 DEF FireKnown
    <3>4. f.at <= minute BY <3>1, <3>2, <3>3
    <3> QED BY <1>1, <1>4, <1>5, <3>1, <3>4 DEF FireKnown
  <2> QED BY <1>1, <2>1, <2>2
<1>9. tick' \in [Ticks -> TickRecords] /\ tick'[t] = K!Idle /\ \A u \in Ticks : u # t => tick'[u] = tick[u]
  BY <1>1, IdleTick DEF TicksInv
<1>10. \A u \in Ticks : TickKnown(tick[u])'
  <2>1. \A u \in Ticks : TickKnown(tick[u]) BY DEF TicksInv
  <2>2. TickKnown(tick[t])' BY <1>9, IdleTick DEF TickKnown, K!Idle
  <2>3. \A u \in Ticks : u # t => TickKnown(tick[u])'
    BY <1>1, <1>5, <1>9, <2>1 DEF TickKnown, SeenOf, DueOf
  <2> QED BY <2>2, <2>3
<1>11. row'.arming <= edits' /\ row'.lastFiredAt <= minute'
  <2>1. minute <= minute BY <1>2, TimesAreInts
  <2> QED BY <1>1, <1>5, <2>1 DEF TicksInv
<1>12. minute' \in K!Minutes /\ edits' \in 0..MaxEdits /\ ticked' \in K!Minutes \cup {K!Never} /\ fired' \subseteq K!Fires
  BY <1>1, <1>6 DEF TicksInv
<1> QED BY <1>5, <1>8, <1>9, <1>10, <1>11, <1>12 DEF TicksInv

LEMMA TRestart ==
    ASSUME TicksInv, K!Restart
    PROVE  TicksInv'
<1>1. tick' \in [Ticks -> TickRecords] /\ \A t \in Ticks : tick'[t] = K!Idle BY IdleTick DEF K!Restart
<1>2. UNCHANGED <<minute, row, edits, ticked, fired>> BY DEF K!Restart
<1>3. \A t \in Ticks : TickKnown(tick[t])' BY <1>1, IdleTick DEF TickKnown, K!Idle
<1>4. \A f \in fired : FireKnown(f)' BY <1>2 DEF TicksInv, FireKnown
<1> QED BY <1>1, <1>2, <1>3, <1>4 DEF TicksInv

LEMMA TicksNext ==
    ASSUME K!ConstantsAssumption, TicksInv, [K!Next]_tickVars
    PROVE  TicksInv'
<1>1. CASE UNCHANGED tickVars
  BY <1>1 DEF tickVars, TicksInv, TickKnown, SeenOf, DueOf, FireKnown
<1> QED BY <1>1, TClock, TUpsert, TRunTick, TSelectRows, TVisit, TAttempt, TUpdateFired, TRestart DEF K!Next

\* A clock schedule that is due was last recorded on an earlier day than this,
\* and so was every fire the tick has seen.
LEMMA TicksHold ==
    ASSUME K!ConstantsAssumption, TicksInv
    PROVE  K!TypeOK /\ K!RecordedNotRepeated
<1>1. K!TypeOK
  BY DEF TicksInv, TickKnown, SeenOf, TickRecords, K!TypeOK
<1>2. K!RecordedNotRepeated
  <2> SUFFICES ASSUME NEW t \in Ticks, tick[t].pc \in {"try", "retry", "update"}, NEW f \in tick[t].seen,
                      K!SameOccurrence(f, tick[t].at, tick[t].snapshot)
               PROVE  FALSE
    BY DEF K!RecordedNotRepeated
  <2> DEFINE x == tick[t]
             r == tick[t].snapshot
  <2>1. SeenOf(x) /\ DueOf(x) /\ f \in K!Fires BY DEF TicksInv, TickKnown
  <2>2. /\ f.at <= r.lastFiredAt /\ r \in K!Rows
        /\ f.type \in {"once", "countdown"} => f.arming # r.arming
    <3>1. f \in x.seen /\ r = x.snapshot OBVIOUS
    <3> HIDE DEF x, r
    <3>2. f.at <= x.snapshot.lastFiredAt /\ x.snapshot \in K!Rows BY <2>1, <3>1 DEF SeenOf
    <3>3. f.type \in {"once", "countdown"} => f.arming # x.snapshot.arming BY <2>1, <3>1 DEF SeenOf
    <3> QED BY <3>1, <3>2, <3>3
  <2>3. f.type # "countdown" /\ r.type # "countdown" /\ K!Day(f.at) = K!Day(x.at)
    BY <2>2 DEF K!SameOccurrence
  <2>4. x.at \in K!Minutes /\ K!IsDue(r, x.at) BY <2>1 DEF DueOf
  <2>5. f.at \in Int /\ r.lastFiredAt \in Int /\ x.at \in Int BY <2>1, <2>2, <2>4, TickRowFields, TimesAreInts DEF K!Fires
  <2>6. K!Day(r.lastFiredAt) # K!Day(x.at) BY <2>3, <2>4 DEF K!IsDue
  <2>7. r.lastFiredAt <= x.at BY <2>1 DEF DueOf
  <2> HIDE DEF x, r
  <2>8. K!Day(f.at) <= K!Day(r.lastFiredAt) /\ K!Day(r.lastFiredAt) <= K!Day(x.at)
        /\ K!Day(f.at) \in Int /\ K!Day(r.lastFiredAt) \in Int /\ K!Day(x.at) \in Int
    BY <2>2, <2>5, <2>7, DaysInOrder
  <2> QED BY <2>3, <2>6, <2>8
<1> QED BY <1>1, <1>2

-----------------------------------------------------------------------------
(* The automations.                                                        *)

EchoSet == [change : C!Changes, ancestry : SUBSET Automations]
NoteRecords == [change : C!Changes, depth : 0..MaxDepth, chain : SUBSET Automations,
                ancestry : SUBSET Automations]

\* A note carries one automation for every step of its depth, and as long as
\* no echo was mixed up those behind its command.
NoteSet == {n \in NoteRecords : n.depth = Cardinality(n.chain) /\ (~mixed => n.chain = n.ancestry)}

SlotSet == [pc : {"free", "fire", "note", "relay", "sleep", "again"}, todo : Seq(Automations),
            step : Nat, depth : 0..MaxDepth, chain : SUBSET Automations,
            ancestry : SUBSET Automations]

\* An evaluation fires only what neither its depth nor its chain refuses.
SlotKnown(x) ==
    /\ x.pc = "free" => x = C!Free
    /\ x.pc # "free" => x.todo # <<>> /\ x.step \in 1..Len(Actions[Head(x.todo)])
    /\ x.pc \in {"note", "relay", "sleep", "again"} => x.depth < MaxDepth /\ Head(x.todo) \notin x.chain
    /\ x.depth = Cardinality(x.chain)

\* Its chain is its ancestry as long as every echo found a note of its own.
CascadeInv ==
    /\ outlet \in [Outlets -> {"ON", "OFF"}]
    /\ echoes \in Seq(EchoSet) /\ notes \in Seq(NoteSet)
    /\ app \in [AppCommands -> [pc : {"idle", "noted", "done"}, change : AppChanges]]
    /\ mixed \in BOOLEAN /\ faults \in 0..MaxFaults
    /\ slot \in [Slots -> SlotSet] /\ \A s \in Slots : SlotKnown(slot[s])
    /\ ~mixed => \A s \in Slots : slot[s].chain = slot[s].ancestry

DeviceTyped == outlet' \in [Outlets -> {"ON", "OFF"}] /\ echoes' \in Seq(EchoSet)

-----------------------------------------------------------------------------
\* The instance's names of the standard operators are those operators.
LEMMA CascadeCounts ==
    /\ \A S : C!Cardinality(S) = Cardinality(S)
    /\ \A S : C!IsFiniteSet(S) = IsFiniteSet(S)
<1>1. \A S : C!Cardinality(S) = Cardinality(S)
  BY DEF C!Cardinality, Cardinality
<1>2. \A S : C!IsFiniteSet(S) = IsFiniteSet(S)
  BY DEF C!IsFiniteSet, IsFiniteSet
<1> QED BY <1>1, <1>2

\* A finite set as a sequence.
LEMMA SetToSeqTyped ==
    ASSUME NEW S, IsFiniteSet(S)
    PROVE  /\ C!SetToSeq(S) \in Seq(S)
           /\ S # {} => C!SetToSeq(S) # <<>>
<1>1. PICK n \in Nat : ExistsBijection(1..n, S) BY FS_NatBijection
<1>2. Cardinality(S) = n BY <1>1, FS_CountingElements
<1>3. PICK f \in Bijection(1..n, S) : TRUE BY <1>1 DEF ExistsBijection
<1>4. f \in [1..Cardinality(S) -> S] /\ C!IsInjective(f)
  <2>1. f \in [1..n -> S] /\ \A i, j \in 1..n : f[i] = f[j] => i = j
    BY <1>3 DEF Bijection, Injection, IsInjective
  <2>2. DOMAIN f = 1..n BY <2>1
  <2> QED BY <1>2, <2>1, <2>2 DEF C!IsInjective
<1>5. C!SetToSeq(S) \in [1..Cardinality(S) -> S] BY <1>4, CascadeCounts DEF C!SetToSeq
<1>6. C!SetToSeq(S) \in Seq(S) BY <1>2, <1>5
<1>7. S # {} => n # 0 BY <1>2, FS_EmptySet
<1> HIDE DEF Cardinality
<1>8. S # {} => DOMAIN C!SetToSeq(S) # {} BY <1>2, <1>5, <1>7
<1> QED BY <1>6, <1>8

LEMMA NoteRemoved ==
    ASSUME NEW T, NEW u \in Seq(T), NEW i \in 1..Len(u)
    PROVE  C!RemoveAt(u, i) \in Seq(T)
BY DEF C!RemoveAt

LEMMA FreeSlot ==
    ASSUME C!ConstantsAssumption
    PROVE  C!Free \in SlotSet /\ SlotKnown(C!Free) /\ C!Free.chain = C!Free.ancestry /\ C!Free.pc = "free"
<1>1. Cardinality({}) = 0 BY FS_EmptySet
<1> QED BY <1>1 DEF C!Free, SlotSet, SlotKnown, C!ConstantsAssumption

LEMMA CascadeInit ==
    ASSUME C!ConstantsAssumption, C!Init
    PROVE  CascadeInv
<1>1. echoes \in Seq(EchoSet) /\ notes \in Seq(NoteSet) BY DEF C!Init
<1>2. slot \in [Slots -> SlotSet] /\ \A s \in Slots : slot[s] = C!Free BY FreeSlot DEF C!Init
<1>3. faults \in 0..MaxFaults BY DEF C!Init, C!ConstantsAssumption
<1>4. app \in [AppCommands -> [pc : {"idle", "noted", "done"}, change : AppChanges]]
  <2>1. app \in [AppCommands -> [pc : {"idle"}, change : AppChanges]] BY DEF C!Init
  <2> QED BY <2>1
<1>5. outlet \in [Outlets -> {"ON", "OFF"}] BY DEF C!Init
<1> QED BY <1>1, <1>2, <1>3, <1>4, <1>5, FreeSlot DEF C!Init, CascadeInv

-----------------------------------------------------------------------------
(* The device and the notes.                                               *)

LEMMA SetStateTyped ==
    ASSUME C!ConstantsAssumption, CascadeInv, NEW change \in C!Changes, NEW ancestry \in SUBSET Automations,
           C!SetState(change, ancestry)
    PROVE  DeviceTyped
<1> DEFINE on == change[2] = "ON"
           others == IF on /\ Interlock THEN {c \in Outlets \ {change[1]} : outlet[c] = "ON"} ELSE {}
           order == C!SetToSeq(others)
           offs == [i \in DOMAIN order |-> [change |-> <<order[i], "OFF">>, ancestry |-> ancestry]]
           last == <<[change |-> change, ancestry |-> ancestry]>>
<1>1. /\ outlet' = [c \in Outlets |-> IF c = change[1] THEN change[2]
                                      ELSE IF c \in others THEN "OFF" ELSE outlet[c]]
      /\ echoes' = echoes \o offs \o last
  BY DEF C!SetState
<1>2. others \subseteq Outlets /\ change[2] \in {"ON", "OFF"} BY DEF C!Changes
<1>3. IsFiniteSet(others) BY <1>2, FS_Subset, CascadeCounts DEF C!ConstantsAssumption
<1> HIDE DEF others
<1>4. order \in Seq(others) BY <1>3, SetToSeqTyped
<1> HIDE DEF order
<1>5. order \in Seq(Outlets) BY <1>2, <1>4
<1>6. \A i \in 1..Len(order) : [change |-> <<order[i], "OFF">>, ancestry |-> ancestry] \in EchoSet
  BY <1>5 DEF EchoSet, C!Changes
<1>7. offs \in Seq(EchoSet) BY <1>5, <1>6
<1>8. last \in Seq(EchoSet) BY DEF EchoSet
<1> HIDE DEF offs, last
<1>9. echoes' \in Seq(EchoSet) BY <1>1, <1>7, <1>8 DEF CascadeInv
<1>10. outlet' \in [Outlets -> {"ON", "OFF"}] BY <1>1, <1>2 DEF CascadeInv
<1> QED BY <1>9, <1>10 DEF DeviceTyped

\* What was known of the notes is still, or is not claimed any more.
LEMMA NotesStay ==
    ASSUME notes' \in Seq(NoteSet), ~mixed' => ~mixed
    PROVE  notes' \in Seq(NoteSet')
<1>1. \A n \in NoteSet : n \in NoteSet' BY DEF NoteSet
<1> QED BY <1>1

LEMMA NoteTyped ==
    ASSUME CascadeInv, NEW change \in C!Changes, NEW depth \in 0..MaxDepth, NEW chain \in SUBSET Automations,
           NEW ancestry \in SUBSET Automations, depth = Cardinality(chain), ~mixed => chain = ancestry,
           C!NoteExpectedStateChange(change, depth, chain, ancestry)
    PROVE  notes' \in Seq(NoteSet)
<1> DEFINE n == [change |-> change, depth |-> depth, chain |-> chain, ancestry |-> ancestry]
<1>1. n \in NoteSet BY DEF NoteSet, NoteRecords
<1>2. notes' = Append(notes, n) BY DEF C!NoteExpectedStateChange
<1> HIDE DEF n
<1> QED BY <1>1, <1>2 DEF CascadeInv

LEMMA DiscardTyped ==
    ASSUME CascadeInv, NEW change, C!DiscardRecent(change)
    PROVE  notes' \in Seq(NoteSet)
BY NoteRemoved DEF C!DiscardRecent, C!Noted, CascadeInv

LEMMA MishapTyped ==
    ASSUME C!ConstantsAssumption, CascadeInv, C!Mishap \/ UNCHANGED faults
    PROVE  faults' \in 0..MaxFaults
BY DEF C!Mishap, CascadeInv, C!ConstantsAssumption

\* What can become of a command, whoever sends it.
LEMMA RelayTyped ==
    ASSUME C!ConstantsAssumption, CascadeInv, NEW change \in C!Changes, NEW ancestry \in SUBSET Automations,
           C!Applied(change, ancestry) \/ C!Refused(change) \/ C!Fails(change, ancestry)
    PROVE  DeviceTyped /\ notes' \in Seq(NoteSet) /\ faults' \in 0..MaxFaults
<1>1. UNCHANGED <<outlet, echoes>> => DeviceTyped BY DEF CascadeInv, DeviceTyped
<1>2. UNCHANGED notes => notes' \in Seq(NoteSet) BY DEF CascadeInv
<1>3. CASE C!Applied(change, ancestry) BY <1>2, <1>3, SetStateTyped, MishapTyped DEF C!Applied
<1>4. CASE C!Refused(change) BY <1>1, <1>4, DiscardTyped, MishapTyped DEF C!Refused
<1>5. CASE C!Fails(change, ancestry) BY <1>1, <1>2, <1>5, SetStateTyped, MishapTyped DEF C!Fails
<1> QED BY <1>3, <1>4, <1>5

-----------------------------------------------------------------------------
(* The evaluations.                                                        *)

SlotsKnown ==
    /\ slot' \in [Slots -> SlotSet] /\ \A s \in Slots : SlotKnown(slot'[s])
    /\ mixed' \in BOOLEAN
    /\ ~mixed' => \A s \in Slots : slot'[s].chain = slot'[s].ancestry

LEMMA SlotsStay ==
    ASSUME CascadeInv, UNCHANGED <<slot, mixed>>
    PROVE  SlotsKnown
BY DEF CascadeInv, SlotsKnown

\* A step of one evaluation.
LEMMA SlotMoves ==
    ASSUME CascadeInv, NEW s \in Slots, NEW x \in SlotSet, SlotKnown(x), slot' = [slot EXCEPT ![s] = x],
           mixed' \in BOOLEAN, ~mixed' => ~mixed /\ x.chain = x.ancestry
    PROVE  SlotsKnown
<1>1. slot' \in [Slots -> SlotSet] /\ slot'[s] = x /\ \A u \in Slots : u # s => slot'[u] = slot[u]
  BY DEF CascadeInv
<1>2. \A u \in Slots : SlotKnown(slot'[u]) BY <1>1 DEF CascadeInv
<1>3. ~mixed' => \A u \in Slots : slot'[u].chain = slot'[u].ancestry BY <1>1 DEF CascadeInv
<1> QED BY <1>1, <1>2, <1>3 DEF SlotsKnown

\* What it knows when it is not free.
LEMMA BusySlot ==
    ASSUME C!ConstantsAssumption, CascadeInv, NEW s \in Slots, slot[s].pc # "free"
    PROVE  /\ slot[s] \in SlotSet /\ SlotKnown(slot[s]) /\ mixed \in BOOLEAN
           /\ ~mixed => slot[s].chain = slot[s].ancestry
           /\ slot[s].todo \in Seq(Automations) /\ slot[s].todo # <<>> /\ C!Automation(s) \in Automations
           /\ Actions[C!Automation(s)] \in Seq(C!Changes) /\ C!Action(s) \in C!Changes
           /\ Tail(slot[s].todo) \in Seq(Automations)
<1>1. slot[s] \in SlotSet /\ SlotKnown(slot[s]) /\ mixed \in BOOLEAN
      /\ (~mixed => slot[s].chain = slot[s].ancestry)
  BY DEF CascadeInv
<1>2. slot[s].todo \in Seq(Automations) /\ slot[s].todo # <<>> BY <1>1 DEF SlotSet, SlotKnown
<1>3. C!Automation(s) \in Automations /\ Tail(slot[s].todo) \in Seq(Automations) BY <1>2 DEF C!Automation
<1>4. Actions[C!Automation(s)] \in Seq(C!Changes) BY <1>3 DEF C!ConstantsAssumption
<1>5. slot[s].step \in 1..Len(Actions[C!Automation(s)]) BY <1>1 DEF SlotKnown, C!Automation
<1>6. C!Action(s) \in C!Changes BY <1>4, <1>5 DEF C!Action
<1> QED BY <1>1, <1>2, <1>3, <1>4, <1>6

\* It goes on firing the same automation, if it may.
LEMMA CascadeGoes ==
    ASSUME C!ConstantsAssumption, CascadeInv, NEW s \in Slots, NEW pc \in {"note", "relay", "sleep", "again"},
           C!Goto(s, pc), UNCHANGED mixed, slot[s].pc # "free",
           slot[s].depth < MaxDepth, C!Automation(s) \notin slot[s].chain
    PROVE  SlotsKnown
<1> DEFINE y == slot[s]
           x == [y EXCEPT !.pc = pc]
<1>1. slot' = [slot EXCEPT ![s] = x] BY DEF C!Goto
<1>2. y \in SlotSet /\ SlotKnown(y) /\ y.pc # "free" /\ y.depth < MaxDepth /\ Head(y.todo) \notin y.chain
      /\ (~mixed => y.chain = y.ancestry) /\ mixed \in BOOLEAN
  BY BusySlot DEF C!Automation
<1> HIDE DEF y
<1>3. x \in SlotSet /\ x.pc = pc /\ x.todo = y.todo /\ x.step = y.step /\ x.depth = y.depth
      /\ x.chain = y.chain /\ x.ancestry = y.ancestry
  BY <1>2 DEF SlotSet
<1> HIDE DEF x
<1>4. SlotKnown(x) BY <1>2, <1>3 DEF SlotKnown
<1> QED BY <1>1, <1>2, <1>3, <1>4, SlotMoves

LEMMA CascadeNextAutomation ==
    ASSUME C!ConstantsAssumption, CascadeInv, NEW s \in Slots, C!NextAutomation(s), UNCHANGED mixed,
           slot[s].pc # "free"
    PROVE  SlotsKnown
<1> DEFINE y == slot[s]
           rest == Tail(slot[s].todo)
           x == [y EXCEPT !.pc = "fire", !.todo = rest, !.step = 1]
<1>1. mixed \in BOOLEAN BY DEF CascadeInv
<1>2. CASE rest = <<>> BY <1>1, <1>2, FreeSlot, SlotMoves DEF C!NextAutomation
<1>3. CASE rest # <<>>
  <2>1. slot' = [slot EXCEPT ![s] = x] BY <1>3 DEF C!NextAutomation
  <2>2. y \in SlotSet /\ SlotKnown(y) /\ rest \in Seq(Automations) /\ (~mixed => y.chain = y.ancestry)
    BY BusySlot
  <2>3. Head(rest) \in Automations BY <1>3, <2>2
  <2> HIDE DEF y, rest
  <2>4. Actions[Head(rest)] \in Seq(C!Changes) /\ Actions[Head(rest)] # <<>> BY <2>3 DEF C!ConstantsAssumption
  <2>5. 1 \in 1..Len(Actions[Head(rest)]) BY <2>4
  <2>6. x \in SlotSet /\ x.pc = "fire" /\ x.todo = rest /\ x.step = 1
        /\ x.depth = y.depth /\ x.chain = y.chain /\ x.ancestry = y.ancestry
    BY <2>2 DEF SlotSet
  <2> HIDE DEF x
  <2>7. SlotKnown(x) BY <1>3, <2>2, <2>5, <2>6 DEF SlotKnown
  <2> QED BY <1>1, <2>1, <2>2, <2>6, <2>7, SlotMoves
<1> QED BY <1>2, <1>3

LEMMA CascadeNextAction ==
    ASSUME C!ConstantsAssumption, CascadeInv, NEW s \in Slots, C!NextAction(s), UNCHANGED mixed, C!Firing(s)
    PROVE  SlotsKnown
<1> DEFINE y == slot[s]
           n == Len(Actions[Head(slot[s].todo)])
           next == slot[s].step + 1
           x == [y EXCEPT !.pc = "note", !.step = next]
<1>0. slot[s].pc \in {"note", "relay", "sleep", "again"} BY DEF C!Firing
<1>1. CASE slot[s].step < Len(Actions[C!Automation(s)])
  <2>1. slot' = [slot EXCEPT ![s] = x] BY <1>1 DEF C!NextAction
  <2>2. y \in SlotSet /\ SlotKnown(y) /\ (~mixed => y.chain = y.ancestry) /\ mixed \in BOOLEAN
        /\ Actions[Head(y.todo)] \in Seq(C!Changes)
    BY <1>0, BusySlot DEF C!Automation
  <2>3. n \in Nat /\ y.step < n BY <1>1, <2>2 DEF C!Automation
  <2>4. n = Len(Actions[Head(y.todo)]) OBVIOUS
  <2> HIDE DEF y, n
  <2>5. y.step \in Nat BY <2>2 DEF SlotSet
  <2>6. next \in 1..n /\ next \in Nat BY <2>3, <2>5 DEF y
  <2> HIDE DEF next
  <2>7. x \in SlotSet /\ x.pc = "note" /\ x.todo = y.todo /\ x.step = next /\ x.depth = y.depth
        /\ x.chain = y.chain /\ x.ancestry = y.ancestry
    BY <2>2, <2>6 DEF SlotSet
  <2> HIDE DEF x
  <2>8. y.depth < MaxDepth /\ Head(y.todo) \notin y.chain /\ y.todo # <<>> /\ y.depth = Cardinality(y.chain)
    BY <1>0, <2>2 DEF SlotKnown, y
  <2>9. SlotKnown(x) BY <2>4, <2>6, <2>7, <2>8 DEF SlotKnown
  <2> QED BY <2>1, <2>2, <2>7, <2>9, SlotMoves
<1> QED BY <1>0, <1>1, CascadeNextAutomation DEF C!NextAction

LEMMA CascadeFire ==
    ASSUME C!ConstantsAssumption, CascadeInv, NEW s \in Slots, C!FireAutomation(s)
    PROVE  SlotsKnown
<1>1. UNCHANGED mixed /\ slot[s].pc # "free" BY DEF C!FireAutomation
<1>2. CASE C!MayFire(s) /\ C!Goto(s, "note") BY <1>1, <1>2, CascadeGoes DEF C!MayFire
<1>3. CASE C!NextAutomation(s) BY <1>1, <1>3, CascadeNextAutomation
<1> QED BY <1>2, <1>3 DEF C!FireAutomation

LEMMA FiringMay ==
    ASSUME C!ConstantsAssumption, CascadeInv, NEW s \in Slots, slot[s].pc \in {"note", "relay", "sleep", "again"}
    PROVE  /\ slot[s].depth < MaxDepth /\ C!Automation(s) \notin slot[s].chain
           /\ slot[s].depth = Cardinality(slot[s].chain)
BY DEF CascadeInv, SlotKnown, C!Automation

\* The note of a command is one deeper, with the automation in its chain.
LEMMA CascadeNote ==
    ASSUME C!ConstantsAssumption, CascadeInv, NEW s \in Slots, C!NoteAction(s)
    PROVE  SlotsKnown /\ notes' \in Seq(NoteSet)
<1>1. UNCHANGED mixed /\ slot[s].pc \in {"note", "sleep"} BY DEF C!NoteAction
<1>2. C!Goto(s, "relay") \/ C!Goto(s, "again") BY DEF C!NoteAction
<1>3. slot[s].depth < MaxDepth /\ C!Automation(s) \notin slot[s].chain
      /\ slot[s].depth = Cardinality(slot[s].chain)
  BY <1>1, FiringMay
<1>4. slot[s] \in SlotSet /\ C!Automation(s) \in Automations /\ C!Action(s) \in C!Changes
      /\ (~mixed => slot[s].chain = slot[s].ancestry)
  BY <1>1, BusySlot
<1> DEFINE with == {C!Automation(s)}
           deeper == slot[s].depth + 1
           longer == slot[s].chain \cup with
           truer == slot[s].ancestry \cup with
<1>5. deeper \in 0..MaxDepth
  <2>1. slot[s].depth \in Nat /\ MaxDepth \in Nat BY <1>4 DEF SlotSet, C!ConstantsAssumption
  <2> QED BY <1>3, <2>1
<1>6. longer \in SUBSET Automations /\ truer \in SUBSET Automations BY <1>4 DEF SlotSet
<1>7. deeper = Cardinality(longer)
  <2>1. IsFiniteSet(slot[s].chain) BY <1>4, FS_Subset, CascadeCounts DEF SlotSet, C!ConstantsAssumption
  <2> QED BY <1>3, <2>1, FS_AddElement
<1>8. ~mixed => longer = truer BY <1>4
<1>9. C!NoteExpectedStateChange(C!Action(s), deeper, longer, truer) BY DEF C!NoteAction
<1> HIDE DEF deeper, longer, truer
<1>10. notes' \in Seq(NoteSet) BY <1>4, <1>5, <1>6, <1>7, <1>8, <1>9, NoteTyped
<1> QED BY <1>1, <1>2, <1>3, <1>10, CascadeGoes

LEMMA CascadeRelay ==
    ASSUME C!ConstantsAssumption, CascadeInv, NEW s \in Slots, C!RelayAction(s)
    PROVE  SlotsKnown /\ DeviceTyped /\ notes' \in Seq(NoteSet) /\ faults' \in 0..MaxFaults
<1>1. UNCHANGED mixed /\ slot[s].pc \in {"relay", "again"} /\ C!Firing(s) BY DEF C!RelayAction, C!Firing
<1>2. C!NextAction(s) \/ C!Goto(s, "sleep") BY DEF C!RelayAction
<1>3. slot[s] \in SlotSet /\ C!Automation(s) \in Automations /\ C!Action(s) \in C!Changes BY <1>1, BusySlot
<1> DEFINE ancestry == slot[s].ancestry \cup {C!Automation(s)}
<1>4. ancestry \in SUBSET Automations BY <1>3 DEF SlotSet
<1>5. C!Applied(C!Action(s), ancestry) \/ C!Refused(C!Action(s)) \/ C!Fails(C!Action(s), ancestry) BY DEF C!RelayAction
<1> HIDE DEF ancestry
<1>6. DeviceTyped /\ notes' \in Seq(NoteSet) /\ faults' \in 0..MaxFaults BY <1>3, <1>4, <1>5, RelayTyped
<1>7. SlotsKnown BY <1>1, <1>2, FiringMay, CascadeGoes, CascadeNextAction
<1> QED BY <1>6, <1>7

\* An evaluation begins with the chain it was given, the true one unless the
\* echo was mixed up.
LEMMA CascadeTriggers ==
    ASSUME C!ConstantsAssumption, CascadeInv, NEW s \in Slots, NEW echo \in EchoSet, NEW depth \in 0..MaxDepth,
           NEW chain \in SUBSET Automations, C!Triggers(s, echo, depth, chain), depth = Cardinality(chain),
           mixed' \in BOOLEAN, ~mixed' => ~mixed /\ chain = echo.ancestry
    PROVE  SlotsKnown
<1> DEFINE fires == {a \in Automations : Trigger[a] = echo.change}
           todo == C!SetToSeq(fires)
           x == [pc |-> "fire", todo |-> todo, step |-> 1, depth |-> depth,
                 chain |-> chain, ancestry |-> echo.ancestry]
<1>1. slot' = IF fires = {} THEN slot ELSE [slot EXCEPT ![s] = x]
  BY DEF C!Triggers
<1>2. fires \subseteq Automations /\ IsFiniteSet(fires) BY FS_Subset, CascadeCounts DEF C!ConstantsAssumption
<1> HIDE DEF fires
<1>3. todo \in Seq(fires) /\ (fires # {} => todo # <<>>) BY <1>2, SetToSeqTyped
<1> HIDE DEF todo
<1>4. todo \in Seq(Automations) BY <1>2, <1>3
<1>6. CASE fires = {}
  BY <1>1, <1>6 DEF CascadeInv, SlotsKnown
<1>7. CASE fires # {}
  <2>1. Head(todo) \in Automations BY <1>3, <1>4, <1>7
  <2>2. Actions[Head(todo)] \in Seq(C!Changes) /\ Actions[Head(todo)] # <<>> BY <2>1 DEF C!ConstantsAssumption
  <2>3. 1 \in 1..Len(Actions[Head(todo)]) BY <2>2
  <2>4. x \in SlotSet /\ x.depth = depth /\ x.chain = chain /\ x.ancestry = echo.ancestry
        /\ x.pc = "fire" /\ x.todo = todo /\ x.step = 1
    BY <1>4 DEF SlotSet, EchoSet
  <2>6. slot' = [slot EXCEPT ![s] = x] BY <1>1, <1>7
  <2> HIDE DEF x
  <2>5. SlotKnown(x) BY <1>3, <1>7, <2>3, <2>4 DEF SlotKnown
  <2> QED BY <2>4, <2>5, <2>6, SlotMoves
<1> QED BY <1>6, <1>7

LEMMA CascadeHandle ==
    ASSUME C!ConstantsAssumption, CascadeInv, NEW s \in Slots, C!HandleEcho(s)
    PROVE  SlotsKnown /\ echoes' \in Seq(EchoSet) /\ notes' \in Seq(NoteSet')
<1> DEFINE echo == Head(echoes)
           noted == C!Noted(echo.change)
<1>1. echoes # <<>> /\ echoes' = Tail(echoes) /\ echoes \in Seq(EchoSet) BY DEF C!HandleEcho, CascadeInv
<1>2. echo \in EchoSet /\ echoes' \in Seq(EchoSet) BY <1>1
<1>3. \/ notes' = notes /\ C!Triggers(s, echo, 0, {}) /\ mixed' = (mixed \/ echo.ancestry # {})
      \/ \E i \in noted : /\ notes' = C!RemoveAt(notes, i)
                         /\ C!Triggers(s, echo, notes[i].depth, notes[i].chain)
                         /\ mixed' = (mixed \/ echo.ancestry # notes[i].ancestry)
  BY DEF C!HandleEcho
<1>4. mixed \in BOOLEAN /\ notes \in Seq(NoteSet) BY DEF CascadeInv
<1> HIDE DEF echo
<1>5. CASE notes' = notes /\ C!Triggers(s, echo, 0, {}) /\ mixed' = (mixed \/ echo.ancestry # {})
  <2>1. 0 \in 0..MaxDepth /\ {} \in SUBSET Automations BY DEF C!ConstantsAssumption
  <2>2. 0 = Cardinality({}) BY FS_EmptySet
  <2>3. mixed' \in BOOLEAN /\ (~mixed' => ~mixed /\ {} = echo.ancestry) BY <1>4, <1>5
  <2>4. SlotsKnown BY <1>2, <1>5, <2>1, <2>2, <2>3, CascadeTriggers
  <2>5. notes' \in Seq(NoteSet) BY <1>4, <1>5
  <2>6. notes' \in Seq(NoteSet')
    <3>1. ~mixed' => ~mixed BY <2>3
    <3> QED BY <2>5, <3>1, NotesStay
  <2> QED BY <1>2, <2>4, <2>6
<1>6. ASSUME NEW i \in noted, notes' = C!RemoveAt(notes, i), C!Triggers(s, echo, notes[i].depth, notes[i].chain),
             mixed' = (mixed \/ echo.ancestry # notes[i].ancestry)
      PROVE  SlotsKnown /\ notes' \in Seq(NoteSet')
  <2>1. i \in 1..Len(notes) BY DEF C!Noted
  <2>2. notes[i] \in NoteSet BY <1>4, <2>1
  <2>3. notes[i].depth \in 0..MaxDepth /\ notes[i].chain \in SUBSET Automations
        /\ notes[i].depth = Cardinality(notes[i].chain) /\ (~mixed => notes[i].chain = notes[i].ancestry)
    BY <2>2 DEF NoteSet, NoteRecords
  <2>4. mixed' \in BOOLEAN /\ (~mixed' => ~mixed /\ echo.ancestry = notes[i].ancestry) BY <1>4, <1>6
  <2>5. ~mixed' => ~mixed /\ notes[i].chain = echo.ancestry BY <2>3, <2>4
  <2>6. SlotsKnown BY <1>2, <1>6, <2>3, <2>4, <2>5, CascadeTriggers
  <2>7. notes' \in Seq(NoteSet) BY <1>4, <1>6, <2>1, NoteRemoved
  <2>8. notes' \in Seq(NoteSet') BY <2>4, <2>7, NotesStay
  <2> QED BY <2>6, <2>8
<1> QED BY <1>2, <1>3, <1>5, <1>6

-----------------------------------------------------------------------------
(* The users and the wall switches.                                        *)

LEMMA CascadeApp ==
    ASSUME C!ConstantsAssumption, CascadeInv, NEW u \in AppCommands, C!AppStep(u)
    PROVE  CascadeInv'
<1>1. app[u] \in [pc : {"idle", "noted", "done"}, change : AppChanges] BY DEF CascadeInv
<1>2. app[u].change \in C!Changes BY <1>1 DEF C!ConstantsAssumption
<1>3. ASSUME NEW pc \in {"noted", "done"}, app' = [app EXCEPT ![u].pc = pc]
      PROVE  app' \in [AppCommands -> [pc : {"idle", "noted", "done"}, change : AppChanges]]
  BY <1>3 DEF CascadeInv
<1>4. {} \in SUBSET Automations /\ 0 \in 0..MaxDepth /\ 0 = Cardinality({})
  BY FS_EmptySet DEF C!ConstantsAssumption
<1>5. CASE C!AppNotes(u)
  <2>0. notes' \in Seq(NoteSet) BY <1>2, <1>4, <1>5, NoteTyped DEF C!AppNotes
  <2>1. notes' \in Seq(NoteSet') BY <1>5, <2>0, NotesStay DEF C!AppNotes
  <2>2. app' \in [AppCommands -> [pc : {"idle", "noted", "done"}, change : AppChanges]]
    BY <1>3, <1>5 DEF C!AppNotes
  <2>3. UNCHANGED <<outlet, echoes, slot, mixed, faults>> BY <1>5 DEF C!AppNotes
  <2>4. SlotsKnown BY <2>3, SlotsStay
  <2> QED BY <2>1, <2>2, <2>3, <2>4 DEF CascadeInv, SlotsKnown, SlotKnown
<1>6. CASE C!AppRelays(u)
  <2>0. DeviceTyped /\ notes' \in Seq(NoteSet) /\ faults' \in 0..MaxFaults
    BY <1>2, <1>4, <1>6, RelayTyped DEF C!AppRelays
  <2>1. notes' \in Seq(NoteSet') BY <1>6, <2>0, NotesStay DEF C!AppRelays
  <2>2. app' \in [AppCommands -> [pc : {"idle", "noted", "done"}, change : AppChanges]]
    BY <1>3, <1>6 DEF C!AppRelays
  <2>3. SlotsKnown BY <1>6, SlotsStay DEF C!AppRelays
  <2> QED BY <2>0, <2>1, <2>2, <2>3 DEF CascadeInv, SlotsKnown, SlotKnown, DeviceTyped
<1> QED BY <1>5, <1>6 DEF C!AppStep

LEMMA CascadePress ==
    ASSUME C!ConstantsAssumption, CascadeInv, NEW c \in Outlets, C!Press(c)
    PROVE  CascadeInv'
<1> DEFINE change == <<c, IF outlet[c] = "ON" THEN "OFF" ELSE "ON">>
<1>1. change \in C!Changes /\ {} \in SUBSET Automations BY DEF C!Changes
<1>2. C!SetState(change, {}) /\ C!Mishap /\ UNCHANGED <<notes, app, slot, mixed>> BY DEF C!Press
<1> HIDE DEF change
<1>3. DeviceTyped BY <1>1, <1>2, SetStateTyped
<1>4. faults' \in 0..MaxFaults BY <1>2, MishapTyped
<1>5. SlotsKnown BY <1>2, SlotsStay
<1>6. notes' \in Seq(NoteSet') BY <1>2, NotesStay DEF CascadeInv
<1> QED BY <1>2, <1>3, <1>4, <1>5, <1>6 DEF CascadeInv, SlotsKnown, SlotKnown, DeviceTyped

LEMMA CascadeExpire ==
    ASSUME C!ConstantsAssumption, CascadeInv, C!Expire
    PROVE  CascadeInv'
<1>1. notes' \in Seq(NoteSet')
  <2>1. notes' \in Seq(NoteSet) BY DEF C!Expire, CascadeInv
  <2> QED BY <2>1, NotesStay DEF C!Expire
<1>2. faults' \in 0..MaxFaults BY MishapTyped DEF C!Expire
<1>3. SlotsKnown BY SlotsStay DEF C!Expire
<1> QED BY <1>1, <1>2, <1>3 DEF C!Expire, CascadeInv, SlotsKnown, SlotKnown

LEMMA CascadeEvaluate ==
    ASSUME C!ConstantsAssumption, CascadeInv, NEW s \in Slots, C!Evaluate(s)
    PROVE  CascadeInv'
<1>1. CASE C!HandleEcho(s)
  <2>1. UNCHANGED <<outlet, app, faults>> BY <1>1 DEF C!HandleEcho
  <2> QED BY <1>1, <2>1, CascadeHandle DEF CascadeInv, SlotsKnown, SlotKnown
<1>2. CASE C!FireAutomation(s)
  <2>1. UNCHANGED <<outlet, echoes, notes, app, mixed, faults>> BY <1>2 DEF C!FireAutomation
  <2>2. notes' \in Seq(NoteSet') BY <2>1, NotesStay DEF CascadeInv
  <2> QED BY <1>2, <2>1, <2>2, CascadeFire DEF CascadeInv, SlotsKnown, SlotKnown
<1>3. CASE C!NoteAction(s)
  <2>1. UNCHANGED <<outlet, echoes, app, mixed, faults>> BY <1>3 DEF C!NoteAction
  <2>2. notes' \in Seq(NoteSet') BY <1>3, <2>1, CascadeNote, NotesStay
  <2> QED BY <1>3, <2>1, <2>2, CascadeNote DEF CascadeInv, SlotsKnown, SlotKnown
<1>4. CASE C!RelayAction(s)
  <2>1. UNCHANGED <<app, mixed>> BY <1>4 DEF C!RelayAction
  <2>2. notes' \in Seq(NoteSet') BY <1>4, <2>1, CascadeRelay, NotesStay
  <2> QED BY <1>4, <2>1, <2>2, CascadeRelay DEF CascadeInv, SlotsKnown, SlotKnown, DeviceTyped
<1> QED BY <1>1, <1>2, <1>3, <1>4 DEF C!Evaluate

LEMMA CascadeNext ==
    ASSUME C!ConstantsAssumption, CascadeInv, [C!Next]_cascadeVars
    PROVE  CascadeInv'
<1>1. CASE UNCHANGED cascadeVars
  <2>1. notes' \in Seq(NoteSet') BY <1>1, NotesStay DEF cascadeVars, CascadeInv
  <2> QED BY <1>1, <2>1 DEF cascadeVars, CascadeInv, SlotKnown
<1> QED BY <1>1, CascadeApp, CascadePress, CascadeExpire, CascadeEvaluate DEF C!Next

LEMMA CascadeHolds ==
    ASSUME C!ConstantsAssumption, CascadeInv
    PROVE  C!TypeOK /\ C!LoopsRefused
<1>1. C!LoopsRefused
  <2> SUFFICES ASSUME ~mixed, NEW s \in Slots, C!Firing(s)
               PROVE  C!Automation(s) \notin slot[s].ancestry /\ C!Cardinality(slot[s].ancestry) < MaxDepth
    BY DEF C!LoopsRefused, C!NoFeedback
  <2>1. slot[s].pc \in {"note", "relay", "sleep", "again"} BY DEF C!Firing
  <2>2. slot[s].chain = slot[s].ancestry BY DEF CascadeInv
  <2> QED BY <2>1, <2>2, FiringMay, CascadeCounts
<1>2. \A i \in 1..Len(echoes) : echoes[i] \in [change : C!Changes, ancestry : SUBSET Automations]
  <2>1. \A i \in 1..Len(echoes) : echoes[i] \in EchoSet BY DEF CascadeInv
  <2> QED BY <2>1 DEF EchoSet
<1>3. \A i \in 1..Len(notes) :
         notes[i] \in [change : C!Changes, depth : 0..MaxDepth, chain : SUBSET Automations,
                       ancestry : SUBSET Automations]
  <2>1. \A i \in 1..Len(notes) : notes[i] \in NoteSet BY DEF CascadeInv
  <2> QED BY <2>1 DEF NoteSet, NoteRecords
<1>4. ASSUME NEW s \in Slots, slot[s] # C!Free
      PROVE  /\ slot[s].pc \in {"fire", "note", "relay", "sleep", "again"}
             /\ slot[s].todo \in Seq(Automations) /\ slot[s].todo # <<>>
             /\ slot[s].step \in 1..Len(Actions[slot[s].todo[1]])
  <2>1. slot[s] \in SlotSet /\ SlotKnown(slot[s]) BY DEF CascadeInv
  <2>2. slot[s].pc # "free" BY <1>4, <2>1 DEF SlotKnown
  <2>3. slot[s].todo \in Seq(Automations) /\ slot[s].pc \in {"fire", "note", "relay", "sleep", "again"}
    BY <2>1, <2>2 DEF SlotSet
  <2>4. slot[s].todo # <<>> /\ slot[s].step \in 1..Len(Actions[Head(slot[s].todo)])
    BY <2>1, <2>2 DEF SlotKnown
  <2> QED BY <2>3, <2>4
<1>5. outlet \in [Outlets -> {"ON", "OFF"}] /\ mixed \in BOOLEAN /\ faults \in 0..MaxFaults
      /\ app \in [AppCommands -> [pc : {"idle", "noted", "done"}, change : AppChanges]]
  BY DEF CascadeInv
<1> QED BY <1>1, <1>2, <1>3, <1>4, <1>5 DEF C!TypeOK
-----------------------------------------------------------------------------
(* Induction up to a number, over sets: an operator of the proof library   *)
(* that takes a predicate cannot be used here.                             *)

LEMMA Least ==
    ASSUME NEW T \in SUBSET Nat, T # {}
    PROVE  \E m \in T : \A k \in T : m <= k
<1> DEFINE R == {ss \in Nat \X Nat : ss[1] < ss[2]}
<1>1. IsWellFoundedOn(R, Nat)
  BY NatLessThanWellFounded DEF OpToRel
<1>2. PICK m \in T : \A k \in T : ~(<<k, m>> \in R)
  <2> HIDE DEF R
  <2> QED BY <1>1, WFMin
<1>3. ASSUME NEW k \in T PROVE m <= k
  <2>1. <<k, m>> \in Nat \X Nat /\ <<k, m>>[1] = k /\ <<k, m>>[2] = m
    OBVIOUS
  <2>2. ~(k < m)
    BY <1>2, <2>1
  <2> QED BY <2>2
<1> QED BY <1>3

LEMMA Greatest ==
    ASSUME NEW n \in Nat, NEW J \in SUBSET (1..n), J # {}
    PROVE  \E i \in J : \A j \in J : j <= i
<1> DEFINE Downs == {n - i : i \in J}
<1>1. Downs \in SUBSET Nat /\ Downs # {}
  <2>1. \A i \in J : i \in 1..n
    OBVIOUS
  <2>2. \A i \in J : n - i \in Nat
    BY <2>1
  <2>3. PICK i \in J : TRUE
    OBVIOUS
  <2>4. n - i \in Downs
    OBVIOUS
  <2> QED BY <2>2, <2>4
<1>2. PICK m \in Downs : \A k \in Downs : m <= k
  <2> HIDE DEF Downs
  <2> QED BY <1>1, Least
<1>3. PICK i \in J : m = n - i
  OBVIOUS
<1>4. ASSUME NEW j \in J PROVE j <= i
  <2>1. n - j \in Downs
    OBVIOUS
  <2>2. m <= n - j
    BY <1>2, <2>1
  <2> QED BY <1>3, <2>2
<1> QED BY <1>4

\* Induction up to n, over a set instead of a predicate.
LEMMA UpTo ==
    ASSUME NEW n \in Nat, NEW S, 0 \in S, \A i \in 1..n : i - 1 \in S => i \in S
    PROVE  \A i \in 0..n : i \in S
<1> SUFFICES ASSUME NEW j \in 0..n, j \notin S PROVE FALSE
  OBVIOUS
<1> DEFINE T == {i \in 0..n : i \notin S}
<1>1. PICK m \in T : \A k \in T : m <= k
  <2>1. T \in SUBSET Nat /\ T # {}
    OBVIOUS
  <2> HIDE DEF T
  <2> QED BY <2>1, Least
<1>2. m \in 1..n /\ m - 1 \in 0..n /\ m \notin S
  BY <1>1
<1>3. m - 1 \in S
  BY <1>1, <1>2
<1> QED BY <1>2, <1>3

\* A function may be defined by recursion on 0..n.
Recurs(f, n, V, base, step) ==
    /\ f \in [0..n -> V] /\ f[0] = base
    /\ \A i \in 1..n : f[i] = step[<<i, f[i - 1]>>]

LEMMA Recursion ==
    ASSUME NEW n \in Nat, NEW V, NEW base, base \in V, NEW step, step \in [(1..n) \X V -> V]
    PROVE  \E f : Recurs(f, n, V, base, step)
<1> DEFINE Is(m, f) == f[0] = base /\ \A i \in 1..m : f[i] = step[<<i, f[i - 1]>>]
           S == {m \in 0..n : \E f \in [0..m -> V] : Is(m, f)}
<1>1. 0 \in S
  <2> DEFINE g == [i \in 0..0 |-> base]
  <2>1. g \in [0..0 -> V] /\ g[0] = base
    OBVIOUS
  <2> HIDE DEF g
  <2>2. Is(0, g)
    BY <2>1
  <2> QED BY <2>1, <2>2
<1>2. ASSUME NEW m \in 1..n, m - 1 \in S PROVE m \in S
  <2>1. PICK f \in [0..(m - 1) -> V] : Is(m - 1, f)
    BY <1>2
  <2> DEFINE g == [i \in 0..m |-> IF i = m THEN step[<<m, f[m - 1]>>] ELSE f[i]]
  <2>2. f[m - 1] \in V /\ step[<<m, f[m - 1]>>] \in V
    OBVIOUS
  <2>3. g \in [0..m -> V]
    BY <2>2
  <2>4. g[0] = base
    BY <2>1
  <2>5. ASSUME NEW i \in 1..m PROVE g[i] = step[<<i, g[i - 1]>>]
    <3>1. CASE i = m
      <4>1. g[m] = step[<<m, f[m - 1]>>] /\ m - 1 \in 0..m /\ m - 1 # m
        OBVIOUS
      <4>2. g[m - 1] = f[m - 1]
        BY <4>1
      <4> HIDE DEF g
      <4> QED BY <3>1, <4>1, <4>2
    <3>2. CASE i # m
      <4>1. i \in 1..(m - 1) /\ i - 1 \in 0..(m - 1) /\ i \in 0..m /\ i - 1 # m
        BY <3>2
      <4>2. g[i] = f[i] /\ g[i - 1] = f[i - 1]
        BY <4>1, <3>2
      <4> HIDE DEF g
      <4> QED BY <2>1, <4>1, <4>2
    <3> QED BY <3>1, <3>2
  <2> HIDE DEF g
  <2>6. Is(m, g)
    BY <2>4, <2>5
  <2> QED BY <2>3, <2>6
<1> HIDE DEF S
<1>3. n \in S
  BY <1>1, <1>2, UpTo
<1> QED BY <1>3 DEF S, Recurs

-----------------------------------------------------------------------------
(* The statistics: local days.  zonedMidnightMs finds where each begins.   *)

LEMMA Days ==
    ASSUME NEW length \in Nat \ {0}, NEW x \in Int, NEW d \in Int
    PROVE  (x \div length >= d <=> x >= d * length) /\ (d * length) % length = 0
<1>1. x = length * (x \div length) + (x % length) /\ x % length \in 0..(length - 1)
      /\ x \div length \in Int
  OBVIOUS
<1>2. d * length = length * ((d * length) \div length) + ((d * length) % length)
      /\ (d * length) % length \in 0..(length - 1) /\ (d * length) \div length \in Int
      /\ d * length \in Int
  OBVIOUS
<1>3. ASSUME NEW k \in Int, NEW r \in 0..(length - 1), d * length = length * k + r PROVE r = 0
  <2> DEFINE e == d - k
  <2>1. e \in Int /\ e * length = r
    BY <1>3
  <2>2. ASSUME NEW i \in Int, i >= 1 PROVE i * length >= length
    BY <2>2
  <2>3. ASSUME NEW i \in Int, i <= -1 PROVE i * length <= -length
    BY <2>3
  <2> HIDE DEF e
  <2>4. e * length \in 0..(length - 1)
    BY <2>1
  <2>5. e = 0
    BY <2>1, <2>2, <2>3, <2>4
  <2> QED BY <2>1, <2>5
<1> QED BY <1>1, <1>2, <1>3

LEMMA MidnightBegins ==
    ASSUME zone \in [before : Int, after : Int, at : Int], U!MidnightsFound(zone),
           DayHours \in Nat \ {0}, NEW t \in Int, NEW d \in Int
    PROVE  U!LocalDay(t) >= d <=> t >= U!ZonedMidnight(d)
<1> DEFINE wall == d * DayHours
<1>0. zone.before \in Int /\ zone.after \in Int /\ zone.at \in Int /\ wall \in Int
  OBVIOUS
<1>1. U!Offset(t) \in Int /\ t + U!Offset(t) \in Int
  BY <1>0 DEF U!Offset
<1>2. U!LocalDay(t) >= d <=> t + U!Offset(t) >= wall
  BY <1>1, Days DEF U!LocalDay
<1>3. wall % DayHours = 0
  BY Days
<1>4. /\ wall \in (zone.at + zone.before)..(zone.at + zone.after - 1) =>
             wall = zone.at + zone.before /\ zone.before >= 0
      /\ wall \in (zone.at + zone.after)..(zone.at + zone.before - 1) =>
             wall = zone.at + zone.after /\ zone.after < 0
  BY <1>3 DEF U!MidnightsFound
<1>5. U!ZonedMidnight(d) = wall - U!Offset(wall - U!Offset(wall))
  BY DEF U!ZonedMidnight
<1> HIDE DEF wall
<1>6. t + U!Offset(t) >= wall <=> t >= wall - U!Offset(wall - U!Offset(wall))
  BY <1>0, <1>4 DEF U!Offset
<1> QED BY <1>2, <1>5, <1>6

LEMMA MidnightType ==
    ASSUME zone \in [before : Int, after : Int, at : Int], DayHours \in Nat \ {0}, NEW i \in Int
    PROVE  U!LocalDay(i) \in Int /\ U!ZonedMidnight(i) \in Int
<1> DEFINE wall == i * DayHours
<1>1. \A t \in Int : U!Offset(t) \in Int
  <2>1. zone.before \in Int /\ zone.after \in Int /\ zone.at \in Int
    OBVIOUS
  <2> QED BY <2>1 DEF U!Offset
<1>2. U!LocalDay(i) \in Int
  <2>1. i + U!Offset(i) \in Int
    BY <1>1
  <2> QED BY <2>1 DEF U!LocalDay
<1>3. U!ZonedMidnight(i) = wall - U!Offset(wall - U!Offset(wall))
  BY DEF U!ZonedMidnight
<1>4. wall \in Int
  OBVIOUS
<1> HIDE DEF wall
<1>5. wall - U!Offset(wall) \in Int
  BY <1>1, <1>4
<1>6. U!Offset(wall - U!Offset(wall)) \in Int
  BY <1>1, <1>5
<1> QED BY <1>2, <1>3, <1>4, <1>6

\* Each instant lies in the window of its local day and in no other.
LEMMA WindowsAreDays ==
    ASSUME zone \in [before : Int, after : Int, at : Int], U!MidnightsFound(zone),
           DayHours \in Nat \ {0}, NEW t \in Int, NEW d \in Int
    PROVE  U!LocalDay(t) = d <=> U!ZonedMidnight(d) <= t /\ t < U!ZonedMidnight(d + 1)
<1>1. U!LocalDay(t) \in Int /\ U!ZonedMidnight(d) \in Int /\ U!ZonedMidnight(d + 1) \in Int
  <2>1. d + 1 \in Int
    OBVIOUS
  <2> QED BY <2>1, MidnightType
<1>2. U!LocalDay(t) >= d <=> t >= U!ZonedMidnight(d)
  BY MidnightBegins
<1>3. d + 1 \in Int
  OBVIOUS
<1>4. U!LocalDay(t) >= d + 1 <=> t >= U!ZonedMidnight(d + 1)
  BY <1>3, MidnightBegins
<1> QED BY <1>1, <1>2, <1>4

-----------------------------------------------------------------------------
(* The intervals and what each window has of them.                         *)

Intervals == Int \X Int
Windows == [start : Int, end : Int]

LEMMA OverlapType ==
    ASSUME NEW i \in Intervals, NEW w \in Windows
    PROVE  U!Overlap(i, w) \in Nat
<1>1. i[1] \in Int /\ i[2] \in Int /\ w.start \in Int /\ w.end \in Int
  BY DEF Intervals, Windows
<1> QED BY <1>1 DEF U!Overlap

TotalsOf(f, s, w) ==
    /\ f \in [0..Len(s) -> Nat] /\ f[0] = 0
    /\ \A i \in 1..Len(s) : f[i] = f[i - 1] + U!Overlap(s[i], w)

LEMMA Bucket ==
    ASSUME NEW s \in Seq(Intervals), NEW w \in Windows
    PROVE  \E f : TotalsOf(f, s, w) /\ U!BucketSeconds(s, w) = f[Len(s)]
<1> DEFINE n == Len(s)
           Is(g) == g = [i \in 0..n |-> IF i = 0 THEN 0 ELSE g[i - 1] + U!Overlap(s[i], w)]
           total == CHOOSE g : Is(g)
           step == [x \in (1..n) \X Nat |-> x[2] + U!Overlap(s[x[1]], w)]
<1>1. n \in Nat /\ \A i \in 1..n : U!Overlap(s[i], w) \in Nat
  BY OverlapType
<1>2. step \in [(1..n) \X Nat -> Nat]
  BY <1>1
<1>3. PICK f : Recurs(f, n, Nat, 0, step)
  <2>1. 0 \in Nat /\ n \in Nat
    BY <1>1
  <2> HIDE DEF n, step
  <2> QED BY <1>2, <2>1, Recursion
<1>4. ASSUME NEW i \in 1..n PROVE f[i] = f[i - 1] + U!Overlap(s[i], w)
  <2>1. i - 1 \in 0..n
    BY <1>1
  <2>2. f[i - 1] \in Nat /\ f[i] = step[<<i, f[i - 1]>>]
    BY <1>3, <2>1 DEF Recurs
  <2> QED BY <2>2
<1>5. Is(f)
  <2> HIDE DEF n, step
  <2>1. \A i \in 0..n : i # 0 => i \in 1..n
    BY <1>1
  <2> QED BY <1>3, <1>4, <2>1 DEF Recurs
<1>6. Is(total)
  <2> HIDE DEF Is
  <2> QED BY <1>5
<1>7. U!BucketSeconds(s, w) = total[n]
  BY DEF U!BucketSeconds
<1> HIDE DEF total
<1>8. total[0] = 0 /\ \A i \in 1..n : total[i] = total[i - 1] + U!Overlap(s[i], w)
  <2> HIDE DEF n
  <2> QED BY <1>1, <1>6
<1>9. \A i \in 0..n : total[i] \in Nat
  <2> DEFINE S == {i \in 0..n : total[i] \in Nat}
  <2>1. 0 \in S /\ \A i \in 1..n : i - 1 \in S => i \in S
    <3> HIDE DEF n
    <3> QED BY <1>1, <1>8
  <2> HIDE DEF S, n
  <2>2. \A i \in 0..n : i \in S
    BY <1>1, <2>1, UpTo
  <2> QED BY <2>2 DEF S
<1>10. total \in [0..n -> Nat]
  <2> HIDE DEF n
  <2>1. total = [i \in 0..n |-> IF i = 0 THEN 0 ELSE total[i - 1] + U!Overlap(s[i], w)]
    BY <1>6
  <2> DEFINE h == [i \in 0..n |-> IF i = 0 THEN 0 ELSE total[i - 1] + U!Overlap(s[i], w)]
  <2>2. \A i \in 0..n : h[i] = total[i]
    BY <2>1
  <2>3. h \in [0..n -> Nat]
    BY <1>9, <2>2, <2>1
  <2> QED BY <2>1, <2>3
<1> QED BY <1>7, <1>8, <1>10 DEF TotalsOf

LEMMA BucketEmpty ==
    ASSUME NEW w \in Windows PROVE U!BucketSeconds(<<>>, w) = 0
<1>1. <<>> \in Seq(Intervals) /\ Len(<<>>) = 0
  OBVIOUS
<1> QED BY <1>1, Bucket DEF TotalsOf

LEMMA BucketAppend ==
    ASSUME NEW s \in Seq(Intervals), NEW x \in Intervals, NEW w \in Windows
    PROVE  /\ U!BucketSeconds(s, w) \in Nat
           /\ U!BucketSeconds(Append(s, x), w) = U!BucketSeconds(s, w) + U!Overlap(x, w)
<1> DEFINE n == Len(s)
           z == Append(s, x)
<1>1. z \in Seq(Intervals) /\ n \in Nat /\ Len(z) = n + 1 /\ z[n + 1] = x
      /\ \A i \in 1..n : z[i] = s[i]
  BY AppendProperties
<1>2. PICK f : TotalsOf(f, s, w) /\ U!BucketSeconds(s, w) = f[n]
  BY Bucket
<1> HIDE DEF z
<1>3. PICK g : TotalsOf(g, z, w) /\ U!BucketSeconds(z, w) = g[n + 1]
  BY <1>1, Bucket
<1> HIDE DEF n
<1>4. f[0] = 0 /\ f[n] \in Nat /\ \A i \in 1..n : f[i] = f[i - 1] + U!Overlap(s[i], w)
  BY <1>1, <1>2 DEF TotalsOf, n
<1>5. g[0] = 0 /\ \A i \in 1..(n + 1) : g[i] = g[i - 1] + U!Overlap(z[i], w)
  BY <1>1, <1>3 DEF TotalsOf
<1>6. \A i \in 0..n : f[i] = g[i]
  <2> DEFINE S == {i \in 0..n : f[i] = g[i]}
  <2>1. 0 \in S
    BY <1>1, <1>4, <1>5
  <2>2. ASSUME NEW i \in 1..n, i - 1 \in S PROVE i \in S
    <3>1. f[i - 1] = g[i - 1] /\ z[i] = s[i] /\ i \in 0..n /\ i \in 1..(n + 1)
      BY <1>1, <2>2
    <3> QED BY <1>4, <1>5, <3>1
  <2> HIDE DEF S
  <2>3. \A i \in 0..n : i \in S
    BY <1>1, <2>1, <2>2, UpTo
  <2> QED BY <2>3 DEF S
<1>7. g[n + 1] = g[n] + U!Overlap(x, w)
  BY <1>1, <1>5
<1>8. g[n] = f[n]
  BY <1>1, <1>6
<1> QED BY <1>2, <1>3, <1>4, <1>7, <1>8 DEF z

InWindow(t, w) == w.start <= t /\ t < w.end

OnIn(entries, w, from, to) ==
    {t \in from..(to - 1) : InWindow(t, w) /\ U!StateBefore(entries, t + 1) = "ON"}

\* The switch as we were told of it in all hours of p..q-1.
Throughout(entries, p, q, c) == \A t \in p..(q - 1) : U!StateBefore(entries, t + 1) = c

LEMMA Stretch ==
    ASSUME NEW p \in Int, NEW q \in Int, NEW A, A \subseteq p..q
    PROVE  IsFiniteSet(A) /\ Cardinality(A) \in Nat
<1>1. IsFiniteSet(p..q)
  BY FS_Interval
<1>2. IsFiniteSet(A)
  BY <1>1, FS_Subset
<1> QED BY <1>2, FS_CardinalityType

LEMMA OverlapExtends ==
    ASSUME NEW a \in Int, NEW p \in Int, NEW q \in Int, a <= p, p <= q, NEW w \in Windows
    PROVE  U!Overlap(<<a, q>>, w)
             = U!Overlap(<<a, p>>, w) + Cardinality({t \in p..(q - 1) : InWindow(t, w)})
<1> DEFINE lo == IF p > w.start THEN p ELSE w.start
           hi == IF q < w.end THEN q ELSE w.end
           A == {t \in p..(q - 1) : InWindow(t, w)}
<1>1. w.start \in Int /\ w.end \in Int /\ lo \in Int /\ hi \in Int /\ hi - 1 \in Int
  BY DEF Windows
<1>2. A = lo..(hi - 1)
  BY <1>1 DEF InWindow
<1>3. Cardinality(lo..(hi - 1)) = IF lo > hi - 1 THEN 0 ELSE (hi - 1) - lo + 1
  <2> HIDE DEF lo, hi
  <2> QED BY <1>1, FS_Interval
<1>4. U!Overlap(<<a, q>>, w)
        = U!Overlap(<<a, p>>, w) + (IF lo > hi - 1 THEN 0 ELSE (hi - 1) - lo + 1)
  BY <1>1 DEF U!Overlap
<1> HIDE DEF lo, hi, A
<1>5. Cardinality(A) = IF lo > hi - 1 THEN 0 ELSE (hi - 1) - lo + 1
  BY <1>2, <1>3
<1> QED BY <1>4, <1>5 DEF A

LEMMA OffExtends ==
    ASSUME NEW entries, NEW w, NEW c, c # "ON",
           NEW s \in Int, NEW p \in Int, NEW q \in Int, s <= p, p <= q,
           Throughout(entries, p, q, c)
    PROVE  Cardinality(OnIn(entries, w, s, q)) = Cardinality(OnIn(entries, w, s, p))
<1>1. OnIn(entries, w, s, q) = OnIn(entries, w, s, p)
  BY DEF OnIn, Throughout
<1> QED BY <1>1

LEMMA OnExtends ==
    ASSUME NEW entries, NEW w,
           NEW s \in Int, NEW p \in Int, NEW q \in Int, s <= p, p <= q,
           Throughout(entries, p, q, "ON")
    PROVE  Cardinality(OnIn(entries, w, s, q))
             = Cardinality(OnIn(entries, w, s, p)) + Cardinality({t \in p..(q - 1) : InWindow(t, w)})
<1> DEFINE A == OnIn(entries, w, s, p)
           B == {t \in p..(q - 1) : InWindow(t, w)}
<1>1. OnIn(entries, w, s, q) = A \cup B
  BY DEF OnIn, Throughout
<1>2. A \cap B = {}
  BY DEF OnIn
<1>3. A \subseteq s..(p - 1) /\ B \subseteq p..(q - 1) /\ p - 1 \in Int /\ q - 1 \in Int
  BY DEF OnIn
<1> HIDE DEF A, B
<1>4. /\ IsFiniteSet(A) /\ Cardinality(A) \in Nat
      /\ IsFiniteSet(B) /\ Cardinality(B) \in Nat
  BY <1>3, Stretch
<1>5. Cardinality(A \cup B) = Cardinality(A) + Cardinality(B) - Cardinality({})
  BY <1>2, <1>4, FS_Union
<1>6. Cardinality({}) = 0
  BY FS_EmptySet
<1>7. Cardinality(OnIn(entries, w, s, q)) = Cardinality(A) + Cardinality(B)
  BY <1>1, <1>4, <1>5, <1>6
<1> QED BY <1>7 DEF A, B

LogRows == [home : U!Owners, state : U!States, at : Int]

Sorted(entries) ==
    \A i, j \in 1..Len(entries) : i <= j => entries[i].at <= entries[j].at

\* The state of the last row among J.
Latest(entries, J) ==
    IF J = {} THEN U!Unknown ELSE entries[CHOOSE i \in J : \A j \in J : j <= i].state

LEMMA LatestAdds ==
    ASSUME NEW entries, NEW J \in SUBSET Int, NEW m \in Int, \A j \in J : j <= m
    PROVE  Latest(entries, J \cup {m}) = entries[m].state
<1> DEFINE K0 == J \cup {m}
           last == CHOOSE i \in K0 : \A j \in K0 : j <= i
<1>1. m \in K0 /\ \A j \in K0 : j <= m
  OBVIOUS
<1>2. last \in K0 /\ \A j \in K0 : j <= last
  <2> HIDE DEF K0
  <2> QED BY <1>1
<1>3. K0 \subseteq Int
  OBVIOUS
<1>4. Latest(entries, K0) = entries[last].state
  BY <1>1 DEF Latest
<1> HIDE DEF K0, last
<1>5. last = m
  BY <1>1, <1>2, <1>3
<1> QED BY <1>4, <1>5 DEF K0

LEMMA LatestBefore ==
    ASSUME NEW entries \in Seq(LogRows), NEW t
    PROVE  U!StateBefore(entries, t)
             = Latest(entries, {i \in 1..Len(entries) : entries[i].home = "ours" /\ entries[i].at < t})
<1>1. DOMAIN entries = 1..Len(entries)
  OBVIOUS
<1> QED BY <1>1 DEF U!StateBefore, Latest

Accs == [current : U!States \cup {U!Unknown}, since : {<<>>} \cup {<<t>> : t \in Int},
         done : Seq(Intervals)]

Tally(entries, acc, s, p, w) ==
    IF acc.current = "ON"
    THEN \E a \in Int : /\ a <= p /\ acc.since = <<a>>
                        /\ U!BucketSeconds(acc.done, w) + U!Overlap(<<a, p>>, w)
                             = Cardinality(OnIn(entries, w, s, p))
    ELSE /\ acc.since = <<>>
         /\ U!BucketSeconds(acc.done, w) = Cardinality(OnIn(entries, w, s, p))

LEMMA FollowType ==
    ASSUME NEW acc \in Accs, NEW event \in LogRows
    PROVE  U!Follow(acc, event) \in Accs
<1>1. acc.done \in Seq(Intervals) /\ event.at \in Int /\ event.state \in U!States
  BY DEF Accs, LogRows
<1>2. CASE event.state = acc.current
  BY <1>2 DEF U!Follow
<1>3. CASE event.state # acc.current /\ event.state = "ON"
  <2>1. U!Follow(acc, event) = [acc EXCEPT !.current = "ON", !.since = <<event.at>>]
    BY <1>3 DEF U!Follow
  <2>2. "ON" \in U!States \cup {U!Unknown} /\ <<event.at>> \in {<<t>> : t \in Int}
    BY <1>1 DEF U!States
  <2> QED BY <2>1, <2>2 DEF Accs
<1>4. CASE event.state # acc.current /\ event.state # "ON"
  <2> DEFINE longer == IF acc.since # <<>> /\ event.at > acc.since[1]
                       THEN Append(acc.done, <<acc.since[1], event.at>>) ELSE acc.done
  <2>1. U!Follow(acc, event) = [current |-> "OFF", since |-> <<>>, done |-> longer]
    BY <1>4 DEF U!Follow
  <2>2. longer \in Seq(Intervals)
    <3>1. ASSUME acc.since # <<>> PROVE <<acc.since[1], event.at>> \in Intervals
      <4>1. acc.since \in {<<t>> : t \in Int}
        BY <3>1 DEF Accs
      <4>2. acc.since[1] \in Int
        BY <4>1
      <4> QED BY <1>1, <4>2 DEF Intervals
    <3>2. \A x \in Intervals : Append(acc.done, x) \in Seq(Intervals)
      BY <1>1, AppendProperties
    <3> QED BY <1>1, <3>1, <3>2
  <2>3. "OFF" \in U!States \cup {U!Unknown}
    BY DEF U!States
  <2> HIDE DEF longer
  <2> QED BY <2>1, <2>2, <2>3 DEF Accs
<1> QED BY <1>2, <1>3, <1>4

LEMMA TallyExtends ==
    ASSUME NEW entries, NEW acc \in Accs, NEW w \in Windows,
           NEW s \in Int, NEW p \in Int, NEW q \in Int, s <= p, p <= q,
           Tally(entries, acc, s, p, w),
           Throughout(entries, p, q, acc.current)
    PROVE  Tally(entries, acc, s, q, w)
<1> DEFINE more == Cardinality({t \in p..(q - 1) : InWindow(t, w)})
<1>1. /\ acc.current # "ON" =>
           Cardinality(OnIn(entries, w, s, q)) = Cardinality(OnIn(entries, w, s, p))
      /\ acc.current = "ON" =>
           Cardinality(OnIn(entries, w, s, q)) = Cardinality(OnIn(entries, w, s, p)) + more
  <2>1. ASSUME acc.current # "ON"
        PROVE  Cardinality(OnIn(entries, w, s, q)) = Cardinality(OnIn(entries, w, s, p))
    BY <2>1, OffExtends
  <2>2. ASSUME acc.current = "ON"
        PROVE  Cardinality(OnIn(entries, w, s, q)) = Cardinality(OnIn(entries, w, s, p)) + more
    BY <2>2, OnExtends
  <2> QED BY <2>1, <2>2
<1>2. U!BucketSeconds(acc.done, w) \in Nat
  <2>1. <<0, 0>> \in Intervals /\ acc.done \in Seq(Intervals)
    BY DEF Intervals, Accs
  <2> QED BY <2>1, BucketAppend
<1>3. more \in Nat
  <2>1. {t \in p..(q - 1) : InWindow(t, w)} \subseteq p..(q - 1) /\ q - 1 \in Int
    OBVIOUS
  <2> QED BY <2>1, Stretch
<1>4. CASE acc.current = "ON"
  <2>1. PICK a \in Int : /\ a <= p /\ acc.since = <<a>>
                         /\ U!BucketSeconds(acc.done, w) + U!Overlap(<<a, p>>, w)
                              = Cardinality(OnIn(entries, w, s, p))
    BY <1>4 DEF Tally
  <2>2. U!Overlap(<<a, q>>, w) = U!Overlap(<<a, p>>, w) + more
    BY <2>1, OverlapExtends
  <2>3. U!Overlap(<<a, p>>, w) \in Nat
    BY OverlapType DEF Intervals
  <2> HIDE DEF more
  <2>4. U!BucketSeconds(acc.done, w) + U!Overlap(<<a, q>>, w)
          = Cardinality(OnIn(entries, w, s, q))
    BY <1>1, <1>2, <1>3, <1>4, <2>1, <2>2, <2>3
  <2>5. a <= q
    BY <2>1
  <2> QED BY <1>4, <2>1, <2>4, <2>5 DEF Tally
<1>5. CASE acc.current # "ON"
  <2>1. acc.since = <<>> /\ U!BucketSeconds(acc.done, w) = Cardinality(OnIn(entries, w, s, p))
    BY <1>5 DEF Tally
  <2>2. Cardinality(OnIn(entries, w, s, q)) = Cardinality(OnIn(entries, w, s, p))
    BY <1>1, <1>5
  <2>3. U!BucketSeconds(acc.done, w) = Cardinality(OnIn(entries, w, s, q))
    BY <2>1, <2>2
  <2> QED BY <1>5, <2>1, <2>3 DEF Tally
<1> QED BY <1>4, <1>5

\* An interval without length counts nothing.
LEMMA OverlapNothing ==
    ASSUME NEW a \in Int, NEW w \in Windows PROVE U!Overlap(<<a, a>>, w) = 0
<1>1. w.start \in Int /\ w.end \in Int
  BY DEF Windows
<1> QED BY <1>1 DEF U!Overlap

\* What an interval that ends adds to the days.
LEMMA IntervalEnds ==
    ASSUME NEW done \in Seq(Intervals), NEW a \in Int, NEW p \in Int, a <= p, NEW w \in Windows
    PROVE  U!BucketSeconds(IF p > a THEN Append(done, <<a, p>>) ELSE done, w)
             = U!BucketSeconds(done, w) + U!Overlap(<<a, p>>, w)
<1>1. <<a, p>> \in Intervals
  BY DEF Intervals
<1>2. U!BucketSeconds(done, w) \in Nat
      /\ U!BucketSeconds(Append(done, <<a, p>>), w) = U!BucketSeconds(done, w) + U!Overlap(<<a, p>>, w)
  BY <1>1, BucketAppend
<1>3. CASE p > a
  BY <1>2, <1>3
<1>4. CASE p = a
  <2>1. U!Overlap(<<a, p>>, w) = 0
    BY <1>4, OverlapNothing
  <2> QED BY <1>2, <1>4, <2>1
<1> QED BY <1>3, <1>4

LEMMA TallyFollows ==
    ASSUME NEW entries, NEW acc \in Accs, NEW w \in Windows, NEW s \in Int, NEW p \in Int,
           NEW event \in LogRows, event.at = p, Tally(entries, acc, s, p, w)
    PROVE  /\ Tally(entries, U!Follow(acc, event), s, p, w)
           /\ U!Follow(acc, event).current = event.state
<1>0. /\ acc.done \in Seq(Intervals) /\ event.state \in U!States
      /\ U!BucketSeconds(acc.done, w) \in Nat
  <2>1. <<0, 0>> \in Intervals /\ acc.done \in Seq(Intervals) /\ event.state \in U!States
    BY DEF Intervals, Accs, LogRows
  <2> QED BY <2>1, BucketAppend
<1>1. CASE event.state = acc.current
  BY <1>1 DEF U!Follow
<1>2. CASE event.state # acc.current /\ event.state = "ON"
  <2> DEFINE next == [acc EXCEPT !.current = "ON", !.since = <<p>>]
  <2>1. U!Follow(acc, event) = next
    BY <1>2 DEF U!Follow
  <2>2. next.current = "ON" /\ next.since = <<p>> /\ next.done = acc.done
    BY DEF Accs
  <2>3. U!BucketSeconds(acc.done, w) = Cardinality(OnIn(entries, w, s, p))
    BY <1>2 DEF Tally
  <2>4. U!Overlap(<<p, p>>, w) = 0
    BY OverlapNothing
  <2>5. U!BucketSeconds(acc.done, w) + U!Overlap(<<p, p>>, w) = Cardinality(OnIn(entries, w, s, p))
    BY <1>0, <2>3, <2>4
  <2> HIDE DEF next
  <2>6. Tally(entries, next, s, p, w)
    BY <2>2, <2>5 DEF Tally
  <2> QED BY <1>2, <2>1, <2>2, <2>6
<1>3. CASE event.state # acc.current /\ event.state # "ON"
  <2> DEFINE longer == IF acc.since # <<>> /\ p > acc.since[1]
                       THEN Append(acc.done, <<acc.since[1], p>>) ELSE acc.done
             next == [current |-> "OFF", since |-> <<>>, done |-> longer]
  <2>1. U!Follow(acc, event) = next
    BY <1>3 DEF U!Follow
  <2>2. event.state = "OFF"
    BY <1>0, <1>3 DEF U!States
  <2>3. U!BucketSeconds(longer, w) = Cardinality(OnIn(entries, w, s, p))
    <3>1. CASE acc.current = "ON"
      <4>1. PICK a \in Int : /\ a <= p /\ acc.since = <<a>>
                             /\ U!BucketSeconds(acc.done, w) + U!Overlap(<<a, p>>, w)
                                  = Cardinality(OnIn(entries, w, s, p))
        BY <3>1 DEF Tally
      <4>2. longer = IF p > a THEN Append(acc.done, <<a, p>>) ELSE acc.done
        BY <4>1
      <4> HIDE DEF longer
      <4> QED BY <1>0, <4>1, <4>2, IntervalEnds
    <3>2. CASE acc.current # "ON"
      <4>1. acc.since = <<>> /\ U!BucketSeconds(acc.done, w) = Cardinality(OnIn(entries, w, s, p))
        BY <3>2 DEF Tally
      <4> QED BY <4>1
    <3> QED BY <3>1, <3>2
  <2> HIDE DEF longer
  <2>4. Tally(entries, next, s, p, w)
    BY <2>3 DEF Tally
  <2> QED BY <2>1, <2>2, <2>4
<1> QED BY <1>1, <1>2, <1>3

Counts(event, s, e) == event.home = "ours" /\ event.at \in s..e

First(initial, s) ==
    [current |-> initial, done |-> <<>>, since |-> IF initial = "ON" THEN <<s>> ELSE <<>>]

Close(acc, e) ==
    IF acc.since # <<>> /\ e > acc.since[1] THEN Append(acc.done, <<acc.since[1], e>>) ELSE acc.done

\* What the loop of onIntervals has after each row.
LoopOf(f, entries, initial, s, e) ==
    /\ f[0] = First(initial, s)
    /\ \A i \in 0..Len(entries) : f[i] \in Accs
    /\ \A i \in 1..Len(entries) :
           f[i] = IF Counts(entries[i], s, e) THEN U!Follow(f[i - 1], entries[i]) ELSE f[i - 1]

LEMMA Loop ==
    ASSUME NEW entries \in Seq(LogRows), NEW initial \in U!States \cup {U!Unknown},
           NEW s \in Int, NEW e \in Int
    PROVE  \E f : LoopOf(f, entries, initial, s, e)
                  /\ U!OnIntervals(entries, initial, s, e) = Close(f[Len(entries)], e)
<1> DEFINE n == Len(entries)
           next(g, i) == IF Counts(entries[i], s, e) THEN U!Follow(g[i - 1], entries[i])
                         ELSE g[i - 1]
           Is(g) == g = [i \in 0..n |-> IF i = 0 THEN First(initial, s) ELSE next(g, i)]
           after == CHOOSE g : Is(g)
           step == [x \in (1..n) \X Accs |->
                      IF Counts(entries[x[1]], s, e) THEN U!Follow(x[2], entries[x[1]]) ELSE x[2]]
<1>1. n \in Nat /\ \A i \in 1..n : entries[i] \in LogRows
  OBVIOUS
<1>2. step \in [(1..n) \X Accs -> Accs]
  <2> HIDE DEF n
  <2> QED BY <1>1, FollowType
<1>3. First(initial, s) \in Accs
  <2>1. (IF initial = "ON" THEN <<s>> ELSE <<>>) \in {<<>>} \cup {<<t>> : t \in Int}
    OBVIOUS
  <2>2. <<>> \in Seq(Intervals)
    OBVIOUS
  <2> QED BY <2>1, <2>2 DEF First, Accs
<1>4. PICK f : Recurs(f, n, Accs, First(initial, s), step)
  <2> HIDE DEF n, step
  <2> QED BY <1>1, <1>2, <1>3, Recursion
<1>5. /\ f \in [0..n -> Accs] /\ f[0] = First(initial, s)
      /\ \A i \in 1..n : f[i] = step[<<i, f[i - 1]>>]
  <2> HIDE DEF n, step
  <2> QED BY <1>4 DEF Recurs
<1>6. ASSUME NEW i \in 1..n PROVE f[i] = next(f, i)
  <2>1. i - 1 \in 0..n
    BY <1>1
  <2>2. f[i - 1] \in Accs /\ f[i] = step[<<i, f[i - 1]>>]
    BY <1>5, <2>1
  <2> QED BY <2>2
<1>7. Is(f)
  <2> HIDE DEF n, step, next
  <2>1. \A i \in 0..n : i # 0 => i \in 1..n
    BY <1>1
  <2> QED BY <1>5, <1>6, <2>1
<1>8. Is(after)
  <2> HIDE DEF Is
  <2> QED BY <1>7
<1>9. U!OnIntervals(entries, initial, s, e) = Close(after[n], e)
  BY DEF U!OnIntervals, Close, Counts, First
<1> HIDE DEF after
<1>10. /\ after[0] = First(initial, s)
       /\ \A i \in 1..n : after[i] = next(after, i)
  <2> HIDE DEF n, next
  <2> QED BY <1>1, <1>8
<1>11. \A i \in 0..n : after[i] \in Accs
  <2> DEFINE S == {i \in 0..n : after[i] \in Accs}
  <2>1. 0 \in S
    BY <1>1, <1>3, <1>10
  <2>2. ASSUME NEW i \in 1..n, i - 1 \in S PROVE i \in S
    <3> HIDE DEF n
    <3>1. after[i - 1] \in Accs /\ i \in 0..n /\ after[i] = next(after, i)
      BY <1>1, <1>10, <2>2
    <3> QED BY <1>1, <3>1, FollowType
  <2> HIDE DEF S, n
  <2>3. \A i \in 0..n : i \in S
    BY <1>1, <2>1, <2>2, UpTo
  <2> QED BY <2>3 DEF S
<1> QED BY <1>9, <1>10, <1>11 DEF LoopOf

\* The rows that the loop has followed after i of them, and those before the first day.
FollowedRows(entries, i, s, e) ==
    {j \in 1..Len(entries) :
        entries[j].home = "ours" /\ (entries[j].at < s \/ (j <= i /\ entries[j].at \in s..e))}

\* p is not before the rows followed and not after the others.
Between(entries, i, s, e, p) ==
    \A j \in 1..Len(entries) :
        Counts(entries[j], s, e) => IF j <= i THEN entries[j].at <= p ELSE entries[j].at >= p

LEMMA NoRowBetween ==
    ASSUME NEW entries \in Seq(LogRows), NEW i \in 0..Len(entries), NEW s \in Int, NEW e \in Int,
           NEW p \in s..e, NEW q \in s..e, NEW t \in p..(q - 1),
           Between(entries, i, s, e, p),
           \A j \in 1..Len(entries) : j > i /\ Counts(entries[j], s, e) => entries[j].at >= q
    PROVE  U!StateBefore(entries, t + 1) = Latest(entries, FollowedRows(entries, i, s, e))
<1> DEFINE Earlier == {j \in 1..Len(entries) : entries[j].home = "ours" /\ entries[j].at < t + 1}
<1>1. U!StateBefore(entries, t + 1) = Latest(entries, Earlier)
  BY LatestBefore
<1>2. ASSUME NEW j \in 1..Len(entries) PROVE entries[j].at \in Int
  <2>1. entries[j] \in LogRows
    OBVIOUS
  <2> QED BY <2>1 DEF LogRows
<1>3. ASSUME NEW j \in 1..Len(entries), entries[j].home = "ours", entries[j].at < t + 1
      PROVE  j \in FollowedRows(entries, i, s, e)
  <2>1. CASE entries[j].at < s
    BY <1>3, <2>1 DEF FollowedRows
  <2>2. CASE entries[j].at >= s
    <3>1. entries[j].at \in s..e /\ entries[j].at < q
      BY <1>2, <1>3, <2>2
    <3>2. j <= i
      BY <1>2, <1>3, <3>1 DEF Counts
    <3> QED BY <1>3, <3>1, <3>2 DEF FollowedRows
  <2> QED BY <1>2, <2>1, <2>2
<1>4. ASSUME NEW j \in FollowedRows(entries, i, s, e)
      PROVE  j \in 1..Len(entries) /\ entries[j].home = "ours" /\ entries[j].at < t + 1
  <2>1. j \in 1..Len(entries) /\ entries[j].home = "ours"
        /\ (entries[j].at < s \/ (j <= i /\ entries[j].at \in s..e))
    BY DEF FollowedRows
  <2>2. CASE entries[j].at < s
    BY <1>2, <2>1, <2>2
  <2>3. CASE j <= i /\ entries[j].at \in s..e
    <3>1. entries[j].at <= p
      BY <2>1, <2>3 DEF Between, Counts
    <3> QED BY <1>2, <2>1, <3>1
  <2> QED BY <2>1, <2>2, <2>3
<1>5. Earlier = FollowedRows(entries, i, s, e)
  BY <1>3, <1>4 DEF FollowedRows
<1> QED BY <1>1, <1>5

LoopInvariant(entries, acc, i, s, e, w) ==
    /\ acc.current = Latest(entries, FollowedRows(entries, i, s, e))
    /\ \E p \in s..e : Between(entries, i, s, e, p) /\ Tally(entries, acc, s, p, w)

LEMMA LoopBegins ==
    ASSUME NEW entries \in Seq(LogRows), NEW s \in Int, NEW e \in Int, s <= e, NEW w \in Windows
    PROVE  LoopInvariant(entries, First(U!StateBefore(entries, s), s), 0, s, e, w)
<1> DEFINE initial == U!StateBefore(entries, s)
           acc == First(initial, s)
<1>1. ASSUME NEW j \in 1..Len(entries) PROVE entries[j].at \in Int
  <2>1. entries[j] \in LogRows
    OBVIOUS
  <2> QED BY <2>1 DEF LogRows
<1>2. FollowedRows(entries, 0, s, e)
        = {j \in 1..Len(entries) : entries[j].home = "ours" /\ entries[j].at < s}
  BY DEF FollowedRows
<1>3. initial = Latest(entries, FollowedRows(entries, 0, s, e))
  BY <1>2, LatestBefore
<1>4. Between(entries, 0, s, e, s)
  BY <1>1 DEF Between, Counts
<1>5. OnIn(entries, w, s, s) = {} /\ Cardinality({}) = 0
  BY FS_EmptySet DEF OnIn
<1>6. U!BucketSeconds(<<>>, w) = 0 /\ U!Overlap(<<s, s>>, w) = 0
  BY BucketEmpty, OverlapNothing
<1>7. acc.current = initial /\ acc.done = <<>> /\ acc.since = IF initial = "ON" THEN <<s>> ELSE <<>>
  BY DEF First
<1> HIDE DEF acc, initial
<1>8. Tally(entries, acc, s, s, w)
  BY <1>5, <1>6, <1>7 DEF Tally
<1> QED BY <1>3, <1>4, <1>7, <1>8 DEF LoopInvariant, acc, initial

LEMMA LoopStep ==
    ASSUME NEW entries \in Seq(LogRows), Sorted(entries), NEW s \in Int, NEW e \in Int,
           NEW w \in Windows, NEW i \in 1..Len(entries), NEW acc \in Accs,
           LoopInvariant(entries, acc, i - 1, s, e, w)
    PROVE  LoopInvariant(entries, IF Counts(entries[i], s, e) THEN U!Follow(acc, entries[i]) ELSE acc,
                         i, s, e, w)
<1>1. ASSUME NEW j \in 1..Len(entries) PROVE entries[j] \in LogRows /\ entries[j].at \in Int
  <2>1. entries[j] \in LogRows
    OBVIOUS
  <2> QED BY <2>1 DEF LogRows
<1>2. /\ acc.current = Latest(entries, FollowedRows(entries, i - 1, s, e))
      /\ i - 1 \in 0..Len(entries)
  BY DEF LoopInvariant
<1>3. PICK p \in s..e : Between(entries, i - 1, s, e, p) /\ Tally(entries, acc, s, p, w)
  BY DEF LoopInvariant
<1>4. CASE ~Counts(entries[i], s, e)
  <2>1. FollowedRows(entries, i, s, e) = FollowedRows(entries, i - 1, s, e)
    BY <1>1, <1>4 DEF FollowedRows, Counts
  <2>2. Between(entries, i, s, e, p)
    <3> SUFFICES ASSUME NEW j \in 1..Len(entries), Counts(entries[j], s, e)
                 PROVE  IF j <= i THEN entries[j].at <= p ELSE entries[j].at >= p
      BY DEF Between
    <3>1. j # i
      BY <1>4
    <3>2. j <= i <=> j <= i - 1
      BY <3>1
    <3> QED BY <1>3, <3>2 DEF Between
  <2> QED BY <1>2, <1>3, <1>4, <2>1, <2>2 DEF LoopInvariant
<1>5. CASE Counts(entries[i], s, e)
  <2> DEFINE q == entries[i].at
  <2>1. q \in s..e /\ p <= q /\ p \in Int /\ q \in Int /\ s <= p
    <3>1. ~(i <= i - 1)
      OBVIOUS
    <3>2. entries[i].at >= p
      BY <1>3, <1>5, <3>1 DEF Between
    <3> QED BY <1>5, <3>2 DEF Counts
  <2>2. ASSUME NEW j \in 1..Len(entries), j > i - 1, Counts(entries[j], s, e)
        PROVE  entries[j].at >= q
    <3>1. i <= j
      BY <2>2
    <3>2. entries[i].at <= entries[j].at
      BY <3>1 DEF Sorted
    <3> QED BY <1>1, <3>2
  <2>3. Throughout(entries, p, q, acc.current)
    <3> SUFFICES ASSUME NEW t \in p..(q - 1) PROVE U!StateBefore(entries, t + 1) = acc.current
      BY DEF Throughout
    <3> HIDE DEF q
    <3> QED BY <1>2, <1>3, <2>1, <2>2, NoRowBetween
  <2>4. Tally(entries, acc, s, q, w)
    <3> HIDE DEF q
    <3> QED BY <1>3, <2>1, <2>3, TallyExtends
  <2>5. /\ Tally(entries, U!Follow(acc, entries[i]), s, q, w)
        /\ U!Follow(acc, entries[i]).current = entries[i].state
    <3> DEFINE event == entries[i]
    <3>1. event \in LogRows /\ event.at = q
      BY <1>1
    <3> HIDE DEF q, event
    <3>2. /\ Tally(entries, U!Follow(acc, event), s, q, w)
          /\ U!Follow(acc, event).current = event.state
      BY <2>1, <2>4, <3>1, TallyFollows
    <3> QED BY <3>2 DEF event
  <2>6. FollowedRows(entries, i, s, e) = FollowedRows(entries, i - 1, s, e) \cup {i}
    <3>1. i \in FollowedRows(entries, i, s, e)
      BY <1>5 DEF FollowedRows, Counts
    <3>2. ASSUME NEW j \in FollowedRows(entries, i, s, e) PROVE j = i \/ j \in FollowedRows(entries, i - 1, s, e)
      BY <3>2 DEF FollowedRows
    <3>3. ASSUME NEW j \in FollowedRows(entries, i - 1, s, e) PROVE j \in FollowedRows(entries, i, s, e)
      BY <3>3 DEF FollowedRows
    <3> QED BY <3>1, <3>2, <3>3
  <2>7. ASSUME NEW j \in FollowedRows(entries, i - 1, s, e) PROVE j \in Int /\ j <= i
    <3>1. /\ j \in 1..Len(entries)
          /\ entries[j].at < s \/ j <= i - 1
      BY <2>7 DEF FollowedRows
    <3>2. CASE entries[j].at < s
      <4>1. ~(entries[i].at <= entries[j].at)
        BY <1>1, <2>1, <3>1, <3>2
      <4>2. ~(i <= j)
        BY <3>1, <4>1 DEF Sorted
      <4> QED BY <3>1, <4>2
    <3> QED BY <3>1, <3>2
  <2>8. Latest(entries, FollowedRows(entries, i, s, e)) = entries[i].state
    <3>1. FollowedRows(entries, i - 1, s, e) \in SUBSET Int /\ i \in Int
      BY <2>7
    <3>2. \A j \in FollowedRows(entries, i - 1, s, e) : j <= i
      BY <2>7
    <3> QED BY <2>6, <3>1, <3>2, LatestAdds
  <2>9. Between(entries, i, s, e, q)
    <3> SUFFICES ASSUME NEW j \in 1..Len(entries), Counts(entries[j], s, e)
                 PROVE  IF j <= i THEN entries[j].at <= q ELSE entries[j].at >= q
      BY DEF Between
    <3>1. CASE j <= i
      BY <1>1, <3>1 DEF Sorted
    <3>2. CASE ~(j <= i)
      BY <2>2, <3>2
    <3> QED BY <3>1, <3>2
  <2> HIDE DEF q
  <2> QED BY <1>5, <2>1, <2>5, <2>8, <2>9 DEF LoopInvariant
<1> QED BY <1>4, <1>5

\* What onIntervals and bucketSeconds make of a log that is in order: in each
\* window, the hours of s..e in which the last row of ours says "ON".
LEMMA IntervalsCount ==
    ASSUME NEW entries \in Seq(LogRows), Sorted(entries), NEW s \in Int, NEW e \in Int, s <= e,
           NEW w \in Windows
    PROVE  U!BucketSeconds(U!OnIntervals(entries, U!StateBefore(entries, s), s, e), w)
             = Cardinality(OnIn(entries, w, s, e))
<1> DEFINE initial == U!StateBefore(entries, s)
           n == Len(entries)
<1>1. initial \in U!States \cup {U!Unknown}
  <2> DEFINE J == {i \in 1..Len(entries) : entries[i].home = "ours" /\ entries[i].at < s}
             last == CHOOSE i \in J : \A j \in J : j <= i
  <2>1. initial = IF J = {} THEN U!Unknown ELSE entries[last].state
    BY LatestBefore DEF Latest
  <2>2. ASSUME J # {} PROVE last \in J
    <3>1. J \in SUBSET (1..n) /\ n \in Nat
      OBVIOUS
    <3> HIDE DEF J, n
    <3> QED BY <2>2, <3>1, Greatest
  <2>3. \A i \in J : entries[i].state \in U!States
    <3> SUFFICES ASSUME NEW i \in J PROVE entries[i].state \in U!States
      OBVIOUS
    <3>1. entries[i] \in LogRows
      OBVIOUS
    <3> QED BY <3>1 DEF LogRows
  <2> HIDE DEF J, last, initial
  <2> QED BY <2>1, <2>2, <2>3
<1>2. PICK f : LoopOf(f, entries, initial, s, e) /\ U!OnIntervals(entries, initial, s, e) = Close(f[n], e)
  <2> HIDE DEF initial
  <2> QED BY <1>1, Loop
<1>3. n \in Nat
  OBVIOUS
<1>4. \A i \in 0..n : LoopInvariant(entries, f[i], i, s, e, w)
  <2> DEFINE S == {i \in 0..n : LoopInvariant(entries, f[i], i, s, e, w)}
  <2>1. 0 \in S
    <3>1. f[0] = First(initial, s)
      BY <1>2 DEF LoopOf
    <3>2. LoopInvariant(entries, f[0], 0, s, e, w)
      BY <3>1, LoopBegins
    <3> QED BY <1>3, <3>2
  <2>2. ASSUME NEW i \in 1..n, i - 1 \in S PROVE i \in S
    <3>1. i \in 0..n /\ i - 1 \in 0..n /\ LoopInvariant(entries, f[i - 1], i - 1, s, e, w)
      BY <2>2
    <3> DEFINE acc == f[i - 1]
    <3>2. acc \in Accs /\ f[i] = IF Counts(entries[i], s, e) THEN U!Follow(acc, entries[i]) ELSE acc
      BY <1>2, <3>1 DEF LoopOf
    <3>3. LoopInvariant(entries, acc, i - 1, s, e, w)
      BY <3>1
    <3> HIDE DEF acc
    <3>4. LoopInvariant(entries, f[i], i, s, e, w)
      BY <3>2, <3>3, LoopStep
    <3> QED BY <3>1, <3>4
  <2> HIDE DEF S, n
  <2>3. \A i \in 0..n : i \in S
    BY <1>3, <2>1, <2>2, UpTo
  <2> QED BY <2>3 DEF S
<1> DEFINE last == f[n]
<1>5. LoopInvariant(entries, last, n, s, e, w) /\ last \in Accs
  BY <1>2, <1>3, <1>4 DEF LoopOf
<1>6. PICK p \in s..e : Between(entries, n, s, e, p) /\ Tally(entries, last, s, p, w)
  BY <1>5 DEF LoopInvariant
<1>7. last.current = Latest(entries, FollowedRows(entries, n, s, e))
  BY <1>5 DEF LoopInvariant
<1> HIDE DEF last
<1>8. Throughout(entries, p, e, last.current)
  <2> SUFFICES ASSUME NEW t \in p..(e - 1) PROVE U!StateBefore(entries, t + 1) = last.current
    BY DEF Throughout
  <2>1. n \in 0..Len(entries) /\ e \in s..e /\ \A j \in 1..Len(entries) : ~(j > n)
    BY <1>3
  <2> HIDE DEF n
  <2> QED BY <1>6, <1>7, <2>1, NoRowBetween
<1>9. p \in Int /\ s <= p /\ p <= e
  OBVIOUS
<1>10. Tally(entries, last, s, e, w)
  BY <1>5, <1>6, <1>8, <1>9, TallyExtends
<1>11. U!BucketSeconds(Close(last, e), w) = Cardinality(OnIn(entries, w, s, e))
  <2>1. last.done \in Seq(Intervals)
    BY <1>5 DEF Accs
  <2>2. CASE last.current = "ON"
    <3>1. PICK a \in Int : /\ a <= e /\ last.since = <<a>>
                           /\ U!BucketSeconds(last.done, w) + U!Overlap(<<a, e>>, w)
                                = Cardinality(OnIn(entries, w, s, e))
      BY <1>10, <2>2 DEF Tally
    <3>2. Close(last, e) = IF e > a THEN Append(last.done, <<a, e>>) ELSE last.done
      BY <3>1 DEF Close
    <3> QED BY <2>1, <3>1, <3>2, IntervalEnds
  <2>3. CASE last.current # "ON"
    <3>1. last.since = <<>> /\ U!BucketSeconds(last.done, w) = Cardinality(OnIn(entries, w, s, e))
      BY <1>10, <2>3 DEF Tally
    <3> QED BY <3>1 DEF Close
  <2> QED BY <2>2, <2>3
<1> QED BY <1>2, <1>11 DEF last

-----------------------------------------------------------------------------
(* The log as it comes about.                                              *)

\* The clock never runs back over the log, what we were told last is what its
\* last row says, and the past is what it says of each hour.
UsageInv ==
    /\ U!TypeOK
    /\ fresh => linked /\ owner = "ours" /\ told = switch
    /\ Sorted(log) /\ \A i \in 1..Len(log) : log[i].at <= now
    /\ told = U!StateBefore(log, now + 1)
    /\ \A t \in 0..(now - 1) : truth[t + 1] = U!StateBefore(log, t + 1)

UsageHolds == part = "usage" => UsageInv

LEMMA UsageInit == ASSUME U!ConstantsAssumption, U!Init PROVE UsageInv
<1>0. MaxHours \in Nat /\ MaxEvents \in Nat
  BY DEF U!ConstantsAssumption
<1>1. log = <<>> /\ truth = <<>> /\ now = 0 /\ told = U!Unknown
  BY DEF U!Init
<1>2. fresh = FALSE /\ linked = FALSE
  BY DEF U!Init
<1>3. U!TypeOK
  <2>1. <<>> \in Seq(U!States \cup {U!Unknown}) /\ Len(<<>>) = 0
        /\ <<>> \in Seq([home : U!Owners, state : U!States, at : 0..MaxHours])
    OBVIOUS
  <2>2. /\ zone \in TimeZones /\ now \in 0..MaxHours /\ events \in 0..MaxEvents
        /\ switch \in U!States /\ owner \in U!Owners /\ told \in U!States \cup {U!Unknown}
    BY <1>0 DEF U!Init
  <2>3. linked \in BOOLEAN /\ fresh \in BOOLEAN
    BY <1>2
  <2> QED BY <1>1, <2>1, <2>2, <2>3 DEF U!TypeOK
<1>4. U!StateBefore(log, now + 1) = U!Unknown
  <2>1. log \in Seq(LogRows) /\ Len(log) = 0
    BY <1>1
  <2>2. {i \in 1..Len(log) : log[i].home = "ours" /\ log[i].at < now + 1} = {}
    BY <2>1
  <2> QED BY <2>1, <2>2, LatestBefore DEF Latest
<1>5. Len(log) = 0 /\ ~fresh
  BY <1>1, <1>2
<1> QED BY <1>1, <1>3, <1>4, <1>5 DEF UsageInv, Sorted

LEMMA LogTyped == ASSUME U!TypeOK PROVE log \in Seq(LogRows) /\ \A i \in 1..Len(log) : log[i].at \in Nat
<1> DEFINE R == [home : U!Owners, state : U!States, at : 0..MaxHours]
<1>1. log \in Seq(R)
  BY DEF U!TypeOK
<1>2. ASSUME NEW r \in R PROVE r \in LogRows /\ r.at \in Nat
  BY DEF LogRows
<1>3. \A i \in 1..Len(log) : log[i] \in R
  <2> HIDE DEF R
  <2> QED BY <1>1
<1>4. \A i \in 1..Len(log) : log[i] \in LogRows /\ log[i].at \in Nat
  <2> HIDE DEF R
  <2> QED BY <1>2, <1>3
<1>5. Len(log) \in Nat /\ log = [i \in 1..Len(log) |-> log[i]]
  BY <1>1
<1>6. log \in Seq(LogRows)
  BY <1>4, <1>5
<1> QED BY <1>4, <1>6

LEMMA UsageCounts ==
    ASSUME U!ConstantsAssumption, UsageInv PROVE U!OnTimeCounted
<1>1. /\ zone \in [before : Int, after : Int, at : Int] /\ U!MidnightsFound(zone)
      /\ DayHours \in Nat \ {0} /\ MaxDays \in Nat /\ now \in Nat
  BY DEF UsageInv, U!TypeOK, U!ConstantsAssumption, U!MidnightsFound
<1>2. log \in Seq(LogRows) /\ Sorted(log) /\ \A i \in 1..Len(log) : log[i].at \in Nat
  BY LogTyped DEF UsageInv
<1> DEFINE Counted(usage, asOf) ==
             \A day \in DOMAIN usage :
                usage[day]
                  = Cardinality({t \in 0..(asOf - 1) : U!LocalDay(t) = day /\ truth[t + 1] = "ON"})
<1>0. (\A asOf \in 0..now, days \in 1..MaxDays : Counted(U!GetUsage(days, asOf), asOf))
        => U!OnTimeCounted
  <2>1. \A S : U!Cardinality(S) = Cardinality(S)
    BY DEF U!Cardinality, Cardinality
  <2> QED BY <2>1 DEF U!OnTimeCounted
<1> SUFFICES ASSUME NEW asOf \in 0..now, NEW days \in 1..MaxDays,
                    NEW day \in DOMAIN U!GetUsage(days, asOf)
             PROVE  U!GetUsage(days, asOf)[day]
                      = Cardinality({t \in 0..(asOf - 1) : U!LocalDay(t) = day /\ truth[t + 1] = "ON"})
  BY <1>0
<1> DEFINE today == U!LocalDay(asOf)
           windows == U!DayWindows(days, asOf)
           s == U!ZonedMidnight(today - days + 1)
           w == [start |-> U!ZonedMidnight(day), end |-> U!ZonedMidnight(day + 1)]
<1>3. asOf \in Int /\ days \in Int /\ days >= 1 /\ asOf <= now
  BY <1>1
<1>5. \A i \in Int : U!LocalDay(i) \in Int /\ U!ZonedMidnight(i) \in Int
  BY <1>1, MidnightType
<1>7. today \in Int /\ today - days + 1 \in Int /\ today - days + 1 <= today
  BY <1>3, <1>5
<1>8. windows = [d \in (today - days + 1)..today |->
                   [start |-> U!ZonedMidnight(d), end |-> U!ZonedMidnight(d + 1)]]
  BY DEF U!DayWindows
<1>9. U!GetUsage(days, asOf)
        = [d \in DOMAIN windows |->
             U!BucketSeconds(
               U!OnIntervals(log, U!StateBefore(log, windows[today - days + 1].start),
                             windows[today - days + 1].start,
                             IF asOf < windows[today].end THEN asOf ELSE windows[today].end),
               windows[d])]
  BY DEF U!GetUsage
<1>10. /\ DOMAIN windows = (today - days + 1)..today
       /\ windows[today - days + 1].start = s
       /\ windows[today].end = U!ZonedMidnight(today + 1)
  <2> HIDE DEF windows, today
  <2> QED BY <1>7, <1>8
<1>11. day \in (today - days + 1)..today /\ windows[day] = w /\ day \in Int
  <2>1. day \in DOMAIN windows
    BY <1>9
  <2> HIDE DEF windows, today
  <2> QED BY <1>7, <1>8, <1>10, <2>1
<1>12. ~(asOf >= U!ZonedMidnight(today + 1)) /\ asOf >= s
  <2> HIDE DEF today
  <2>1. today + 1 \in Int /\ ~(today >= today + 1) /\ today >= today - days + 1
    BY <1>7
  <2>2. U!LocalDay(asOf) >= today + 1 <=> asOf >= U!ZonedMidnight(today + 1)
    BY <1>1, <1>3, <2>1, MidnightBegins
  <2>3. U!LocalDay(asOf) >= today - days + 1 <=> asOf >= U!ZonedMidnight(today - days + 1)
    BY <1>1, <1>3, <1>7, MidnightBegins
  <2> QED BY <2>1, <2>2, <2>3 DEF today
<1>13. s \in Int /\ w \in Windows
  <2>1. day + 1 \in Int
    BY <1>11
  <2> HIDE DEF today
  <2> QED BY <1>5, <1>7, <1>11, <2>1 DEF Windows
<1>14. U!GetUsage(days, asOf)[day]
         = U!BucketSeconds(U!OnIntervals(log, U!StateBefore(log, s), s, asOf), w)
  <2>1. (IF asOf < windows[today].end THEN asOf ELSE windows[today].end) = asOf
    <3>1. today + 1 \in Int /\ U!ZonedMidnight(today + 1) \in Int
      BY <1>5, <1>7
    <3> HIDE DEF windows, today, s
    <3> QED BY <1>3, <1>10, <1>12, <3>1
  <2> HIDE DEF windows, today, s, w
  <2> QED BY <1>9, <1>10, <1>11, <2>1
<1>15. U!GetUsage(days, asOf)[day] = Cardinality(OnIn(log, w, s, asOf))
  <2> HIDE DEF s, w
  <2> QED BY <1>2, <1>3, <1>12, <1>13, <1>14, IntervalsCount
<1>16. ASSUME NEW t \in Int
       PROVE  t \in OnIn(log, w, s, asOf)
                <=> t \in 0..(asOf - 1) /\ U!LocalDay(t) = day /\ truth[t + 1] = "ON"
  <2>1. U!LocalDay(t) = day <=> InWindow(t, w)
    BY <1>1, <1>11, WindowsAreDays DEF InWindow
  <2>2. t \in OnIn(log, w, s, asOf)
          <=> t \in s..(asOf - 1) /\ InWindow(t, w) /\ U!StateBefore(log, t + 1) = "ON"
    BY <1>3, <1>13 DEF OnIn
  <2>3. ASSUME t < 0 PROVE U!StateBefore(log, t + 1) # "ON"
    <3>1. {i \in 1..Len(log) : log[i].home = "ours" /\ log[i].at < t + 1} = {}
      BY <1>2, <2>3
    <3>2. U!StateBefore(log, t + 1) = U!Unknown
      BY <1>2, <3>1, LatestBefore DEF Latest
    <3> QED BY <3>2 DEF U!Unknown
  <2>4. ASSUME t \in 0..(asOf - 1) PROVE truth[t + 1] = U!StateBefore(log, t + 1)
    <3>1. t \in 0..(now - 1)
      BY <1>1, <1>3, <2>4
    <3> QED BY <3>1 DEF UsageInv
  <2>5. ASSUME U!LocalDay(t) = day PROVE t >= s
    <3>1. U!LocalDay(t) >= today - days + 1
      BY <1>7, <1>11, <2>5
    <3>2. U!LocalDay(t) >= today - days + 1 <=> t >= U!ZonedMidnight(today - days + 1)
      <4> HIDE DEF today
      <4> QED BY <1>1, <1>7, MidnightBegins
    <3> QED BY <3>1, <3>2
  <2> HIDE DEF s, w
  <2> QED BY <1>3, <1>13, <2>1, <2>2, <2>3, <2>4, <2>5
<1>17. OnIn(log, w, s, asOf) \subseteq Int
  BY <1>3, <1>13 DEF OnIn
<1>18. OnIn(log, w, s, asOf)
         = {t \in 0..(asOf - 1) : U!LocalDay(t) = day /\ truth[t + 1] = "ON"}
  <2> HIDE DEF s, w
  <2> QED BY <1>3, <1>16, <1>17
<1> QED BY <1>15, <1>18

LEMMA UsageStep ==
    ASSUME U!ConstantsAssumption, U!TypeOK, [U!Next]_usageVars
    PROVE  U!TypeOK'
<1> DEFINE Row == [home : U!Owners, state : U!States, at : 0..MaxHours]
           Logs == Seq(Row)
           Told == U!States \cup {U!Unknown}
           Truths == Seq(Told)
           Scene == zone \in TimeZones /\ now \in 0..MaxHours /\ events \in 0..MaxEvents
           Hand == switch \in U!States /\ linked \in BOOLEAN /\ owner \in U!Owners
           Heard == log \in Logs /\ fresh \in BOOLEAN /\ told \in Told
           Past == truth \in Truths /\ Len(truth) = now
<1>0. MaxHours \in Nat /\ MaxEvents \in Nat
  BY DEF U!ConstantsAssumption
<1>1. U!TypeOK <=> Scene /\ Hand /\ Heard /\ Past
  BY DEF U!TypeOK
<1>2. U!TypeOK' <=> Scene' /\ Hand' /\ Heard' /\ Past'
  BY DEF U!TypeOK
<1>3. ASSUME NEW entries \in Logs, NEW entry \in Row PROVE Append(entries, entry) \in Logs
  BY AppendProperties
<1>4. ASSUME NEW past \in Truths, NEW state \in Told
      PROVE  Append(past, state) \in Truths /\ Len(Append(past, state)) = Len(past) + 1
  BY AppendProperties
<1>5. ASSUME NEW state \in U!States PROVE [home |-> owner, state |-> state, at |-> now] \in Row
  BY <1>1
<1>6. U!States \subseteq Told
  OBVIOUS
<1> HIDE DEF Row, Logs, Told, Truths
<1>7. ASSUME NEW state \in U!States,
             log' = IF owner = "nobody" THEN log
                    ELSE Append(log, [home |-> owner, state |-> state, at |-> now]),
             told' = IF owner = "ours" THEN state ELSE told
      PROVE  log' \in Logs /\ told' \in Told
  <2>1. log \in Logs /\ told \in Told
    BY <1>1
  <2>2. Append(log, [home |-> owner, state |-> state, at |-> now]) \in Logs
    BY <1>3, <1>5, <2>1
  <2> QED BY <1>6, <1>7, <2>1, <2>2
<1>8. CASE U!Turn
  <2>1. switch' \in U!States
    BY <1>8 DEF U!Turn, U!States
  <2>2. Scene' /\ Hand'
    BY <1>0, <1>1, <1>8, <2>1 DEF U!Turn, U!Event
  <2>3. Past'
    BY <1>1, <1>8 DEF U!Turn
  <2>4. ASSUME linked PROVE Heard'
    <3>1. log' \in Logs /\ told' \in Told
      BY <1>7, <1>8, <2>1, <2>4 DEF U!Turn, U!LogActivity
    <3>2. fresh' = (owner = "ours")
      BY <1>8, <2>4 DEF U!Turn, U!LogActivity
    <3>3. fresh' \in BOOLEAN
      BY <3>2
    <3> QED BY <3>1, <3>3
  <2>5. ASSUME ~linked PROVE Heard'
    <3>1. log' = log /\ fresh' = fresh /\ told' = told
      BY <1>8, <2>5 DEF U!Turn
    <3> QED BY <1>1, <3>1
  <2>6. Heard'
    BY <2>4, <2>5
  <2> QED BY <1>2, <2>2, <2>3, <2>6
<1>9. CASE U!Connect
  <2>1. Scene' /\ Hand'
    BY <1>0, <1>1, <1>9 DEF U!Connect, U!Event
  <2>2. Past'
    BY <1>1, <1>9 DEF U!Connect
  <2>3. Heard'
    <3>1. log' \in Logs /\ told' \in Told
      BY <1>1, <1>7, <1>9 DEF U!Connect, U!LogActivity
    <3>2. fresh' = (owner = "ours")
      BY <1>9 DEF U!Connect, U!LogActivity
    <3>3. fresh' \in BOOLEAN
      BY <3>2
    <3> QED BY <3>1, <3>3
  <2> QED BY <1>2, <2>1, <2>2, <2>3
<1>10. CASE U!Disconnect
  <2>1. Scene' /\ Hand'
    <3>1. Scene' /\ switch' \in U!States /\ owner' \in U!Owners
      BY <1>0, <1>1, <1>10 DEF U!Disconnect, U!Event
    <3>2. linked' = FALSE
      BY <1>10 DEF U!Disconnect
    <3> QED BY <3>1, <3>2
  <2>2. Past' /\ log' \in Logs /\ told' \in Told
    BY <1>1, <1>10 DEF U!Disconnect
  <2>3. fresh' = FALSE
    BY <1>10 DEF U!Disconnect
  <2>4. Heard'
    BY <2>2, <2>3
  <2> QED BY <1>2, <2>1, <2>2, <2>4
<1>11. ASSUME NEW to \in U!Owners, U!Move(to) PROVE U!TypeOK'
  <2>1. Scene' /\ Hand'
    BY <1>0, <1>1, <1>11 DEF U!Move, U!Event
  <2>2. Heard' /\ Past'
    BY <1>1, <1>11 DEF U!Move
  <2> QED BY <1>2, <2>1, <2>2
<1>12. CASE U!Clock
  <2>1. truth \in Truths /\ (IF fresh THEN switch ELSE told) \in Told
    BY <1>1, <1>6
  <2>2. truth' = Append(truth, IF fresh THEN switch ELSE told) /\ now' = now + 1
    BY <1>12 DEF U!Clock
  <2>3. Past'
    BY <1>1, <1>4, <2>1, <2>2
  <2>4. Scene' /\ Hand' /\ Heard'
    BY <1>0, <1>1, <1>12 DEF U!Clock
  <2> QED BY <1>2, <2>3, <2>4
<1>13. CASE UNCHANGED usageVars
  <2>1. Scene' /\ Hand' /\ Heard' /\ Past'
    BY <1>1, <1>13 DEF usageVars
  <2> QED BY <1>2, <2>1
<1> QED BY <1>8, <1>9, <1>10, <1>11, <1>12, <1>13 DEF U!Next


LEMMA AppendedRow ==
    ASSUME NEW entries \in Seq(LogRows), NEW entry \in LogRows, NEW t \in Int
    PROVE  /\ entry.home # "ours" \/ t <= entry.at =>
                 U!StateBefore(Append(entries, entry), t) = U!StateBefore(entries, t)
           /\ entry.home = "ours" /\ entry.at < t =>
                 U!StateBefore(Append(entries, entry), t) = entry.state
<1> DEFINE n == Len(entries)
           z == Append(entries, entry)
           J == {i \in 1..n : entries[i].home = "ours" /\ entries[i].at < t}
<1>1. z \in Seq(LogRows) /\ n \in Nat /\ Len(z) = n + 1 /\ z[n + 1] = entry
      /\ \A i \in 1..n : z[i] = entries[i]
  BY AppendProperties
<1>2. U!StateBefore(entries, t) = Latest(entries, J)
  BY LatestBefore
<1>3. Latest(z, J) = Latest(entries, J)
  <2> DEFINE last == CHOOSE i \in J : \A j \in J : j <= i
  <2>1. CASE J = {}
    BY <2>1 DEF Latest
  <2>2. CASE J # {}
    <3>1. J \in SUBSET (1..n)
      OBVIOUS
    <3>2. last \in J
      <4> HIDE DEF J, n
      <4> QED BY <1>1, <2>2, <3>1, Greatest
    <3>3. z[last] = entries[last]
      <4>1. last \in 1..n
        BY <3>2
      <4> HIDE DEF z, last, n
      <4> QED BY <1>1, <4>1
    <3> HIDE DEF z, J
    <3> QED BY <2>2, <3>3 DEF Latest
  <2> QED BY <2>1, <2>2
<1> HIDE DEF z
<1>4. U!StateBefore(z, t)
        = Latest(z, {i \in 1..(n + 1) : z[i].home = "ours" /\ z[i].at < t})
  BY <1>1, LatestBefore
<1>5. ASSUME entry.home # "ours" \/ t <= entry.at
      PROVE  {i \in 1..(n + 1) : z[i].home = "ours" /\ z[i].at < t} = J
  <2>1. entry.at \in Int
    BY DEF LogRows
  <2>2. ~(z[n + 1].home = "ours" /\ z[n + 1].at < t)
    BY <1>1, <1>5, <2>1
  <2>3. 1..(n + 1) = (1..n) \cup {n + 1}
    BY <1>1
  <2> HIDE DEF n
  <2> QED BY <1>1, <2>2, <2>3
<1>6. ASSUME entry.home = "ours" /\ entry.at < t
      PROVE  {i \in 1..(n + 1) : z[i].home = "ours" /\ z[i].at < t} = J \cup {n + 1}
  <2>1. z[n + 1].home = "ours" /\ z[n + 1].at < t
    BY <1>1, <1>6
  <2>2. 1..(n + 1) = (1..n) \cup {n + 1}
    BY <1>1
  <2> HIDE DEF n
  <2> QED BY <1>1, <2>1, <2>2
<1>7. Latest(z, J \cup {n + 1}) = z[n + 1].state
  <2>1. J \in SUBSET Int /\ n + 1 \in Int /\ \A j \in J : j <= n + 1
    BY <1>1
  <2> HIDE DEF J, n
  <2> QED BY <2>1, LatestAdds
<1>8. ASSUME entry.home # "ours" \/ t <= entry.at
      PROVE  U!StateBefore(z, t) = U!StateBefore(entries, t)
  <2> HIDE DEF J, n
  <2> QED BY <1>2, <1>3, <1>4, <1>5, <1>8
<1>9. ASSUME entry.home = "ours" /\ entry.at < t
      PROVE  U!StateBefore(z, t) = entry.state
  <2> HIDE DEF J, n
  <2> QED BY <1>1, <1>4, <1>6, <1>7, <1>9
<1> QED BY <1>8, <1>9 DEF z

LEMMA UsageLogs ==
    ASSUME U!ConstantsAssumption, UsageInv, U!TypeOK', NEW state \in U!States, U!LogActivity(state),
           UNCHANGED <<now, owner, truth>>, linked', switch' = state
    PROVE  UsageInv'
<1> DEFINE entry == [home |-> owner, state |-> state, at |-> now]
<1>1. log \in Seq(LogRows) /\ now \in Nat /\ owner \in U!Owners /\ Len(log) \in Nat
  BY LogTyped DEF UsageInv, U!TypeOK
<1>2. entry \in LogRows /\ entry.home = owner /\ entry.at = now /\ entry.state = state
  BY <1>1 DEF LogRows
<1>3. /\ log' = IF owner = "nobody" THEN log ELSE Append(log, entry)
      /\ fresh' = (owner = "ours")
      /\ told' = IF owner = "ours" THEN state ELSE told
  BY DEF U!LogActivity
<1> HIDE DEF entry
<1>4. \A i \in 1..Len(log) : log[i].at <= now /\ log[i].at \in Nat
  BY LogTyped DEF UsageInv
<1>5. Sorted(log') /\ \A i \in 1..Len(log') : log'[i].at <= now'
  <2>1. CASE owner = "nobody"
    BY <1>3, <2>1 DEF UsageInv
  <2>2. CASE owner # "nobody"
    <3>1. log' = Append(log, entry)
      BY <1>3, <2>2
    <3>2. /\ Len(log') = Len(log) + 1 /\ log'[Len(log) + 1] = entry
          /\ \A i \in 1..Len(log) : log'[i] = log[i]
      BY <1>1, <1>2, <3>1, AppendProperties
    <3>3. Sorted(log)
      BY DEF UsageInv
    <3>4. ASSUME NEW i \in 1..Len(log') PROVE log'[i].at <= now /\ (i = Len(log) + 1 => log'[i].at = now)
      <4>1. CASE i = Len(log) + 1
        BY <1>1, <1>2, <3>2, <4>1
      <4>2. CASE i # Len(log) + 1
        <5>1. i \in 1..Len(log)
          BY <1>1, <3>2, <4>2
        <5> QED BY <1>4, <3>2, <4>2, <5>1
      <4> QED BY <4>1, <4>2
    <3>5. ASSUME NEW i \in 1..Len(log'), NEW j \in 1..Len(log'), i <= j
          PROVE  log'[i].at <= log'[j].at
      <4>1. CASE j = Len(log) + 1
        BY <3>4, <4>1
      <4>2. CASE j # Len(log) + 1
        <5>1. i \in 1..Len(log) /\ j \in 1..Len(log)
          BY <1>1, <3>2, <3>5, <4>2
        <5> QED BY <3>2, <3>3, <3>5, <5>1 DEF Sorted
      <4> QED BY <4>1, <4>2
    <3> QED BY <3>4, <3>5 DEF Sorted
  <2> QED BY <2>1, <2>2
<1>6. ASSUME NEW t \in 0..(now - 1) PROVE U!StateBefore(log', t + 1) = U!StateBefore(log, t + 1)
  <2>1. t + 1 \in Int /\ t + 1 <= now
    BY <1>1
  <2>2. U!StateBefore(Append(log, entry), t + 1) = U!StateBefore(log, t + 1)
    BY <1>1, <1>2, <2>1, AppendedRow
  <2> QED BY <1>3, <2>2
<1>7. told' = U!StateBefore(log', now + 1)
  <2>1. told = U!StateBefore(log, now + 1) /\ now + 1 \in Int /\ now < now + 1
    BY <1>1 DEF UsageInv
  <2>2. CASE owner = "ours"
    <3>1. log' = Append(log, entry) /\ told' = state
      BY <1>3, <2>2
    <3>2. entry.home = "ours" /\ entry.at < now + 1
      BY <1>2, <2>1, <2>2
    <3>3. U!StateBefore(Append(log, entry), now + 1) = entry.state
      BY <1>1, <1>2, <2>1, <3>2, AppendedRow
    <3> QED BY <1>2, <3>1, <3>3
  <2>3. CASE owner # "ours"
    <3>1. U!StateBefore(Append(log, entry), now + 1) = U!StateBefore(log, now + 1)
      BY <1>1, <1>2, <2>1, <2>3, AppendedRow
    <3> QED BY <1>3, <2>1, <2>3, <3>1
  <2> QED BY <2>2, <2>3
<1>8. fresh' => linked' /\ owner' = "ours" /\ told' = switch'
  BY <1>3
<1>9. \A t \in 0..(now' - 1) : truth'[t + 1] = U!StateBefore(log', t + 1)
  BY <1>6 DEF UsageInv
<1> QED BY <1>5, <1>7, <1>8, <1>9 DEF UsageInv

LEMMA UsageNext ==
    ASSUME U!ConstantsAssumption, UsageInv, [U!Next]_usageVars PROVE UsageInv'
<1>1. U!TypeOK'
  BY UsageStep DEF UsageInv
<1>2. log \in Seq(LogRows) /\ now \in Nat /\ switch \in U!States
  BY LogTyped DEF UsageInv, U!TypeOK
<1>3. ASSUME UNCHANGED <<now, log, told, truth>>, fresh' => linked' /\ owner' = "ours" /\ told' = switch'
      PROVE  UsageInv'
  BY <1>1, <1>3 DEF UsageInv
<1>4. CASE U!Turn
  <2>1. switch' \in U!States /\ UNCHANGED <<now, owner, truth, linked>>
    BY <1>2, <1>4 DEF U!Turn, U!States
  <2>2. CASE linked
    <3>1. U!LogActivity(switch')
      BY <1>4, <2>2 DEF U!Turn
    <3>2. linked' = linked
      BY <2>1
    <3>3. linked'
      BY <2>2, <3>2
    <3> QED BY <1>1, <2>1, <3>1, <3>3, UsageLogs
  <2>3. CASE ~linked
    <3>1. log' = log /\ fresh' = fresh /\ told' = told
      BY <1>4, <2>3 DEF U!Turn
    <3>2. ~fresh
      BY <2>3 DEF UsageInv
    <3>3. ~fresh'
      BY <3>1, <3>2
    <3> QED BY <1>3, <2>1, <3>1, <3>3
  <2> QED BY <2>2, <2>3
<1>5. CASE U!Connect
  <2>1. U!LogActivity(switch) /\ UNCHANGED <<now, owner, truth>> /\ switch' = switch
    BY <1>5 DEF U!Connect
  <2>2. linked' = TRUE
    BY <1>5 DEF U!Connect
  <2>3. linked'
    BY <2>2
  <2> QED BY <1>1, <1>2, <2>1, <2>3, UsageLogs
<1>6. CASE U!Disconnect
  <2>1. UNCHANGED <<now, log, told, truth>>
    BY <1>6 DEF U!Disconnect
  <2>2. fresh' = FALSE
    BY <1>6 DEF U!Disconnect
  <2> QED BY <1>3, <2>1, <2>2
<1>7. ASSUME NEW to \in U!Owners, U!Move(to) PROVE UsageInv'
  <2>1. UNCHANGED <<now, log, told, truth>>
    BY <1>7 DEF U!Move
  <2>2. fresh' = FALSE
    BY <1>7 DEF U!Move
  <2> QED BY <1>3, <2>1, <2>2
<1>8. CASE U!Clock
  <2>1. /\ now' = now + 1 /\ truth' = Append(truth, IF fresh THEN switch ELSE told)
        /\ UNCHANGED <<switch, linked, owner, log, told>>
    BY <1>8 DEF U!Clock
  <2>2. fresh' = fresh
    BY <1>8 DEF U!Clock
  <2>3. fresh' => linked' /\ owner' = "ours" /\ told' = switch'
    <3>1. fresh => linked /\ owner = "ours" /\ told = switch
      BY DEF UsageInv
    <3>2. linked' = linked
      BY <2>1
    <3> QED BY <2>1, <2>2, <3>1, <3>2
  <2>4. \A i \in 1..Len(log) : log[i].at <= now /\ log[i].at \in Nat
    BY LogTyped DEF UsageInv
  <2>5. U!StateBefore(log, now + 2) = U!StateBefore(log, now + 1)
    <3>1. {i \in 1..Len(log) : log[i].home = "ours" /\ log[i].at < now + 2}
            = {i \in 1..Len(log) : log[i].home = "ours" /\ log[i].at < now + 1}
      BY <1>2, <2>4
    <3> QED BY <1>2, <3>1, LatestBefore
  <2>6. told' = U!StateBefore(log', now' + 1)
    <3>1. now' + 1 = now + 2
      BY <1>2, <2>1
    <3> QED BY <2>1, <2>5, <3>1 DEF UsageInv
  <2>7. Sorted(log') /\ \A i \in 1..Len(log') : log'[i].at <= now'
    BY <1>2, <2>1, <2>4 DEF UsageInv
  <2>8. ASSUME NEW t \in 0..(now' - 1) PROVE truth'[t + 1] = U!StateBefore(log', t + 1)
    <3>1. truth \in Seq(U!States \cup {U!Unknown}) /\ Len(truth) = now
      BY DEF UsageInv, U!TypeOK
    <3> DEFINE state == IF fresh THEN switch ELSE told
    <3>2. state = told
      BY DEF UsageInv
    <3>3. state \in U!States \cup {U!Unknown}
      BY <3>2 DEF UsageInv, U!TypeOK
    <3> HIDE DEF state
    <3>4. /\ Append(truth, state)[now + 1] = state
          /\ \A i \in 1..now : Append(truth, state)[i] = truth[i]
      BY <3>1, <3>3, AppendProperties
    <3>5. truth' = Append(truth, state)
      BY <2>1 DEF state
    <3>6. CASE t = now
      BY <1>2, <2>1, <3>2, <3>4, <3>5, <3>6 DEF UsageInv
    <3>7. CASE t # now
      <4>1. t \in 0..(now - 1) /\ t + 1 \in 1..now
        BY <1>2, <2>1, <3>7
      <4> QED BY <2>1, <3>4, <3>5, <4>1 DEF UsageInv
    <3> QED BY <3>6, <3>7
  <2> QED BY <1>1, <2>3, <2>6, <2>7, <2>8 DEF UsageInv
<1>9. CASE UNCHANGED usageVars
  <2>1. UNCHANGED <<now, log, told, truth, switch, owner>>
    BY <1>9 DEF usageVars
  <2>2. fresh' = fresh /\ linked' = linked
    BY <1>9 DEF usageVars
  <2>3. fresh => linked /\ owner = "ours" /\ told = switch
    BY DEF UsageInv
  <2>4. fresh' => linked' /\ owner' = "ours" /\ told' = switch'
    BY <2>1, <2>2, <2>3
  <2> QED BY <1>3, <2>1, <2>4
<1> QED BY <1>4, <1>5, <1>6, <1>7, <1>8, <1>9 DEF U!Next

-----------------------------------------------------------------------------
(* Of these parts, MCSpec is what their modules say, whichever part moves. *)

ConfigInv == part = "config" => HInv
EditingInv == part = "schedules" => EInv
TickingInv == part = "ticks" => TicksInv

LEMMA HStays ==
    ASSUME HInv, UNCHANGED hwVars
    PROVE  HInv'
<1> USE DEF hwVars
<1>1. RowsTyped' BY DEF HInv, RowsTyped
<1>2. StepsTyped' BY DEF HInv, StepsTyped, BodyFits, BoardTyped
<1>3. DeletedInv' /\ SocketInv' BY DEF HInv, DeletedInv, SocketInv
<1>4. CalmInv'
  BY DEF HInv, CalmInv, OneBusy, H!Started, PushCurrent, SeenCurrent, WillPush, LastCurrent, H!Behaves
<1> QED BY <1>1, <1>2, <1>3, <1>4 DEF HInv

CascadingInv == part = "cascade" => CascadeInv

LEMMA ConfigHolds == MCSpec => []ConfigInv
<1>1. MCInit => ConfigInv
  BY HInit, PartsAssumption DEF MCInit, ConfigInv
<1>2. ConfigInv /\ [MCNext]_allVars => ConfigInv'
  <2>1. [MCNext]_allVars =>
          part' = part /\ (part = "config" => H!Next \/ UNCHANGED hwVars)
    BY DEF MCNext, allVars
  <2> HIDE DEF HInv
  <2> QED BY <2>1, HNext, HStays, PartsAssumption DEF ConfigInv
<1> QED BY <1>1, <1>2, PTL DEF MCSpec

LEMMA EditingHolds == MCSpec => []EditingInv
<1>1. MCInit => EditingInv
  BY EInit, PartsAssumption DEF MCInit, EditingInv
<1>2. EditingInv /\ [MCNext]_allVars => EditingInv'
  <2>1. [MCNext]_allVars =>
          part' = part /\ (part = "schedules" => [E!Next]_editingVars)
    BY DEF MCNext, allVars
  <2> HIDE DEF EInv
  <2> QED BY <2>1, ENext, PartsAssumption DEF EditingInv
<1> QED BY <1>1, <1>2, PTL DEF MCSpec

LEMMA TickingHolds == MCSpec => []TickingInv
<1>1. MCInit => TickingInv
  BY TicksInit, PartsAssumption DEF MCInit, TickingInv
<1>2. TickingInv /\ [MCNext]_allVars => TickingInv'
  <2>1. [MCNext]_allVars =>
          part' = part /\ (part = "ticks" => [K!Next]_tickVars)
    BY DEF MCNext, allVars
  <2> HIDE DEF TicksInv
  <2> QED BY <2>1, TicksNext, PartsAssumption DEF TickingInv
<1> QED BY <1>1, <1>2, PTL DEF MCSpec

LEMMA CascadingHolds == MCSpec => []CascadingInv
<1>1. MCInit => CascadingInv
  BY CascadeInit, PartsAssumption DEF MCInit, CascadingInv
<1>2. CascadingInv /\ [MCNext]_allVars => CascadingInv'
  <2>1. [MCNext]_allVars => part' = part /\ (part = "cascade" => [C!Next]_cascadeVars)
    BY DEF MCNext, allVars
  <2> HIDE DEF CascadeInv
  <2> QED BY <2>1, CascadeNext, PartsAssumption DEF CascadingInv
<1> QED BY <1>1, <1>2, PTL DEF MCSpec

LEMMA UsageAlwaysHolds == MCSpec => []UsageHolds
<1>1. MCInit => UsageHolds
  BY UsageInit, PartsAssumption DEF MCInit, UsageHolds
<1>2. UsageHolds /\ [MCNext]_allVars => UsageHolds'
  <2>1. [MCNext]_allVars => part' = part /\ (part = "usage" => [U!Next]_usageVars)
    BY DEF MCNext, allVars
  <2> HIDE DEF UsageInv
  <2> QED BY <2>1, UsageNext, PartsAssumption DEF UsageHolds
<1> QED BY <1>1, <1>2, PTL DEF MCSpec

\* The rows, what the handlers have read of them, the frames and the board's copy keep their types.
THEOREM ConfigTypeCorrect == MCSpec => [](part = "config" => H!TypeOK)
<1>1. ConfigInv => (part = "config" => H!TypeOK)
  BY HHolds DEF ConfigInv
<1> QED BY <1>1, ConfigHolds, PTL

\* The rows, the copy shown, the mutations and what is owed to the user keep their types.
THEOREM EditingTypeCorrect == MCSpec => [](part = "schedules" => E!TypeOK)
<1>1. EditingInv => (part = "schedules" => E!TypeOK)
  BY EHolds, PartsAssumption DEF EditingInv
<1> QED BY <1>1, EditingHolds, PTL

\* The log of the switch and what was told of it keep their types.
THEOREM UsageTypeCorrect == MCSpec => [](part = "usage" => U!TypeOK)
<1>1. UsageHolds => (part = "usage" => U!TypeOK)
  BY DEF UsageHolds, UsageInv
<1> QED BY <1>1, UsageAlwaysHolds, PTL

\* Whatever was turned, lost, replayed or claimed, and in every zone that changes its offset by
\* day or as MidnightsFound says, getUsage gives each local day just those of its hours in which
\* the switch was on as far as we were told, for any length of the day, log and number of days.
THEOREM UsageIsCounted == MCSpec => []OnTimeCounted
<1>1. UsageHolds => OnTimeCounted
  BY UsageCounts, PartsAssumption DEF UsageHolds, OnTimeCounted
<1> QED BY <1>1, UsageAlwaysHolds, PTL

\* Handlers that do not overlap leave the board with the stored interlock and input modes
\* (pushHardwareConfig after each write, and on connect), for any channels, requests and bodies.
THEOREM CalmIsCurrent == MCSpec => []CalmMeansCurrent
<1>1. ConfigInv => CalmMeansCurrent
  BY HHolds DEF ConfigInv, CalmMeansCurrent
<1> QED BY <1>1, ConfigHolds, PTL

\* Whatever handlers overlap, the merge of updateSettings stores both coordinates or neither, and
\* no seeding on connect brings back a switch that a user deleted.
THEOREM RowsAreSound == MCSpec => []RowsSound
<1>1. ConfigInv => RowsSound
  BY HHolds DEF ConfigInv, RowsSound
<1> QED BY <1>1, ConfigHolds, PTL

\* Optimistic switches, rollbacks of the whole copy and cancelled requests never leave a dashboard
\* at rest with less than it confirmed to its user, for any number of schedules and changes.
THEOREM OwnChangesAreShown == MCSpec => []ShowsOwnChanges
<1>1. EditingInv => ShowsOwnChanges
  BY EHolds, PartsAssumption DEF EditingInv, ShowsOwnChanges
<1> QED BY <1>1, EditingHolds, PTL

\* The row, the ticks and what was fired keep their types.
THEOREM TicksTypeCorrect == MCSpec => [](part = "ticks" => K!TypeOK)
<1>1. TickingInv => (part = "ticks" => K!TypeOK)
  BY TicksHold, PartsAssumption DEF TickingInv
<1> QED BY <1>1, TickingHolds, PTL

\* However ticks overlap, retry, are cut off and cross midnights and edits, one whose SELECT came
\* after an occurrence was recorded does not fire it again, for any days, windows and number of ticks.
THEOREM FiresAreNotRepeated == MCSpec => []RecordedNotRepeated
<1>1. TickingInv => RecordedNotRepeated
  BY TicksHold, PartsAssumption DEF TickingInv, RecordedNotRepeated
<1> QED BY <1>1, TickingHolds, PTL

\* The device, the echoes, the notes, the commands and the evaluations keep their types.
THEOREM CascadeTypeCorrect == MCSpec => [](part = "cascade" => C!TypeOK)
<1>1. CascadingInv => (part = "cascade" => C!TypeOK)
  BY CascadeHolds, PartsAssumption DEF CascadingInv
<1> QED BY <1>1, CascadingHolds, PTL

\* What attribution.js and engine.js hand on is the true ancestry of every evaluation, as long as every
\* echo has found the note of a command with its own: so no automation fires in its own cascade and
\* none deeper than the limit, for any automations, channels, limit, commands and failures.
THEOREM LoopsAreRefused == MCSpec => []LoopsRefused
<1>1. CascadingInv => LoopsRefused
  BY CascadeHolds, PartsAssumption DEF CascadingInv, LoopsRefused
<1> QED BY <1>1, CascadingHolds, PTL
=============================================================================
