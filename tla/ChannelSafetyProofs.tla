-------------------------- MODULE ChannelSafetyProofs --------------------------
(* ClockTrusted and MinOffKept, for any times and any number of commands.   *)
(* ClockTrusted speaks of states with no report under way only; what leads  *)
(* there is that the reports under way, read after what is cached, end in   *)
(* the relay's state, and that they are a change at all whenever the relay  *)
(* has turned since state_since was set.                                    *)
EXTENDS ChannelSafety, TLAPS

\* The last report issued, or what is cached when none is under way.
Newest ==
    IF wire # <<>> THEN wire[Len(wire)]
    ELSE IF upserts # <<>> THEN upserts[Len(upserts)] ELSE cached

\* No report under way says anything new.
NothingNew ==
    /\ \A i \in 1..Len(wire) : wire[i] = cached
    /\ \A i \in 1..Len(upserts) : upserts[i] = cached

NewestIsTrue == ~missed => Newest = relay

NewsOrTrust == ~missed /\ NothingNew => sinceAge <= age

QuietOffline == ~online => wire = <<>>

IInv == TypeOK /\ NewestIsTrue /\ NewsOrTrust /\ QuietOffline

LEMMA MaxAgeNat == MaxAge \in Nat /\ MaxAge >= MinOff
BY TimesAssumption DEF MaxAge

LEMMA RemoveAtType ==
    ASSUME NEW u \in Seq(States), NEW i \in 1..Len(u)
    PROVE  RemoveAt(u, i) \in Seq(States)
BY DEF RemoveAt

LEMMA RemoveAtFirst ==
    ASSUME NEW u \in Seq(States), u # <<>>
    PROVE  /\ Len(RemoveAt(u, 1)) = Len(u) - 1
           /\ \A j \in 1..Len(u) - 1 : RemoveAt(u, 1)[j] = u[j + 1]
<1> DEFINE t == SubSeq(u, 2, Len(u))
<1>1. SubSeq(u, 1, 0) = <<>>
  OBVIOUS
<1>2. t \in Seq(States) /\ Len(t) = Len(u) - 1 /\ \A j \in 1..Len(u) - 1 : t[j] = u[j + 1]
  <2>1. Len(u) \in Nat /\ Len(u) # 0 /\ \A j \in 1..Len(u) : u[j] \in States
    OBVIOUS
  <2>2. Len(t) = Len(u) - 1
    <3>1. CASE Len(u) = 1
      BY <3>1
    <3>2. CASE Len(u) > 1
      BY <3>2
    <3>3. \A n \in Nat : n # 0 => n = 1 \/ n > 1
      OBVIOUS
    <3> QED BY <2>1, <3>1, <3>2, <3>3
  <2>3. \A j \in 1..Len(u) - 1 : t[j] = u[j + 1]
    BY <2>1
  <2>4. t \in Seq(States)
    BY <2>1
  <2> QED BY <2>2, <2>3, <2>4
<1>3. RemoveAt(u, 1) = <<>> \o t
  BY <1>1 DEF RemoveAt
<1> QED BY <1>2, <1>3

LEMMA InitIInv == Init => IInv
<1> SUFFICES ASSUME Init PROVE IInv
  OBVIOUS
<1>1. TypeOK
  <2>1. command \in [Commands -> [pc : {"idle", "checked", "done"}, state : States]]
    BY DEF Init
  <2>2. wire \in Seq(States) /\ upserts \in Seq(States)
    BY DEF Init
  <2>3. age \in 0..MaxAge /\ sinceAge \in 0..MaxAge /\ lastAge \in 0..Cooldown
        /\ mishaps \in 0..MaxMishaps
    BY MaxAgeNat, TimesAssumption DEF Init
  <2>4. /\ online \in BOOLEAN /\ locked \in BOOLEAN /\ inFlight \in BOOLEAN
        /\ missed \in BOOLEAN /\ overtaken \in BOOLEAN
    BY DEF Init
  <2>5. relay \in States /\ cached \in States /\ tick \in {"idle", "selected", "try", "sleep"}
    BY DEF Init, States
  <2> QED BY <2>1, <2>2, <2>3, <2>4, <2>5 DEF TypeOK
<1>2. NewestIsTrue /\ NewsOrTrust /\ QuietOffline
  BY MaxAgeNat DEF Init, NewestIsTrue, NewsOrTrust, QuietOffline, Newest
<1> QED BY <1>1, <1>2 DEF IInv

\* The one step several actions share: the relay is set and reported.
LEMMA SetStateKeeps ==
    ASSUME IInv, NEW s \in States, SetState(s), UNCHANGED <<online, cache>>
    PROVE  /\ relay' \in States /\ age' \in 0..MaxAge /\ wire' \in Seq(States)
           /\ missed' \in BOOLEAN
           /\ NewestIsTrue' /\ NewsOrTrust' /\ QuietOffline'
<1> USE DEF IInv, TypeOK, cache
<1>1. relay' \in States /\ age' \in 0..MaxAge /\ wire' \in Seq(States) /\ missed' \in BOOLEAN
  BY MaxAgeNat DEF SetState
<1>2. QuietOffline'
  BY DEF SetState, QuietOffline
<1>3. CASE online
  <2>1. /\ wire' = Append(wire, s) /\ wire' # <<>> /\ Len(wire') = Len(wire) + 1
        /\ wire'[Len(wire')] = s /\ \A i \in 1..Len(wire) : wire'[i] = wire[i]
    <3>1. wire' = Append(wire, s)
      BY <1>3 DEF SetState
    <3> QED BY <3>1
  <2>2. NewestIsTrue'
    BY <2>1 DEF SetState, NewestIsTrue, Newest
  <2>3. NewsOrTrust'
    <3> SUFFICES ASSUME ~missed', NothingNew' PROVE sinceAge' <= age'
      BY DEF NewsOrTrust
    <3>1. ~missed /\ NothingNew /\ s = cached
      BY <2>1, <1>3 DEF SetState, NothingNew
    <3>2. Newest = cached
      BY <3>1 DEF Newest, NothingNew
    <3>3. s = relay
      BY <3>1, <3>2 DEF NewestIsTrue
    <3> QED BY <3>1, <3>3 DEF SetState, NewsOrTrust
  <2> QED BY <1>1, <1>2, <2>2, <2>3
<1>4. CASE ~online
  <2>1. ~missed' => ~missed /\ s = relay
    BY <1>4 DEF SetState
  <2>2. wire' = wire
    BY <1>4 DEF SetState
  <2> QED
    BY <1>1, <1>2, <2>1, <2>2 DEF SetState, NewestIsTrue, NewsOrTrust, Newest, NothingNew
<1> QED BY <1>3, <1>4

\* One step per action; those that touch neither the relay nor its reports
\* nor the cache need the types only.
LEMMA NextIInv == IInv /\ [Next]_vars => IInv'
<1> SUFFICES ASSUME IInv, [Next]_vars PROVE IInv'
  OBVIOUS
<1> USE DEF IInv, device, cache, scheduler, history
<1>1. CASE Clock
  <2>1. TypeOK'
    BY <1>1, MaxAgeNat, TimesAssumption DEF Clock, TypeOK, Older
  <2>2. NewestIsTrue' /\ QuietOffline'
    BY <1>1 DEF Clock, NewestIsTrue, QuietOffline, Newest
  <2>3. sinceAge <= age => sinceAge' <= age'
    BY <1>1, MaxAgeNat DEF Clock, TypeOK, Older
  <2> QED BY <1>1, <2>1, <2>2, <2>3 DEF Clock, NewsOrTrust, NothingNew
<1>2. CASE Press
  <2>1. PICK s \in States : SetState(s)
    BY <1>2 DEF Press, States
  <2>2. mishaps' \in 0..MaxMishaps
    BY <1>2, TimesAssumption DEF Press, Mishap, TypeOK
  <2> QED BY <1>2, <2>1, <2>2, SetStateKeeps DEF Press, TypeOK
<1>3. CASE Disconnect
  <2>1. mishaps' \in 0..MaxMishaps /\ wire' = <<>> /\ wire' \in Seq(States)
    BY <1>3, TimesAssumption DEF Disconnect, Mishap, TypeOK
  <2>2. missed' \in BOOLEAN /\ (~missed' => ~missed /\ wire = <<>>)
    BY <1>3 DEF Disconnect, TypeOK
  <2> QED
    BY <1>3, <2>1, <2>2 DEF Disconnect, TypeOK, NewestIsTrue, NewsOrTrust, QuietOffline, Newest,
         NothingNew
<1>4. CASE Reconnect
  <2>1. wire = <<>> /\ wire' = <<relay>>
    BY <1>4 DEF Reconnect, QuietOffline
  <2>2. TypeOK'
    BY <1>4, <2>1 DEF Reconnect, TypeOK
  <2>3. NewestIsTrue' /\ QuietOffline'
    BY <1>4, <2>1 DEF Reconnect, NewestIsTrue, QuietOffline, Newest
  <2>4. NothingNew' => NothingNew
    BY <1>4, <2>1 DEF Reconnect, NothingNew
  <2> QED BY <1>4, <2>2, <2>3, <2>4 DEF Reconnect, NewsOrTrust
<1>5. CASE HandleFrame
  <2> DEFINE s == Head(wire)
  <2>1. /\ wire # <<>> /\ s \in States /\ s = wire[1]
        /\ upserts' = Append(upserts, s) /\ wire' = Tail(wire)
        /\ wire' \in Seq(States) /\ upserts' \in Seq(States)
    BY <1>5 DEF HandleFrame, TypeOK
  <2>2. /\ Len(upserts') = Len(upserts) + 1 /\ upserts'[Len(upserts')] = s
        /\ \A i \in 1..Len(upserts) : upserts'[i] = upserts[i]
        /\ Len(wire') = Len(wire) - 1
        /\ \A i \in 1..Len(wire) - 1 : wire'[i] = wire[i + 1]
        /\ upserts' # <<>> /\ (wire' = <<>> <=> Len(wire) = 1)
    <3>1. upserts \in Seq(States) /\ wire \in Seq(States)
      BY DEF TypeOK
    <3>2. /\ Len(Append(upserts, s)) = Len(upserts) + 1
          /\ Append(upserts, s)[Len(upserts) + 1] = s
          /\ \A i \in 1..Len(upserts) : Append(upserts, s)[i] = upserts[i]
      BY <2>1, <3>1
    <3>3. /\ Len(Tail(wire)) = Len(wire) - 1
          /\ \A i \in 1..Len(wire) - 1 : Tail(wire)[i] = wire[i + 1]
      BY <2>1, <3>1
    <3> QED BY <2>1, <3>1, <3>2, <3>3
  <2>3. TypeOK'
    BY <1>5, <2>1 DEF HandleFrame, TypeOK
  <2>4. Newest' = Newest
    BY <1>5, <2>1, <2>2 DEF HandleFrame, TypeOK, Newest
  <2>5. NothingNew' => NothingNew
    <3> SUFFICES ASSUME NothingNew' PROVE NothingNew
      OBVIOUS
    <3>1. \A i \in 1..Len(upserts) : upserts[i] = cached
      BY <1>5, <2>2 DEF HandleFrame, TypeOK, NothingNew
    <3>2. s = cached
      BY <1>5, <2>2 DEF HandleFrame, TypeOK, NothingNew
    <3>3. \A i \in 1..Len(wire) : wire[i] = cached
      <4> TAKE i \in 1..Len(wire)
      <4>1. CASE i = 1
        BY <3>2, <4>1, <2>1
      <4>2. CASE i # 1
        <5>1. i - 1 \in 1..Len(wire) - 1 /\ wire'[i - 1] = wire[i]
          BY <4>2, <2>2 DEF TypeOK
        <5> QED BY <5>1, <2>2, <1>5 DEF HandleFrame, NothingNew
      <4> QED BY <4>1, <4>2
    <3> QED BY <3>1, <3>3 DEF NothingNew
  <2> QED
    BY <1>5, <2>1, <2>3, <2>4, <2>5 DEF HandleFrame, NewestIsTrue, NewsOrTrust, QuietOffline
<1>6. ASSUME NEW i \in 1..Len(upserts), RecordStateChange(i) PROVE IInv'
  <2> DEFINE s == upserts[i]
  <2>1. s \in States /\ upserts # <<>> /\ upserts' \in Seq(States)
    BY <1>6, RemoveAtType DEF RecordStateChange, TypeOK
  <2>2. TypeOK'
    <3>1. cached' \in States /\ sinceAge' \in 0..MaxAge
      BY <1>6, <2>1, MaxAgeNat DEF RecordStateChange, StateSince, TypeOK
    <3>2. missed' \in BOOLEAN /\ overtaken' \in BOOLEAN
      BY <1>6 DEF RecordStateChange, TypeOK
    <3> QED BY <1>6, <2>1, <3>1, <3>2 DEF RecordStateChange, TypeOK
  <2>3. QuietOffline'
    BY <1>6 DEF RecordStateChange, QuietOffline
  <2>4. CASE missed'
    BY <2>2, <2>3, <2>4 DEF NewestIsTrue, NewsOrTrust
  \* The report put the cache right: it was the only one.
  <2>5. CASE ~missed' /\ s # cached /\ Len(upserts) = 1 /\ wire = <<>> /\ s = relay
    <3>1. upserts' = <<>> /\ wire' = <<>> /\ cached' = relay /\ sinceAge' = 0 /\ relay' = relay
          /\ age' = age
      <4>1. i = 1
        BY <2>5
      <4>2. Len(upserts') = 0
        BY <1>6, <4>1, <2>1, <2>5, RemoveAtFirst DEF RecordStateChange, TypeOK
      <4> QED BY <1>6, <2>1, <2>5, <4>2 DEF RecordStateChange, StateSince
    <3> QED BY <2>2, <2>3, <3>1 DEF NewestIsTrue, NewsOrTrust, Newest, TypeOK
  \* Else it was the oldest one, and the next in order.
  <2>6. CASE ~missed' /\ ~(s # cached /\ Len(upserts) = 1 /\ wire = <<>> /\ s = relay)
    <3>1. ~missed /\ i = 1
      <4>1. missed' = (missed \/ i > 1)
        BY <1>6, <2>6 DEF RecordStateChange
      <4>2. ~missed /\ ~(i > 1)
        BY <4>1, <2>6
      <4> QED BY <4>2
    <3>2. /\ Len(upserts') = Len(upserts) - 1
          /\ \A j \in 1..Len(upserts) - 1 : upserts'[j] = upserts[j + 1]
      BY <1>6, <2>1, <3>1, RemoveAtFirst DEF RecordStateChange, TypeOK
    <3>3. Newest' = Newest
      BY <1>6, <2>1, <3>1, <3>2 DEF RecordStateChange, StateSince, Newest, TypeOK
    <3>4. NewestIsTrue'
      BY <1>6, <3>1, <3>3 DEF RecordStateChange, NewestIsTrue
    <3>5. CASE s # cached
      <4>1. sinceAge' = 0 /\ age' \in 0..MaxAge
        BY <1>6, <2>2, <3>5 DEF RecordStateChange, StateSince, TypeOK
      <4>2. sinceAge' <= age'
        BY <4>1, MaxAgeNat
      <4> QED BY <2>2, <2>3, <3>4, <4>2 DEF NewsOrTrust
    <3>6. CASE s = cached
      <4>1. cached' = cached /\ sinceAge' = sinceAge /\ wire' = wire /\ age' = age
        BY <1>6, <3>6 DEF RecordStateChange, StateSince
      <4>2. NothingNew' => NothingNew
        <5> SUFFICES ASSUME NothingNew' PROVE NothingNew
          OBVIOUS
        <5>1. \A j \in 1..Len(upserts) : upserts[j] = cached
          <6> TAKE j \in 1..Len(upserts)
          <6>1. CASE j = 1
            BY <3>1, <3>6, <6>1
          <6>2. CASE j # 1
            <7>1. j - 1 \in 1..Len(upserts) - 1 /\ upserts'[j - 1] = upserts[j]
              BY <6>2, <3>2 DEF TypeOK
            <7> QED BY <7>1, <3>2, <4>1 DEF NothingNew
          <6> QED BY <6>1, <6>2
        <5> QED BY <4>1, <5>1 DEF NothingNew
      <4> QED BY <2>2, <2>3, <3>1, <3>4, <4>1, <4>2 DEF NewsOrTrust
    <3> QED BY <3>5, <3>6
  <2> QED BY <1>6, <2>4, <2>5, <2>6, <2>2 DEF RecordStateChange, TypeOK
<1>7. CASE UpsertSwitch
  BY <1>7 DEF UpsertSwitch, TypeOK, NewestIsTrue, NewsOrTrust, QuietOffline, Newest, NothingNew
<1>8. ASSUME NEW c \in Commands, CheckChannelCommand(c) PROVE IInv'
  BY <1>8 DEF CheckChannelCommand, Goto, TypeOK, NewestIsTrue, NewsOrTrust, QuietOffline, Newest,
       NothingNew
<1>9. ASSUME NEW c \in Commands, RelayCommand(c) PROVE IInv'
  <2>1. command[c].state \in States /\ command' \in [Commands -> [pc : {"idle", "checked", "done"}, state : States]]
    BY <1>9 DEF RelayCommand, Goto, TypeOK
  <2>2. CASE SetState(command[c].state) /\ UNCHANGED mishaps
    BY <1>9, <2>1, <2>2, SetStateKeeps DEF RelayCommand, TypeOK
  <2>3. CASE UNCHANGED <<device, missed>> /\ mishaps' \in 0..MaxMishaps
    BY <1>9, <2>1, <2>3 DEF RelayCommand, TypeOK, NewestIsTrue, NewsOrTrust, QuietOffline, Newest,
         NothingNew
  <2>4. mishaps' \in 0..MaxMishaps
    BY <1>9, TimesAssumption DEF RelayCommand, Mishap, TypeOK
  <2> QED BY <1>9, <2>2, <2>3, <2>4 DEF RelayCommand
<1>10. CASE RunTick
  BY <1>10 DEF RunTick, TypeOK, NewestIsTrue, NewsOrTrust, QuietOffline, Newest, NothingNew
<1>11. CASE FireDue
  BY <1>11, TimesAssumption DEF FireDue, TypeOK, NewestIsTrue, NewsOrTrust, QuietOffline, Newest,
       NothingNew
<1>12. CASE TurnOffOnce
  <2>1. tick' \in {"idle", "sleep"} /\ inFlight' \in BOOLEAN /\ lastAge' \in 0..Cooldown
    <3>1. FireSafetyOff(TRUE) \/ FireSafetyOff(FALSE)
      BY <1>12 DEF TurnOffOnce
    <3>2. CASE FireSafetyOff(TRUE)
      <4>1. tick' = "idle" /\ inFlight' = FALSE /\ lastAge' = 0
        BY <3>2 DEF FireSafetyOff
      <4>2. lastAge' \in 0..Cooldown
        BY <4>1, TimesAssumption
      <4> QED BY <4>1, <4>2
    <3>3. CASE FireSafetyOff(FALSE)
      <4>1. \/ tick' = "idle" /\ inFlight' = FALSE /\ lastAge' = 0
            \/ tick' = "sleep" /\ inFlight' = inFlight /\ lastAge' = lastAge
        BY <3>3 DEF FireSafetyOff
      <4>2. lastAge' \in 0..Cooldown
        BY <4>1, TimesAssumption DEF TypeOK
      <4>3. inFlight \in BOOLEAN
        BY DEF TypeOK
      <4> QED BY <4>1, <4>2, <4>3
    <3> QED BY <3>1, <3>2, <3>3
  <2>2. mishaps' \in 0..MaxMishaps
    <3>1. mishaps' = mishaps \/ Mishap
      BY <1>12 DEF TurnOffOnce
    <3> QED BY <3>1, TimesAssumption DEF Mishap, TypeOK
  <2>3. CASE SetState("OFF")
    <3>1. "OFF" \in States
      BY DEF States
    <3> QED BY <1>12, <2>1, <2>2, <2>3, <3>1, SetStateKeeps DEF TurnOffOnce, TypeOK
  <2>4. CASE UNCHANGED <<device, missed>>
    BY <1>12, <2>1, <2>2, <2>4 DEF TurnOffOnce, TypeOK, NewestIsTrue, NewsOrTrust, QuietOffline,
         Newest, NothingNew
  <2> QED BY <1>12, <2>3, <2>4 DEF TurnOffOnce
<1>13. CASE Restart
  <2>1. TypeOK'
    <3>1. command' \in [Commands -> [pc : {"idle", "checked", "done"}, state : States]]
      BY <1>13 DEF Restart, TypeOK
    <3>2. mishaps' \in 0..MaxMishaps /\ lastAge' \in 0..Cooldown
      BY <1>13, TimesAssumption DEF Restart, Mishap, TypeOK
    <3>3. missed' \in BOOLEAN /\ wire' \in Seq(States) /\ upserts' \in Seq(States)
      BY <1>13 DEF Restart, TypeOK
    <3> QED BY <1>13, <3>1, <3>2, <3>3 DEF Restart, TypeOK
  <2> QED BY <1>13, <2>1 DEF Restart, NewestIsTrue, NewsOrTrust, QuietOffline, Newest, NothingNew
<1>14. CASE UNCHANGED vars
  BY <1>14 DEF vars, TypeOK, NewestIsTrue, NewsOrTrust, QuietOffline, Newest, NothingNew
<1> QED
  BY <1>1, <1>2, <1>3, <1>4, <1>5, <1>6, <1>7, <1>8, <1>9, <1>10, <1>11, <1>12, <1>13, <1>14
  DEF Next, Device, Report, Safety

THEOREM Invariance == Spec => []IInv
BY InitIInv, NextIInv, PTL DEF Spec

\* The relay, the cache, the commands and the scheduler keep their types.
THEOREM TypeCorrect == Spec => []TypeOK
<1>1. IInv => TypeOK
  BY DEF IInv
<1> QED BY <1>1, Invariance, PTL

\* state_since is never older than the change it stands for.
LEMMA TrustedWhenSettled == IInv => ClockTrusted
BY DEF IInv, NewsOrTrust, NothingNew, ClockTrusted, Settled

THEOREM TrustsTheClock == Spec => []ClockTrusted
BY TrustedWhenSettled, Invariance, PTL

\* With all reports in, no remote ON is let through before the relay has been
\* OFF for min_off_s.
THEOREM MinOffIsKept == Spec => MinOffKept
<1> DEFINE Kept == \A c \in Commands :
         /\ command[c] = [pc |-> "idle", state |-> "ON"] /\ command'[c].pc = "checked"
         /\ Settled /\ relay = "OFF"
         => age >= MinOff
<1>1. ASSUME IInv, Next PROVE Kept
  <2> SUFFICES ASSUME NEW c \in Commands, command[c] = [pc |-> "idle", state |-> "ON"],
                      command'[c].pc = "checked", Settled, relay = "OFF"
               PROVE  age >= MinOff
    OBVIOUS
  <2> USE DEF IInv, TypeOK
  <2>1. command[c].pc = "idle" /\ command[c].state = "ON" /\ command'[c] # command[c]
    OBVIOUS
  \* Only its own check moves an idle command there.
  <2>2. CheckChannelCommand(c)
    <3>1. ASSUME NEW d \in Commands, CheckChannelCommand(d) \/ RelayCommand(d)
          PROVE  CheckChannelCommand(c)
      <4>1. CASE d = c
        BY <3>1, <2>1, <4>1 DEF RelayCommand
      <4>2. CASE d # c
        <5>1. \E pc : command' = [command EXCEPT ![d].pc = pc]
          BY <3>1 DEF CheckChannelCommand, RelayCommand, Goto
        <5>2. command'[c] = command[c]
          BY <4>2, <5>1
        <5> QED BY <2>1, <5>2
      <4> QED BY <4>1, <4>2
    <3>2. CASE Restart
      BY <3>2, <2>1 DEF Restart
    <3> QED
      BY <1>1, <2>1, <3>1, <3>2 DEF Next, Clock, Device, Press, Disconnect, Reconnect, Report,
           HandleFrame, RecordStateChange, UpsertSwitch, Safety, RunTick, FireDue, TurnOffOnce
  <2>3. sinceAge >= MinOff
    <3>1. command' = [command EXCEPT
                        ![c].pc = IF ~online \/ Blocks("ON") THEN "done" ELSE "checked"]
      BY <2>1, <2>2 DEF CheckChannelCommand, Goto
    <3>2. command'[c].pc = IF ~online \/ Blocks("ON") THEN "done" ELSE "checked"
      BY <3>1
    <3>3. ~Blocks("ON") /\ cached = "OFF"
      BY <3>2 DEF Settled
    <3>4. ~(sinceAge < MinOff)
      BY <3>3 DEF Blocks
    <3> QED BY <1>1, <3>4, TimesAssumption, MaxAgeNat
  <2> QED BY <1>1, <2>3, TrustedWhenSettled, TimesAssumption, MaxAgeNat DEF ClockTrusted
<1>2. IInv /\ [Next]_vars => [Kept]_vars
  BY <1>1
<1> QED BY <1>2, Invariance, PTL DEF Spec, MinOffKept
=============================================================================
