---------------------------- MODULE AccountsProofs ----------------------------
(* What is claimed of the four kinds of request of MCAccounts, for any number *)
(* of users, households, devices, keys, hooks, lists and requests.  First the *)
(* devices table (DeviceOwnership), which is proved of its own specification; *)
(* then users and households (Accounts), groups and automations (SavedLists)  *)
(* and API keys (PublicApi), whose steps are those of MCSpec.                 *)
EXTENDS MCAccounts, Naturals, FiniteSetTheorems, TLAPS

-----------------------------------------------------------------------------
(* The devices table.                                                      *)

\* Once the SELECT has found the row it stays, and every attempt under way has
\* seen the secret it holds now.
RowSeen ==
    /\ \A a \in Attempts : pc[a] \in {"adopt", "repair", "revalidate", "mark"} => exists
    /\ \A a \in Attempts : pc[a] \in Running /\ exists => secret \in held[a]

\* A claimed device has a row, and a row that is not there holds no secret.
RowThere == ~exists => household = NoHousehold /\ secret = NullSecret

\* An attempt that is let in, or about to be, presented one of those secrets.
MatchSeen == \A a \in Attempts : pc[a] \in {"mark", "accepted"} => presented[a] \in held[a]

IInv == TypeOK /\ RowSeen /\ RowThere /\ MatchSeen

LEMMA InitIInv == Init => IInv
BY NullsAssumption DEF Init, IInv, TypeOK, RowSeen, RowThere, MatchSeen, Running

\* A statement that stores the presented secret and lets the attempt in.
LEMMA StoredAndAccepted ==
    ASSUME IInv, NEW a \in Attempts, pc[a] \in Running,
           pc' = [pc EXCEPT ![a] = "accepted"], SetSecret(presented[a]), exists' = TRUE,
           UNCHANGED <<household, presented, removal>>
    PROVE  IInv'
<1> USE DEF IInv, TypeOK
<1>1. TypeOK'
  <2>1. held' \in [Attempts -> SUBSET (Secrets \cup {NullSecret})]
    BY DEF SetSecret
  <2>2. pc' \in [Attempts -> Running \cup {"idle", "accepted", "rejected"}]
    OBVIOUS
  <2> QED BY <2>1, <2>2 DEF SetSecret
<1>2. \A b \in Attempts : b # a => pc'[b] = pc[b]
  OBVIOUS
<1>3. pc'[a] = "accepted"
  OBVIOUS
<1>4. \A b \in Attempts : pc[b] \in Running => held'[b] = held[b] \cup {secret'}
  BY DEF SetSecret
<1>5. \A b \in Attempts : held[b] \subseteq held'[b]
  BY DEF SetSecret
<1>6. RowSeen'
  BY <1>2, <1>3, <1>4 DEF RowSeen, Running
<1>7. MatchSeen'
  <2>1. presented'[a] \in held'[a]
    BY <1>4 DEF SetSecret
  <2> QED BY <2>1, <1>2, <1>5 DEF MatchSeen
<1> QED BY <1>1, <1>6, <1>7 DEF RowThere

\* One step per statement of authenticateDevice.
LEMMA AuthenticateIInv ==
    ASSUME IInv, NEW a \in Attempts, Authenticate(a)
    PROVE  IInv'
<1> USE DEF IInv, TypeOK, RowSeen, RowThere, MatchSeen, Running, row
<1>1. ASSUME NEW s \in Secrets, AuthFrame(a, s) PROVE IInv'
  BY <1>1 DEF AuthFrame, Step
<1>2. CASE SelectRow(a)
  BY <1>2 DEF SelectRow, Step
<1>3. CASE InsertRow(a)
  <2>1. CASE ~exists
    <3>1. /\ pc[a] = "insert" /\ pc' = [pc EXCEPT ![a] = "accepted"]
          /\ SetSecret(presented[a]) /\ exists' = TRUE
          /\ UNCHANGED <<household, presented, removal>>
      BY <1>3, <2>1 DEF InsertRow, Step
    <3> QED BY <3>1, StoredAndAccepted
  <2>2. CASE exists
    BY <1>3, <2>2 DEF InsertRow, Step
  <2> QED BY <2>1, <2>2
<1>4. CASE AdoptSecret(a)
  <2>1. CASE secret = NullSecret
    <3>1. /\ pc[a] = "adopt" /\ pc' = [pc EXCEPT ![a] = "accepted"]
          /\ SetSecret(presented[a]) /\ exists' = TRUE
          /\ UNCHANGED <<household, presented, removal>>
      BY <1>4, <2>1 DEF AdoptSecret, Step
    <3> QED BY <3>1, StoredAndAccepted
  <2>2. CASE secret # NullSecret
    BY <1>4, <2>2 DEF AdoptSecret, Step
  <2> QED BY <2>1, <2>2
<1>5. CASE RepairUnclaimed(a)
  <2>1. CASE household = NoHousehold
    <3>1. /\ pc[a] = "repair" /\ pc' = [pc EXCEPT ![a] = "accepted"]
          /\ SetSecret(presented[a]) /\ exists' = TRUE
          /\ UNCHANGED <<household, presented, removal>>
      BY <1>5, <2>1 DEF RepairUnclaimed, Step
    <3> QED BY <3>1, StoredAndAccepted
  <2>2. CASE household # NoHousehold
    BY <1>5, <2>2 DEF RepairUnclaimed, Step
  <2> QED BY <2>1, <2>2
<1>6. CASE Revalidate(a)
  BY <1>6 DEF Revalidate, Step
<1>7. CASE MarkExistingDeviceOnline(a)
  BY <1>7 DEF MarkExistingDeviceOnline, Step
<1> QED BY <1>1, <1>2, <1>3, <1>4, <1>5, <1>6, <1>7 DEF Authenticate

\* One step per request that changes the row from outside.
LEMMA AdministerIInv == IInv /\ Administer => IInv'
<1> SUFFICES ASSUME IInv, Administer PROVE IInv'
  OBVIOUS
<1> USE DEF IInv, TypeOK, RowSeen, RowThere, MatchSeen, Running, row
<1>1. ASSUME NEW h \in Households, NEW s \in Secrets, Claim(h, s) PROVE IInv'
  BY <1>1 DEF Claim, SetSecret
<1>2. ASSUME NEW r \in Removals, CheckRemoval(r) PROVE IInv'
  BY <1>2 DEF CheckRemoval
<1>3. ASSUME NEW r \in Removals, Unclaim(r) PROVE IInv'
  BY <1>3 DEF Unclaim
<1>4. CASE AdminUnclaim
  BY <1>4 DEF AdminUnclaim
<1>5. ASSUME NEW h \in Households, Reassign(h) PROVE IInv'
  BY <1>5 DEF Reassign
<1>6. CASE ResetSecret
  BY <1>6 DEF ResetSecret, SetSecret
<1> QED BY <1>1, <1>2, <1>3, <1>4, <1>5, <1>6 DEF Administer

LEMMA NextIInv == IInv /\ [Next]_vars => IInv'
<1>1. IInv /\ Next => IInv'
  BY AuthenticateIInv, AdministerIInv DEF Next
<1>2. IInv /\ UNCHANGED vars => IInv'
  BY DEF IInv, TypeOK, RowSeen, RowThere, MatchSeen, vars
<1> QED BY <1>1, <1>2

THEOREM Invariance == Spec => []IInv
BY InitIInv, NextIInv, PTL DEF Spec

\* The row, the attempts and the requests keep their types.
THEOREM TypeCorrect == Spec => []TypeOK
<1>1. IInv => TypeOK
  BY DEF IInv
<1> QED BY <1>1, Invariance, PTL

\* A connection is let in only with a secret the row held while it
\* authenticated (ws/deviceServer.js, authenticateDevice).
THEOREM AcceptedHeldTheSecret == Spec => []AcceptedSecretWasHeld
<1>1. IInv => AcceptedSecretWasHeld
  BY DEF IInv, MatchSeen, AcceptedSecretWasHeld
<1> QED BY <1>1, Invariance, PTL

\* No statement of an authentication, a claim or an unclaim, in any order,
\* overwrites the secret of a claimed device.
THEOREM ClaimNeverOverwritten == Spec => ClaimedSecretKept
<1> DEFINE Kept == household # NoHousehold =>
                     secret' = secret \/ secret = NullSecret \/ secret' = NullSecret
<1>1. ASSUME IInv, Next PROVE Kept
  <2> SUFFICES ASSUME household # NoHousehold PROVE Kept
    OBVIOUS
  <2>1. ASSUME NEW a \in Attempts, Authenticate(a) PROVE Kept
    <3>1. CASE InsertRow(a)
      \* Only an unclaimed row can be missing.
      <4>1. CASE exists
        BY <3>1, <4>1 DEF InsertRow
      <4>2. CASE ~exists
        BY <4>2, <1>1 DEF IInv, RowThere
      <4> QED BY <4>1, <4>2
    <3>2. CASE ~InsertRow(a)
      BY <2>1, <3>2 DEF Authenticate, AuthFrame, SelectRow, AdoptSecret, RepairUnclaimed,
           Revalidate, MarkExistingDeviceOnline, SetSecret, row
    <3> QED BY <3>1, <3>2
  <2>2. CASE Administer
    BY <2>2, <1>1 DEF IInv, RowThere, Administer, Claim, CheckRemoval, Unclaim,
         AdminUnclaim, Reassign, ResetSecret, SetSecret, row
  <2> QED BY <1>1, <2>1, <2>2 DEF Next
<1>2. IInv /\ [Next]_vars => [Kept]_vars
  BY <1>1
<1> QED BY <1>2, Invariance, PTL DEF Spec, ClaimedSecretKept

-----------------------------------------------------------------------------
(* Users, households and invites.                                          *)

\* Whatever is locked is there.
RowsThere(rows) ==
    /\ \A u \in Users : A!UserRow(u) \in rows => u \in users
    /\ \A h \in Users : A!HomeRow(h) \in rows => h \in homes
    /\ \A h \in Users, u \in Users : A!MemberRow(h, u) \in rows => u \in members[h]
    /\ \A i \in A!Invites : A!InviteRow(i) \in rows => i \in invites

\* Nothing is locked and nothing of a deletion decided.
Plain(q) == q.rows = {} /\ q.got = {} /\ q.doomed = {} /\ q.heirs = {}

\* The active admins it saw are locked in order, those that are still users.
InOrder(q) ==
    /\ q.op # "enable" /\ q.doomed = {} /\ q.heirs = {}
    /\ q.todo \subseteq q.seen /\ q.seen \cap unborn = {}
    /\ \A locked \in q.rows : \E a \in q.seen \ q.todo : locked = A!UserRow(a)
    /\ \A a \in q.seen \ q.todo : a \in users => A!UserRow(a) \in q.rows
    /\ \A a \in q.todo, b \in q.seen \ q.todo : b < a
    /\ q.step # "lock" => q.todo = {}

\* What a deletion has decided stays true: whoever it found alone in a
\* household still is, and those it found to inherit are still members.
Settled(q) ==
    /\ q.got # {q.who}
    /\ q.step \in {"homes", "doors"} => q.doomed = {} /\ q.heirs = {}
    /\ \A h \in q.doomed :
           /\ A!HomeRow(h) \in q.rows /\ members[h] \subseteq {q.who}
           /\ \A i \in invites : i.home = h => A!InviteRow(i) \in q.rows
    /\ \A h \in Users, b \in Users : <<h, b>> \in q.heirs => A!MemberRow(h, b) \in q.rows
    /\ q.step \in {"read", "settle"} => \A h \in q.todo : A!HomeRow(h) \in q.rows
    /\ q.step = "settle" =>
           /\ A!HomeRow(q.home) \in q.rows
           /\ q.others = {} => members[q.home] \subseteq {q.who} /\ q.heir = {}

Progress(q) ==
    \/ /\ q.step \in {"new", "done", "admins", "look", "insert", "answer", "cancel", "remove"}
       /\ Plain(q) /\ (q.step = "admins" => q.op # "enable")
    \/ q.step = "write" /\ q.op = "enable" /\ Plain(q)
    \/ /\ q.step = "join" /\ q.got = {} /\ q.doomed = {} /\ q.heirs = {}
       /\ q.rows = {A!InviteRow([home |-> q.home, to |-> q.who, by |-> q.by])}
    \/ q.step \in {"lock", "target", "write"} /\ InOrder(q)
    \/ q.step \in {"homes", "doors", "read", "settle", "erase"} /\ Settled(q)

Fits(q) ==
    /\ RowsThere(q.rows)
    /\ \A a \in q.got : a \in A!ActiveAdmins /\ A!UserRow(a) \in q.rows
    /\ Progress(q)

\* No row is locked twice.
LocksApart == \A r \in Requests : \A t \in Requests \ {r} : req[r].rows \cap req[t].rows = {}

PeopleInv == A!TypeOK /\ LocksApart /\ \A r \in Requests : Fits(req[r])

TablesOK ==
    /\ unborn \subseteq Users /\ users \subseteq Users \ unborn
    /\ admin \subseteq users /\ disabled \subseteq users
    /\ homes \subseteq Users \ unborn
    /\ members \in [Users -> SUBSET users] /\ owners \in [Users -> SUBSET users]
    /\ \A h \in Users : owners[h] \subseteq members[h] /\ (h \notin homes => members[h] = {})
    /\ invites \subseteq A!Invites
    /\ \A i \in invites : i.home \in homes /\ i.to \in users /\ i.by \in users

\* A step leaves what others have locked as they found it.
Kept(rows) ==
    /\ \A u \in Users : A!UserRow(u) \in rows =>
           u \in users' /\ (u \in admin \ disabled => u \in admin' \ disabled')
    /\ \A h \in Users : A!HomeRow(h) \in rows =>
           /\ h \in homes' /\ members'[h] \subseteq members[h]
           /\ \A i \in invites' : i.home = h => i \in invites
    /\ \A h \in Users, u \in Users : A!MemberRow(h, u) \in rows => u \in members'[h]
    /\ \A i \in A!Invites : A!InviteRow(i) \in rows => i \in invites'

Grown == unborn' \subseteq unborn /\ users' \subseteq users \cup unborn

LEMMA TypedSteps ==
    ASSUME NEW q \in A!Request, NEW step \in A!Steps, NEW S \in SUBSET Users, NEW R \in SUBSET A!Rows
    PROVE  /\ [q EXCEPT !.step = step] \in A!Request
           /\ [q EXCEPT !.step = step, !.rows = R] \in A!Request
           /\ [q EXCEPT !.step = step, !.todo = S] \in A!Request
           /\ [q EXCEPT !.step = step, !.todo = S, !.seen = S] \in A!Request
           /\ [q EXCEPT !.todo = S, !.rows = R] \in A!Request
BY DEF A!Request

LEMMA TypedLock ==
    ASSUME NEW q \in A!Request, NEW S \in SUBSET Users, NEW T \in SUBSET Users, NEW R \in SUBSET A!Rows
    PROVE  [q EXCEPT !.todo = S, !.got = T, !.rows = R] \in A!Request
BY DEF A!Request

LEMMA TypedRead ==
    ASSUME NEW q \in A!Request, NEW S \in SUBSET Users, NEW h \in Users, NEW O \in SUBSET Users, NEW H \in SUBSET Users
    PROVE  [q EXCEPT !.step = "settle", !.todo = S, !.home = h, !.others = O, !.heir = H] \in A!Request
<1>1. "settle" \in A!Steps
  BY DEF A!Steps
<1> QED BY <1>1 DEF A!Request

LEMMA TypedSettle ==
    ASSUME NEW q \in A!Request, NEW D \in SUBSET Users, NEW H \in SUBSET (Users \X Users), NEW R \in SUBSET A!Rows
    PROVE  [q EXCEPT !.step = "read", !.doomed = D, !.heirs = H, !.rows = R] \in A!Request
<1>1. "read" \in A!Steps
  BY DEF A!Steps
<1> QED BY <1>1 DEF A!Request

LEMMA TypedNew ==
    ASSUME NEW ask \in A!Ops, NEW step \in A!Steps, NEW u \in Users, NEW who \in Users, NEW h \in Users, NEW by \in Users
    PROVE  A!Asked(ask, step, u, who, h, by) \in A!Request
BY DEF A!Request, A!Asked

LEMMA TypeIs == A!TypeOK <=> TablesOK /\ req \in [Requests -> A!Request]
BY DEF A!TypeOK, TablesOK

LEMMA RowsDiffer ==
    /\ \A u, v : A!UserRow(u) = A!UserRow(v) => u = v
    /\ \A u, v : A!HomeRow(u) = A!HomeRow(v) => u = v
    /\ \A u, v : A!InviteRow(u) = A!InviteRow(v) => u = v
    /\ \A h, u, g, v : A!MemberRow(h, u) = A!MemberRow(g, v) => h = g /\ u = v
    /\ \A u, v : A!UserRow(u) # A!HomeRow(v) /\ A!UserRow(u) # A!InviteRow(v) /\ A!HomeRow(u) # A!InviteRow(v)
    /\ \A h, u, v : A!MemberRow(h, u) # A!UserRow(v) /\ A!MemberRow(h, u) # A!HomeRow(v) /\ A!MemberRow(h, u) # A!InviteRow(v)
BY DEF A!UserRow, A!HomeRow, A!InviteRow, A!MemberRow

LEMMA RowsAreRows ==
    /\ \A u \in Users : A!UserRow(u) \in A!Rows /\ A!HomeRow(u) \in A!Rows
    /\ \A h \in Users, u \in Users : A!MemberRow(h, u) \in A!Rows
    /\ \A i \in A!Invites : A!InviteRow(i) \in A!Rows
BY DEF A!Rows

LEMMA FitsStays ==
    ASSUME NEW q \in A!Request, Fits(q), Kept(q.rows), Grown
    PROVE  Fits(q)'
<1>1. /\ q.got \subseteq Users /\ q.seen \subseteq Users /\ q.doomed \subseteq Users /\ q.todo \subseteq Users
      /\ q.home \in Users
  BY DEF A!Request
<1>2. RowsThere(q.rows)'
  BY DEF RowsThere, Kept
<1>3. \A a \in q.got : a \in A!ActiveAdmins' /\ A!UserRow(a) \in q.rows
  BY <1>1 DEF Fits, Kept, A!ActiveAdmins
<1>4. InOrder(q) => InOrder(q)'
  BY <1>1 DEF InOrder, Grown
<1>5. Settled(q) => Settled(q)'
  BY <1>1 DEF Settled, Kept
<1>6. Progress(q)'
  BY <1>4, <1>5 DEF Fits, Progress, Plain
<1> QED BY <1>2, <1>3, <1>6 DEF Fits

LEMMA SameRequest ==
    ASSUME NEW r, NEW q, req'[r] = q, Fits(q)'
    PROVE  Fits(req[r])'
BY DEF Fits, RowsThere, Progress, Plain, InOrder, Settled

LEMMA OtherFits ==
    ASSUME PeopleInv, Grown, NEW t \in Requests, req'[t] = req[t], Kept(req[t].rows)
    PROVE  Fits(req[t])'
<1>1. req[t] \in A!Request /\ Fits(req[t])
  BY DEF PeopleInv, A!TypeOK
<1>2. \A q \in A!Request : Fits(q) /\ Kept(q.rows) => Fits(q)'
  BY FitsStays
<1>3. PICK q : q = req[t]
  OBVIOUS
<1>4. Fits(q)'
  BY <1>1, <1>2, <1>3
<1> QED BY <1>3, <1>4, SameRequest

LEMMA ReqMoves ==
    ASSUME PeopleInv, TablesOK', Grown, NEW r \in Requests, NEW p \in A!Request,
           req' = [req EXCEPT ![r] = p], Fits(p)',
           \A t \in Requests \ {r} : Kept(req[t].rows) /\ p.rows \cap req[t].rows = {}
    PROVE  PeopleInv'
<1>1. /\ req \in [Requests -> A!Request] /\ req'[r] = p
      /\ req' \in [Requests -> A!Request] /\ \A t \in Requests \ {r} : req'[t] = req[t]
  BY DEF PeopleInv, A!TypeOK
<1>2. A!TypeOK'
  BY <1>1 DEF A!TypeOK, TablesOK
<1>3. LocksApart'
  BY <1>1 DEF PeopleInv, LocksApart
<1>4. ASSUME NEW t \in Requests PROVE Fits(req[t])'
  <2>1. CASE t = r
    BY <1>1, <2>1, SameRequest
  <2>2. CASE t # r
    BY <1>1, <2>2, OtherFits
  <2> QED BY <2>1, <2>2
<1> QED BY <1>2, <1>3, <1>4 DEF PeopleInv

\* Nobody else has locked what a statement that may run needs.
LEMMA Free ==
    ASSUME NEW r \in Requests, A!Granted(r), NEW t \in Requests \ {r}
    PROVE  A!Needs(r) \cap req[t].rows = {}
BY DEF A!Granted, A!Waits

LEMMA KeptAsIs ==
    ASSUME NEW rows, RowsThere(rows), UNCHANGED A!tables
    PROVE  Kept(rows)
BY DEF RowsThere, Kept, A!tables, A!people, A!house

\* A statement that reads and locks.
LEMMA Reads ==
    ASSUME PeopleInv, UNCHANGED A!tables, NEW r \in Requests, A!Granted(r), NEW p \in A!Request,
           req' = [req EXCEPT ![r] = p], Fits(p), p.rows \subseteq req[r].rows \cup A!Needs(r)
    PROVE  PeopleInv'
<1>1. TablesOK' /\ Grown
  BY DEF PeopleInv, A!TypeOK, TablesOK, Grown, A!tables, A!people, A!house
<1>2. Fits(p)'
  <2>1. Kept(p.rows)
    BY KeptAsIs DEF Fits
  <2> QED BY <1>1, <2>1, FitsStays
<1>3. ASSUME NEW t \in Requests \ {r} PROVE Kept(req[t].rows) /\ p.rows \cap req[t].rows = {}
  <2>1. RowsThere(req[t].rows) /\ req[r].rows \cap req[t].rows = {}
    BY DEF PeopleInv, Fits, LocksApart
  <2>2. A!Needs(r) \cap req[t].rows = {}
    BY Free
  <2> QED BY <2>1, <2>2, KeptAsIs
<1> QED BY <1>1, <1>2, <1>3, ReqMoves

LEMMA OffTyped ==
    ASSUME NEW step \in {"new", "done"}
    PROVE  /\ A!Off(step) \in A!Request /\ A!Off(step).step = step /\ A!Off(step).op = "none"
           /\ Plain(A!Off(step))
<1>1. (CHOOSE u \in Users : TRUE) \in Users
  BY PartsAssumption DEF A!StartAssumption
<1>2. "none" \in A!Ops /\ step \in A!Steps
  BY DEF A!Ops, A!Steps
<1> DEFINE u == CHOOSE u \in Users : TRUE
<1>3. A!Off(step) = A!Asked("none", step, u, u, u, u)
  BY DEF A!Off
<1> HIDE DEF u
<1>4. A!Asked("none", step, u, u, u, u) \in A!Request
  BY <1>1, <1>2, TypedNew DEF u
<1>5. LET q == A!Asked("none", step, u, u, u, u) IN q.step = step /\ q.op = "none" /\ Plain(q)
  BY DEF A!Asked, Plain
<1> QED BY <1>3, <1>4, <1>5

LEMMA PlainFits ==
    ASSUME NEW q, Plain(q),
           q.step \in {"new", "done", "admins", "look", "insert", "answer", "cancel", "remove"} \/ (q.step = "write" /\ q.op = "enable"),
           q.step = "admins" => q.op # "enable"
    PROVE  Fits(q)
BY DEF Plain, Fits, Progress, RowsThere

\* A transaction commits.
LEMMA Ends ==
    ASSUME PeopleInv, TablesOK', Grown, NEW r \in Requests, A!Done(r),
           \A t \in Requests \ {r} : Kept(req[t].rows)
    PROVE  PeopleInv'
<1>1. PICK p \in A!Request : p = A!Off("done")
  BY OffTyped
<1>2. req' = [req EXCEPT ![r] = p] /\ Plain(p) /\ p.step = "done"
  BY <1>1, OffTyped DEF A!Done, A!Then
<1>3. Fits(p)'
  BY <1>2 DEF Plain, Fits, Progress, RowsThere
<1>4. \A t \in Requests \ {r} : p.rows \cap req[t].rows = {}
  BY <1>2 DEF Plain
<1> QED BY <1>2, <1>3, <1>4, ReqMoves

LEMMA GivesUp ==
    ASSUME PeopleInv, NEW r \in Requests, A!Done(r), UNCHANGED A!tables
    PROVE  PeopleInv'
<1>1. TablesOK' /\ Grown
  BY DEF PeopleInv, A!TypeOK, TablesOK, Grown, A!tables, A!people, A!house
<1>2. ASSUME NEW t \in Requests \ {r} PROVE Kept(req[t].rows)
  BY KeptAsIs DEF PeopleInv, Fits
<1> QED BY <1>1, <1>2, Ends

\* What is known of a request.
LEMMA RequestIs ==
    ASSUME PeopleInv, NEW r \in Requests
    PROVE  /\ req[r] \in A!Request /\ Fits(req[r]) /\ TablesOK /\ A!Invite(r) \in A!Invites
           /\ RowsThere(req[r].rows) /\ Progress(req[r])
           /\ req[r].who \in Users /\ req[r].home \in Users /\ req[r].by \in Users
<1>1. req[r] \in A!Request /\ Fits(req[r]) /\ TablesOK
  BY TypeIs DEF PeopleInv
<1>2. req[r].who \in Users /\ req[r].home \in Users /\ req[r].by \in Users
  BY <1>1 DEF A!Request
<1>3. A!Invite(r) \in A!Invites
  BY <1>2 DEF A!Invite, A!Invites
<1> QED BY <1>1, <1>2, <1>3 DEF Fits

LEMMA NeedsAre ==
    ASSUME NEW r
    PROVE  /\ req[r].step = "lock" => A!Needs(r) = {A!UserRow(a) : a \in A!NextRow(r)}
           /\ req[r].step = "write" => A!Needs(r) = {A!UserRow(req[r].who)}
           /\ req[r].step = "target" /\ A!ByAdmin(r) => A!Needs(r) = {A!UserRow(req[r].who)}
           /\ req[r].step = "doors" => A!Needs(r) = {A!HomeRow(h) : h \in A!NextRow(r)}
           /\ req[r].step = "settle" /\ req[r].others = {} =>
                  A!Needs(r) = {A!InviteRow(i) : i \in A!InvitesOf(req[r].home)}
           /\ req[r].step = "settle" /\ req[r].others # {} =>
                  A!Needs(r) = {A!MemberRow(req[r].home, b) : b \in req[r].heir}
           /\ req[r].step = "erase" =>
                  A!Needs(r) = {A!UserRow(req[r].who)} \cup {A!MemberRow(h, req[r].who) : h \in Users}
                                   \cup {A!InviteRow(i) : i \in A!InvitesWith(req[r].who)}
           /\ req[r].step = "insert" =>
                  A!Needs(r) = {A!HomeRow(req[r].home), A!UserRow(req[r].who), A!UserRow(req[r].by)}
           /\ req[r].step \in {"answer", "cancel"} => A!Needs(r) = {A!InviteRow(A!Invite(r))}
           /\ req[r].step = "join" => A!Needs(r) = {A!HomeRow(req[r].home), A!UserRow(req[r].who)}
           /\ req[r].step = "remove" => A!Needs(r) = {A!MemberRow(req[r].home, req[r].who)}
BY DEF A!Needs

\* The simple steps: only the step of the request changes.
LEMMA StepOnly ==
    ASSUME PeopleInv, UNCHANGED A!tables, NEW r \in Requests, A!Granted(r), NEW step \in A!Steps,
           A!Then(r, [req[r] EXCEPT !.step = step]),
           \/ req[r].step = "look" /\ step = "insert"
           \/ req[r].step = "lock" /\ req[r].todo = {} /\ step \in {"target", "write"}
           \/ req[r].step = "read" /\ step = "erase"
    PROVE  PeopleInv'
<1> DEFINE q == [req[r] EXCEPT !.step = step]
<1>1. req[r] \in A!Request /\ Fits(req[r])
  BY RequestIs
<1>2. q \in A!Request
  BY <1>1, TypedSteps
<1>3. /\ q.step = step /\ q.op = req[r].op /\ q.who = req[r].who /\ q.todo = req[r].todo /\ q.seen = req[r].seen
      /\ q.got = req[r].got /\ q.doomed = req[r].doomed /\ q.heirs = req[r].heirs /\ q.rows = req[r].rows
  BY <1>1 DEF A!Request
<1>4. req' = [req EXCEPT ![r] = q]
  BY DEF A!Then
<1> HIDE DEF q
<1>5. Progress(q)
  BY <1>1, <1>3 DEF Fits, Progress, Plain, InOrder, Settled
<1>6. Fits(q) /\ q.rows \subseteq req[r].rows \cup A!Needs(r)
  BY <1>1, <1>3, <1>5 DEF Fits
<1> QED BY <1>2, <1>4, <1>6, Reads

\* A request starts.
LEMMA AsksKeep ==
    ASSUME PeopleInv, NEW r \in A!Upcoming, NEW u \in Users,
           A!AskHousehold(r, u) \/ A!AskAdmin(r, u) \/ A!AskDelete(r, u)
    PROVE  PeopleInv'
<1>1. r \in Requests /\ req[r].step = "new" /\ TablesOK
  <2>1. r \in Requests /\ Requests \subseteq Nat
    BY PartsAssumption DEF A!Upcoming, A!StartAssumption
  <2>2. req[r].step = "new"
    BY <2>1 DEF A!Upcoming
  <2> QED BY <2>1, <2>2, RequestIs
<1>2. PICK ask \in A!Ops :
         \E step \in {"look", "answer", "cancel", "remove", "admins", "write"}, who \in Users, h \in Users, by \in Users :
             /\ A!Ask(r, u, ask, step, who, h, by)
             /\ (step = "write" => ask = "enable") /\ (step = "admins" => ask # "enable")
  <2>1. CASE A!AskHousehold(r, u)
    <3>1. homes \subseteq Users /\ users \subseteq Users /\ (\A h \in homes : members[h] \subseteq Users)
          /\ \A i \in invites : i.home \in Users /\ i.to \in Users /\ i.by \in Users
      BY <1>1 DEF TablesOK
    <3>2. \A ask \in {"invite", "accept", "decline", "cancel", "remove"} : ask \in A!Ops /\ ask # "enable"
      BY DEF A!Ops
    <3> QED BY <2>1, <3>1, <3>2 DEF A!AskHousehold
  <2>2. CASE A!AskAdmin(r, u)
    <3>1. \A ask \in {"disable", "promote", "demote", "delete"} : ask \in A!Ops /\ ask # "enable"
      BY DEF A!Ops
    <3>2. "enable" \in A!Ops
      BY DEF A!Ops
    <3> QED BY <2>2, <3>1, <3>2 DEF A!AskAdmin
  <2>3. CASE A!AskDelete(r, u)
    BY <2>3 DEF A!AskDelete, A!Ops
  <2> QED BY <2>1, <2>2, <2>3
<1>3. PICK step \in {"look", "answer", "cancel", "remove", "admins", "write"} :
         \E who \in Users, h \in Users, by \in Users :
             /\ A!Ask(r, u, ask, step, who, h, by)
             /\ (step = "write" => ask = "enable") /\ (step = "admins" => ask # "enable")
  BY <1>2
<1>4. PICK who \in Users : \E h \in Users, by \in Users :
             /\ A!Ask(r, u, ask, step, who, h, by)
             /\ (step = "write" => ask = "enable") /\ (step = "admins" => ask # "enable")
  BY <1>3
<1>5. PICK h \in Users : \E by \in Users :
             /\ A!Ask(r, u, ask, step, who, h, by)
             /\ (step = "write" => ask = "enable") /\ (step = "admins" => ask # "enable")
  BY <1>4
<1>6. PICK by \in Users :
             /\ A!Ask(r, u, ask, step, who, h, by)
             /\ (step = "write" => ask = "enable") /\ (step = "admins" => ask # "enable")
  BY <1>5
<1> DEFINE q == A!Asked(ask, step, u, who, h, by)
<1>7. q \in A!Request
  BY TypedNew DEF A!Steps
<1>8. q.step = step /\ q.op = ask /\ Plain(q)
  BY DEF A!Asked, Plain
<1>9. req' = [req EXCEPT ![r] = q] /\ UNCHANGED A!tables
  BY <1>6 DEF A!Ask
<1> HIDE DEF q
<1>10. Fits(q)
  BY <1>6, <1>8, PlainFits
<1>11. A!Needs(r) = {} /\ q.rows = {}
  BY <1>1, <1>8 DEF A!Needs, Plain
<1>12. Fits(q)' /\ TablesOK' /\ Grown
  <2>1. Fits(q)'
    BY <1>6, <1>8 DEF Plain, Fits, Progress, RowsThere
  <2> QED BY <1>1, <1>9, <2>1 DEF TablesOK, Grown, A!tables, A!people, A!house
<1>13. ASSUME NEW t \in Requests \ {r} PROVE Kept(req[t].rows) /\ q.rows \cap req[t].rows = {}
  BY <1>9, <1>11, KeptAsIs DEF PeopleInv, Fits
<1> QED BY <1>1, <1>7, <1>9, <1>12, <1>13, ReqMoves

\* The statements of the household requests.
LEMMA LookKeeps ==
    ASSUME PeopleInv, NEW r \in Requests, A!LookForMember(r)
    PROVE  PeopleInv'
<1>1. req[r].step = "look" /\ A!Granted(r) /\ UNCHANGED A!tables /\ "insert" \in A!Steps
  BY DEF A!LookForMember, A!At, A!Steps
<1>2. A!Done(r) \/ A!Then(r, [req[r] EXCEPT !.step = "insert"])
  BY DEF A!LookForMember
<1> QED BY <1>1, <1>2, GivesUp, StepOnly

LEMMA InsertKeeps ==
    ASSUME PeopleInv, NEW r \in Requests, A!InsertInvite(r)
    PROVE  PeopleInv'
<1> DEFINE i == A!Invite(r)
<1>1. /\ req[r].step = "insert" /\ A!Granted(r) /\ A!Done(r)
      /\ UNCHANGED <<unborn, users, admin, disabled, homes, members, owners>>
      /\ invites' = invites \/ (invites' = invites \cup {i} /\ i.home \in homes /\ i.to \in users /\ i.by \in users)
  BY DEF A!InsertInvite, A!At, A!people
<1>2. i \in A!Invites /\ i.home = req[r].home /\ TablesOK
  BY RequestIs DEF A!Invite
<1> HIDE DEF i
<1>3. TablesOK' /\ Grown
  BY <1>1, <1>2 DEF TablesOK, Grown
<1>4. ASSUME NEW t \in Requests \ {r} PROVE Kept(req[t].rows)
  <2>1. RowsThere(req[t].rows)
    BY RequestIs
  <2>2. A!HomeRow(i.home) \notin req[t].rows
    BY <1>1, <1>2, Free, NeedsAre
  <2> QED BY <1>1, <2>1, <2>2 DEF Kept, RowsThere
<1> QED BY <1>1, <1>3, <1>4, Ends

LEMMA AnswerKeeps ==
    ASSUME PeopleInv, NEW r \in Requests, A!AnswerInvite(r) \/ A!CancelInvite(r)
    PROVE  PeopleInv'
<1> DEFINE i == A!Invite(r)
<1>1. /\ req[r].step \in {"answer", "cancel"} /\ A!Granted(r)
      /\ UNCHANGED <<unborn, users, admin, disabled, homes, members, owners>>
  BY DEF A!AnswerInvite, A!CancelInvite, A!At, A!people
<1>2. i \in A!Invites /\ TablesOK /\ req[r] \in A!Request /\ Progress(req[r])
  BY RequestIs
<1>3. CASE A!Done(r) /\ invites' = invites \ {i}
  <2>1. TablesOK' /\ Grown
    BY <1>1, <1>2, <1>3 DEF TablesOK, Grown
  <2>2. ASSUME NEW t \in Requests \ {r} PROVE Kept(req[t].rows)
    <3>1. RowsThere(req[t].rows)
      BY RequestIs
    <3>2. A!InviteRow(i) \notin req[t].rows
      BY <1>1, <1>2, Free, NeedsAre
    <3> QED BY <1>1, <1>3, <3>1, <3>2 DEF Kept, RowsThere
  <2> QED BY <1>3, <2>1, <2>2, Ends
<1>4. CASE ~(A!Done(r) /\ invites' = invites \ {i})
  <2> DEFINE q == [req[r] EXCEPT !.step = "join", !.rows = {A!InviteRow(i)}]
  <2>1. /\ req[r].step = "answer" /\ i \in invites /\ invites' = invites
        /\ req' = [req EXCEPT ![r] = q]
    BY <1>4 DEF A!AnswerInvite, A!CancelInvite, A!At, A!Then
  <2>2. q \in A!Request
    <3>1. "join" \in A!Steps /\ {A!InviteRow(i)} \in SUBSET A!Rows
      BY <1>2, RowsAreRows DEF A!Steps
    <3> QED BY <1>2, <3>1, TypedSteps
  <2>3. /\ q.step = "join" /\ q.rows = {A!InviteRow(i)} /\ q.got = req[r].got /\ q.doomed = req[r].doomed
        /\ q.heirs = req[r].heirs /\ q.home = req[r].home /\ q.who = req[r].who /\ q.by = req[r].by
    BY <1>2 DEF A!Request
  <2>4. i = [home |-> q.home, to |-> q.who, by |-> q.by]
    BY <2>3 DEF A!Invite
  <2> HIDE DEF q, i
  <2>5. Progress(q) /\ q.got = {}
    BY <1>2, <2>1, <2>3, <2>4 DEF Progress, Plain
  <2>6. RowsThere(q.rows)
    BY <2>1, <2>3, RowsDiffer DEF RowsThere
  <2>7. q.rows = A!Needs(r)
    BY <2>1, <2>3, NeedsAre DEF i
  <2>8. Fits(q)
    BY <2>5, <2>6 DEF Fits
  <2> QED BY <1>1, <2>1, <2>2, <2>7, <2>8, Reads DEF A!tables, A!people, A!house
<1> QED BY <1>3, <1>4

LEMMA JoinKeeps ==
    ASSUME PeopleInv, NEW r \in Requests, A!JoinHome(r)
    PROVE  PeopleInv'
<1> DEFINE i == A!Invite(r)
           h == req[r].home
           v == req[r].who
<1>1. /\ req[r].step = "join" /\ A!Granted(r) /\ A!Done(r) /\ invites' = invites \ {i}
      /\ members' = [members EXCEPT ![h] = @ \cup {v}]
      /\ UNCHANGED <<unborn, users, admin, disabled, homes, owners>>
  BY DEF A!JoinHome, A!At, A!people
<1>2. i \in A!Invites /\ i.home = h /\ i.to = v /\ h \in Users /\ v \in Users /\ TablesOK
  BY RequestIs DEF A!Invite
<1>3. req[r].rows = {A!InviteRow(i)} /\ RowsThere(req[r].rows)
  <2>1. Progress(req[r]) /\ RowsThere(req[r].rows)
    BY RequestIs
  <2> QED BY <1>1, <2>1 DEF Progress, A!Invite
<1> HIDE DEF i, h, v
<1>4. i \in invites
  BY <1>2, <1>3 DEF RowsThere
<1>5. h \in homes /\ v \in users
  BY <1>2, <1>4 DEF TablesOK
<1>6. TablesOK' /\ Grown
  BY <1>1, <1>2, <1>5 DEF TablesOK, Grown
<1>7. ASSUME NEW t \in Requests \ {r} PROVE Kept(req[t].rows)
  <2>1. RowsThere(req[t].rows) /\ req[r].rows \cap req[t].rows = {}
    BY RequestIs DEF PeopleInv, LocksApart
  <2>2. A!HomeRow(h) \notin req[t].rows /\ A!InviteRow(i) \notin req[t].rows
    BY <1>1, <1>3, <2>1, Free, NeedsAre DEF h
  <2> QED BY <1>1, <1>2, <2>1, <2>2 DEF Kept, RowsThere, TablesOK
<1> QED BY <1>1, <1>6, <1>7, Ends

LEMMA RemoveKeeps ==
    ASSUME PeopleInv, NEW r \in Requests, A!RemoveMember(r)
    PROVE  PeopleInv'
<1> DEFINE h == req[r].home
           v == req[r].who
<1>1. /\ req[r].step = "remove" /\ A!Granted(r) /\ A!Done(r)
      /\ \/ members' = members /\ owners' = owners
         \/ members' = [members EXCEPT ![h] = @ \ {v}] /\ owners' = [owners EXCEPT ![h] = @ \ {v}]
      /\ UNCHANGED <<unborn, users, admin, disabled, homes, invites>>
  BY DEF A!RemoveMember, A!At, A!people
<1>2. h \in Users /\ v \in Users /\ TablesOK
  BY RequestIs
<1>3. \A t \in Requests \ {r} : A!MemberRow(h, v) \notin req[t].rows
  BY <1>1, Free, NeedsAre
<1> HIDE DEF h, v
<1>4. TablesOK' /\ Grown
  BY <1>1, <1>2 DEF TablesOK, Grown
<1>5. ASSUME NEW t \in Requests \ {r} PROVE Kept(req[t].rows)
  <2>1. RowsThere(req[t].rows)
    BY RequestIs
  <2> QED BY <1>1, <1>2, <1>3, <2>1 DEF Kept, RowsThere, TablesOK
<1> QED BY <1>1, <1>4, <1>5, Ends

-----------------------------------------------------------------------------
(* The statements that lock the active admins and then write.              *)

LEMMA SeeAdminsKeeps ==
    ASSUME PeopleInv, NEW r \in Requests, A!SeeAdmins(r)
    PROVE  PeopleInv'
<1> DEFINE q == [req[r] EXCEPT !.step = "lock", !.todo = A!ActiveAdmins, !.seen = A!ActiveAdmins]
<1>1. /\ req[r].step = "admins" /\ A!Granted(r) /\ UNCHANGED A!tables /\ req' = [req EXCEPT ![r] = q]
  BY DEF A!SeeAdmins, A!At, A!Then
<1>2. req[r] \in A!Request /\ Progress(req[r]) /\ TablesOK
  BY RequestIs
<1>3. A!ActiveAdmins \in SUBSET Users /\ A!ActiveAdmins \cap unborn = {}
  BY <1>2 DEF A!ActiveAdmins, TablesOK
<1>4. q \in A!Request
  BY <1>2, <1>3, TypedSteps DEF A!Steps
<1>5. /\ q.step = "lock" /\ q.todo = A!ActiveAdmins /\ q.seen = A!ActiveAdmins /\ q.op = req[r].op
      /\ q.rows = req[r].rows /\ q.got = req[r].got /\ q.doomed = req[r].doomed /\ q.heirs = req[r].heirs
  BY <1>2 DEF A!Request
<1> HIDE DEF q
<1>6. Plain(req[r]) /\ req[r].op # "enable"
  BY <1>1, <1>2 DEF Progress
<1>7. InOrder(q) /\ q.rows = {} /\ q.got = {}
  BY <1>3, <1>5, <1>6 DEF InOrder, Plain
<1>8. Fits(q)
  BY <1>5, <1>7 DEF Fits, Progress, RowsThere
<1> QED BY <1>1, <1>4, <1>7, <1>8, Reads

LEMMA LockAdminKeeps ==
    ASSUME PeopleInv, NEW r \in Requests, A!LockAdmin(r)
    PROVE  PeopleInv'
<1>1. PICK a \in A!NextRow(r) :
         req' = [req EXCEPT ![r] = [req[r] EXCEPT !.todo = @ \ {a}, !.got = @ \cup ({a} \cap A!ActiveAdmins),
                                                  !.rows = @ \cup {A!UserRow(b) : b \in {a} \cap users}]]
  BY DEF A!LockAdmin, A!Then
<1> DEFINE todo == req[r].todo \ {a}
           got == req[r].got \cup ({a} \cap A!ActiveAdmins)
           rows == req[r].rows \cup {A!UserRow(b) : b \in {a} \cap users}
           q == [req[r] EXCEPT !.todo = todo, !.got = got, !.rows = rows]
<1>2. /\ req[r].step = "lock" /\ A!Granted(r) /\ UNCHANGED A!tables /\ req' = [req EXCEPT ![r] = q]
  BY <1>1 DEF A!LockAdmin, A!At
<1>3. req[r] \in A!Request /\ Fits(req[r]) /\ TablesOK /\ RowsThere(req[r].rows)
  BY RequestIs
<1>4. /\ a \in req[r].todo /\ (\A b \in req[r].todo : a <= b) /\ req[r].todo \subseteq Users
      /\ req[r].seen \subseteq Users /\ req[r].rows \subseteq A!Rows /\ req[r].got \subseteq Users
  BY <1>3 DEF A!NextRow, A!Request
<1>5. a \in Nat /\ Users \subseteq Nat
  BY <1>4, PartsAssumption DEF A!StartAssumption
<1>6. todo \in SUBSET Users /\ got \in SUBSET Users /\ rows \in SUBSET A!Rows
  BY <1>4, RowsAreRows
<1>7. q \in A!Request
  <2> HIDE DEF todo, got, rows
  <2> QED BY <1>3, <1>6, TypedLock
<1>8. /\ q.step = "lock" /\ q.todo = todo /\ q.seen = req[r].seen /\ q.op = req[r].op
      /\ q.rows = rows /\ q.got = got /\ q.doomed = req[r].doomed /\ q.heirs = req[r].heirs
  <2> HIDE DEF todo, got, rows
  <2> QED BY <1>2, <1>3 DEF A!Request
<1> HIDE DEF q
<1>9. InOrder(req[r])
  BY <1>2, <1>3 DEF Fits, Progress
<1>10. InOrder(q)
  <2>1. q.todo \subseteq q.seen /\ q.seen \ q.todo = (req[r].seen \ req[r].todo) \cup {a}
    BY <1>4, <1>8, <1>9 DEF InOrder
  <2>2. ASSUME NEW locked \in q.rows PROVE \E b \in q.seen \ q.todo : locked = A!UserRow(b)
    BY <1>8, <1>9, <2>1, <2>2 DEF InOrder
  <2>3. ASSUME NEW b \in q.seen \ q.todo, b \in users PROVE A!UserRow(b) \in q.rows
    BY <1>8, <1>9, <2>1, <2>3 DEF InOrder
  <2>4. ASSUME NEW c \in q.todo, NEW b \in q.seen \ q.todo PROVE b < c
    <3>1. c \in req[r].todo /\ c # a /\ a <= c /\ c \in Nat
      BY <1>4, <1>5, <1>8
    <3>2. b \in req[r].seen \ req[r].todo => b < c
      BY <1>9, <3>1 DEF InOrder
    <3> QED BY <1>5, <2>1, <3>1, <3>2
  <2>5. q.op # "enable" /\ q.doomed = {} /\ q.heirs = {} /\ q.seen \cap unborn = {}
    BY <1>8, <1>9 DEF InOrder
  <2> QED BY <1>8, <2>1, <2>2, <2>3, <2>4, <2>5 DEF InOrder
<1>11. RowsThere(rows)
  BY <1>3, RowsDiffer DEF RowsThere
<1>12. \A b \in got : b \in A!ActiveAdmins /\ A!UserRow(b) \in rows
  BY <1>3 DEF Fits, A!ActiveAdmins, TablesOK
<1>13. rows \subseteq req[r].rows \cup A!Needs(r)
  BY <1>2, NeedsAre
<1>14. Fits(q)
  BY <1>8, <1>10, <1>11, <1>12 DEF Fits, Progress
<1> QED BY <1>2, <1>7, <1>8, <1>13, <1>14, Reads

LEMMA LockedAdminsKeep ==
    ASSUME PeopleInv, NEW r \in Requests, A!LockedAdmins(r)
    PROVE  PeopleInv'
<1> DEFINE step == IF req[r].op = "delete" THEN "target" ELSE "write"
<1>1. /\ req[r].step = "lock" /\ req[r].todo = {} /\ A!Granted(r) /\ UNCHANGED A!tables
      /\ A!Then(r, [req[r] EXCEPT !.step = step])
  BY DEF A!LockedAdmins, A!At
<1>2. step \in A!Steps /\ step \in {"target", "write"}
  BY DEF A!Steps
<1> HIDE DEF step
<1> QED BY <1>1, <1>2, StepOnly

LEMMA WriteKeeps ==
    ASSUME PeopleInv, NEW r \in Requests, A!WriteDisabled(r) \/ A!WriteRole(r)
    PROVE  PeopleInv'
<1> DEFINE v == req[r].who
<1>1. /\ req[r].step = "write" /\ A!Granted(r) /\ A!Done(r)
      /\ admin' \in {admin, admin \cup ({v} \cap users), admin \ {v}}
      /\ disabled' \in {disabled, disabled \ {v}, disabled \cup ({v} \cap users)}
      /\ UNCHANGED <<unborn, users, homes, members, owners, invites>>
  BY DEF A!WriteDisabled, A!WriteRole, A!At, A!house
<1>2. v \in Users /\ TablesOK
  BY RequestIs
<1>3. \A t \in Requests \ {r} : A!UserRow(v) \notin req[t].rows
  BY <1>1, Free, NeedsAre
<1> HIDE DEF v
<1>4. TablesOK' /\ Grown
  BY <1>1, <1>2 DEF TablesOK, Grown
<1>5. ASSUME NEW t \in Requests \ {r} PROVE Kept(req[t].rows)
  <2>1. RowsThere(req[t].rows) /\ A!UserRow(v) \notin req[t].rows
    BY <1>3, RequestIs
  <2>2. ASSUME NEW u \in Users, A!UserRow(u) \in req[t].rows
        PROVE  u \in users' /\ (u \in admin \ disabled => u \in admin' \ disabled')
    <3>1. u # v /\ u \in users
      BY <2>1, <2>2 DEF RowsThere
    <3> QED BY <1>1, <3>1
  <2> QED BY <1>1, <2>1, <2>2 DEF Kept, RowsThere, TablesOK
<1> QED BY <1>1, <1>4, <1>5, Ends

LEMMA CheckKeeps ==
    ASSUME PeopleInv, NEW r \in Requests, A!CheckTarget(r)
    PROVE  PeopleInv'
<1>1. req[r].step = "target" /\ A!Granted(r) /\ UNCHANGED A!tables
  BY DEF A!CheckTarget, A!At
<1>2. CASE A!Done(r)
  BY <1>1, <1>2, GivesUp
<1>3. CASE ~A!Done(r)
  <2> DEFINE rows == IF A!ByAdmin(r) THEN req[r].rows \cup {A!UserRow(req[r].who)} ELSE req[r].rows
             q == [req[r] EXCEPT !.step = "homes", !.rows = rows]
  <2>1. req[r] \in A!Request /\ Fits(req[r]) /\ RowsThere(req[r].rows) /\ req[r].who \in Users
    BY RequestIs
  <2>2. req[r].who \in users /\ req[r].got # {req[r].who} /\ req' = [req EXCEPT ![r] = q]
    BY <1>3 DEF A!CheckTarget, A!LastAdmin, A!Then
  <2>3. rows \in SUBSET A!Rows /\ "homes" \in A!Steps
    BY <2>1, RowsAreRows DEF A!Request, A!Steps
  <2>4. rows \subseteq req[r].rows \cup A!Needs(r) /\ req[r].rows \subseteq rows
    BY <1>1, NeedsAre
  <2>5. RowsThere(rows)
    BY <2>1, <2>2, RowsDiffer DEF RowsThere
  <2> HIDE DEF rows
  <2>6. q \in A!Request
    BY <2>1, <2>3, TypedSteps
  <2>7. /\ q.step = "homes" /\ q.rows = rows /\ q.got = req[r].got /\ q.who = req[r].who
        /\ q.doomed = req[r].doomed /\ q.heirs = req[r].heirs
    BY <2>1 DEF A!Request
  <2> HIDE DEF q
  <2>8. req[r].doomed = {} /\ req[r].heirs = {}
    BY <1>1, <2>1 DEF Fits, Progress, InOrder
  <2>9. Settled(q)
    BY <2>2, <2>7, <2>8 DEF Settled
  <2>10. Fits(q)
    BY <2>1, <2>4, <2>5, <2>7, <2>9 DEF Fits, Progress
  <2> QED BY <1>1, <2>2, <2>4, <2>6, <2>7, <2>10, Reads
<1> QED BY <1>2, <1>3

-----------------------------------------------------------------------------
(* The deletion of an account.                                             *)

LEMMA SeeHomesKeeps ==
    ASSUME PeopleInv, NEW r \in Requests, A!SeeHomes(r)
    PROVE  PeopleInv'
<1> DEFINE todo == {h \in homes : req[r].who \in members[h]}
           q == [req[r] EXCEPT !.step = "doors", !.todo = todo]
<1>1. req[r].step = "homes" /\ A!Granted(r) /\ UNCHANGED A!tables /\ req' = [req EXCEPT ![r] = q]
  BY DEF A!SeeHomes, A!At, A!Then
<1>2. req[r] \in A!Request /\ Fits(req[r]) /\ TablesOK
  BY RequestIs
<1>3. todo \in SUBSET Users /\ "doors" \in A!Steps
  BY <1>2 DEF TablesOK, A!Steps
<1> HIDE DEF todo
<1>4. q \in A!Request
  BY <1>2, <1>3, TypedSteps
<1>5. /\ q.step = "doors" /\ q.rows = req[r].rows /\ q.got = req[r].got /\ q.who = req[r].who
      /\ q.doomed = req[r].doomed /\ q.heirs = req[r].heirs
  BY <1>2 DEF A!Request
<1> HIDE DEF q
<1>6. Settled(q)
  BY <1>1, <1>2, <1>5 DEF Fits, Progress, Settled
<1>7. Fits(q)
  BY <1>2, <1>5, <1>6 DEF Fits, Progress
<1> QED BY <1>1, <1>4, <1>5, <1>7, Reads

LEMMA LockHomeKeeps ==
    ASSUME PeopleInv, NEW r \in Requests, A!LockHome(r) \/ A!LockedHomes(r)
    PROVE  PeopleInv'
<1>1. req[r].step = "doors" /\ A!Granted(r) /\ UNCHANGED A!tables
  BY DEF A!LockHome, A!LockedHomes, A!At
<1>2. req[r] \in A!Request /\ Fits(req[r]) /\ RowsThere(req[r].rows) /\ Settled(req[r])
  BY <1>1, RequestIs DEF Progress
<1>3. CASE A!LockHome(r)
  <2>1. PICK h \in A!NextRow(r) :
           req' = [req EXCEPT ![r] = [req[r] EXCEPT !.todo = @ \ {h},
                                                    !.rows = @ \cup {A!HomeRow(g) : g \in {h} \cap homes}]]
    BY <1>3 DEF A!LockHome, A!Then
  <2> DEFINE todo == req[r].todo \ {h}
             rows == req[r].rows \cup {A!HomeRow(g) : g \in {h} \cap homes}
             q == [req[r] EXCEPT !.todo = todo, !.rows = rows]
  <2>2. req' = [req EXCEPT ![r] = q]
    BY <2>1
  <2>3. h \in Users /\ req[r].todo \subseteq Users /\ req[r].rows \subseteq A!Rows
    BY <1>2 DEF A!NextRow, A!Request
  <2>4. todo \in SUBSET Users /\ rows \in SUBSET A!Rows /\ rows \subseteq req[r].rows \cup A!Needs(r)
    BY <1>1, <2>3, NeedsAre, RowsAreRows
  <2>5. RowsThere(rows) /\ req[r].rows \subseteq rows
    BY <1>2, RowsDiffer DEF RowsThere
  <2> HIDE DEF rows, todo
  <2>6. q \in A!Request
    <3>1. "doors" \in A!Steps
      BY DEF A!Steps
    <3> QED BY <1>2, <2>4, <3>1, TypedSteps
  <2>7. /\ q.step = "doors" /\ q.rows = rows /\ q.got = req[r].got /\ q.who = req[r].who
        /\ q.doomed = req[r].doomed /\ q.heirs = req[r].heirs
    BY <1>1, <1>2 DEF A!Request
  <2> HIDE DEF q
  <2>8. Settled(q)
    BY <1>1, <1>2, <2>7 DEF Settled
  <2>9. Fits(q)
    BY <1>2, <2>5, <2>7, <2>8 DEF Fits, Progress
  <2> QED BY <1>1, <2>2, <2>4, <2>6, <2>7, <2>9, Reads
<1>4. CASE A!LockedHomes(r)
  <2> DEFINE todo == {h \in Users : A!HomeRow(h) \in req[r].rows}
             q == [req[r] EXCEPT !.step = "read", !.todo = todo]
  <2>1. req' = [req EXCEPT ![r] = q]
    BY <1>4 DEF A!LockedHomes, A!Then
  <2>2. todo \in SUBSET Users /\ "read" \in A!Steps /\ \A h \in todo : A!HomeRow(h) \in req[r].rows
    BY DEF A!Steps
  <2> HIDE DEF todo
  <2>3. q \in A!Request
    BY <1>2, <2>2, TypedSteps
  <2>4. /\ q.step = "read" /\ q.rows = req[r].rows /\ q.got = req[r].got /\ q.who = req[r].who
        /\ q.doomed = req[r].doomed /\ q.heirs = req[r].heirs /\ q.todo = todo
    BY <1>2 DEF A!Request
  <2> HIDE DEF q
  <2>5. Settled(q)
    BY <1>1, <1>2, <2>2, <2>4 DEF Settled
  <2>6. Fits(q)
    BY <1>2, <2>4, <2>5 DEF Fits, Progress
  <2> QED BY <1>1, <2>1, <2>3, <2>4, <2>6, Reads
<1> QED BY <1>3, <1>4

LEMMA ReadOthersKeeps ==
    ASSUME PeopleInv, NEW r \in Requests, A!ReadOthers(r)
    PROVE  PeopleInv'
<1>1. PICK h \in A!NextRow(r) : \E heir \in A!Heirs(h, members[h] \ {req[r].who}) :
         req' = [req EXCEPT ![r] = [req[r] EXCEPT !.step = "settle", !.todo = @ \ {h}, !.home = h,
                                                  !.others = members[h] \ {req[r].who}, !.heir = heir]]
  BY DEF A!ReadOthers, A!Then
<1>2. PICK heir \in A!Heirs(h, members[h] \ {req[r].who}) :
         req' = [req EXCEPT ![r] = [req[r] EXCEPT !.step = "settle", !.todo = @ \ {h}, !.home = h,
                                                  !.others = members[h] \ {req[r].who}, !.heir = heir]]
  BY <1>1
<1>3. req[r].step = "read" /\ A!Granted(r) /\ UNCHANGED A!tables
  BY DEF A!ReadOthers, A!At
<1>4. req[r] \in A!Request /\ Fits(req[r]) /\ TablesOK /\ Settled(req[r])
  BY <1>3, RequestIs DEF Progress
<1> DEFINE todo == req[r].todo \ {h}
           others == members[h] \ {req[r].who}
           q == [req[r] EXCEPT !.step = "settle", !.todo = todo, !.home = h, !.others = others, !.heir = heir]
<1>5. h \in req[r].todo /\ h \in Users /\ todo \in SUBSET Users
  BY <1>4 DEF A!NextRow, A!Request
<1>6. members[h] \subseteq Users
  BY <1>4, <1>5 DEF TablesOK
<1>7. heir \in SUBSET Users /\ (others = {} => heir = {} /\ members[h] \subseteq {req[r].who}) /\ others \in SUBSET Users
  BY <1>6 DEF A!Heirs
<1>8. req' = [req EXCEPT ![r] = q]
  BY <1>2
<1> HIDE DEF todo, others
<1>9. q \in A!Request
  BY <1>4, <1>5, <1>7, TypedRead
<1>10. /\ q.step = "settle" /\ q.rows = req[r].rows /\ q.got = req[r].got /\ q.who = req[r].who
       /\ q.doomed = req[r].doomed /\ q.heirs = req[r].heirs /\ q.todo = todo /\ q.home = h
       /\ q.others = others /\ q.heir = heir
  BY <1>4 DEF A!Request
<1> HIDE DEF q
<1>11. Settled(q)
  <2>1. \A g \in todo : g \in req[r].todo
    BY DEF todo
  <2> QED BY <1>3, <1>4, <1>5, <1>7, <1>10, <2>1 DEF Settled
<1>12. Fits(q)
  BY <1>4, <1>10, <1>11 DEF Fits, Progress
<1> QED BY <1>3, <1>8, <1>9, <1>10, <1>12, Reads

LEMMA AllSettledKeeps ==
    ASSUME PeopleInv, NEW r \in Requests, A!AllSettled(r)
    PROVE  PeopleInv'
<1>1. /\ req[r].step = "read" /\ A!Granted(r) /\ UNCHANGED A!tables /\ "erase" \in A!Steps
      /\ A!Then(r, [req[r] EXCEPT !.step = "erase"])
  BY DEF A!AllSettled, A!At, A!Steps
<1> QED BY <1>1, StepOnly

LEMMA SettleKeeps ==
    ASSUME PeopleInv, NEW r \in Requests, A!SettleHome(r)
    PROVE  PeopleInv'
<1> DEFINE h == req[r].home
           gone == IF req[r].others = {} THEN {h} ELSE {}
           heirs == req[r].heir \cap members[h]
           doomed == req[r].doomed \cup gone
           pairs == req[r].heirs \cup ({h} \X heirs)
           rows == req[r].rows \cup {A!MemberRow(h, b) : b \in heirs}
                       \cup {A!InviteRow(i) : i \in {j \in invites : j.home \in gone}}
           q == [req[r] EXCEPT !.step = "read", !.doomed = doomed, !.heirs = pairs, !.rows = rows]
<1>1. /\ req[r].step = "settle" /\ A!Granted(r) /\ UNCHANGED A!tables
      /\ req' = [req EXCEPT ![r] = q]
  BY DEF A!SettleHome, A!At, A!Then
<1>2. /\ req[r] \in A!Request /\ Fits(req[r]) /\ TablesOK /\ Settled(req[r]) /\ RowsThere(req[r].rows)
      /\ h \in Users
  BY <1>1, RequestIs DEF Progress
<1>3. /\ req[r].doomed \subseteq Users /\ req[r].heirs \subseteq Users \X Users /\ req[r].rows \subseteq A!Rows
      /\ heirs \subseteq Users /\ members[h] \subseteq Users /\ invites \subseteq A!Invites
  BY <1>2 DEF A!Request, TablesOK
<1>4. doomed \in SUBSET Users /\ pairs \in SUBSET (Users \X Users)
  BY <1>2, <1>3
<1>5. rows \in SUBSET A!Rows
  BY <1>2, <1>3, RowsAreRows
<1>6. A!HomeRow(h) \in req[r].rows /\ (req[r].others = {} => members[h] \subseteq {req[r].who} /\ req[r].heir = {})
  BY <1>1, <1>2 DEF Settled
<1>7. rows \subseteq req[r].rows \cup A!Needs(r) /\ req[r].rows \subseteq rows
  <2>1. CASE req[r].others = {}
    <3>1. heirs = {} /\ gone = {h}
      BY <1>6, <2>1
    <3>2. A!Needs(r) = {A!InviteRow(i) : i \in A!InvitesOf(h)}
      BY <1>1, <2>1, NeedsAre
    <3> QED BY <3>1, <3>2 DEF A!InvitesOf
  <2>2. CASE req[r].others # {}
    <3>1. gone = {} /\ heirs \subseteq req[r].heir
      BY <2>2
    <3>2. A!Needs(r) = {A!MemberRow(h, b) : b \in req[r].heir}
      BY <1>1, <2>2, NeedsAre
    <3> QED BY <3>1, <3>2
  <2> QED BY <2>1, <2>2
<1>8. RowsThere(rows)
  <2>1. \A u \in Users : A!UserRow(u) \in rows => u \in users
    BY <1>2, RowsDiffer DEF RowsThere
  <2>2. \A g \in Users : A!HomeRow(g) \in rows => g \in homes
    BY <1>2, RowsDiffer DEF RowsThere
  <2>3. \A g \in Users, u \in Users : A!MemberRow(g, u) \in rows => u \in members[g]
    BY <1>2, RowsDiffer DEF RowsThere
  <2>4. \A i \in A!Invites : A!InviteRow(i) \in rows => i \in invites
    BY <1>2, RowsDiffer DEF RowsThere
  <2> QED BY <2>1, <2>2, <2>3, <2>4 DEF RowsThere
<1>9. ASSUME NEW g \in doomed
      PROVE  /\ A!HomeRow(g) \in rows /\ members[g] \subseteq {req[r].who}
             /\ \A i \in invites : i.home = g => A!InviteRow(i) \in rows
  <2>1. CASE g \in req[r].doomed
    BY <1>2, <1>7, <2>1 DEF Settled
  <2>2. CASE g \in gone
    <3>1. g = h /\ req[r].others = {}
      BY <2>2
    <3>2. \A i \in invites : i.home = g => A!InviteRow(i) \in rows
      BY <2>2
    <3> QED BY <1>6, <1>7, <3>1, <3>2
  <2> QED BY <2>1, <2>2
<1>10. ASSUME NEW g \in Users, NEW b \in Users, <<g, b>> \in pairs PROVE A!MemberRow(g, b) \in rows
  <2>1. CASE <<g, b>> \in req[r].heirs
    BY <1>2, <1>7, <2>1 DEF Settled
  <2>2. CASE <<g, b>> \in {h} \X heirs
    BY <2>2
  <2> QED BY <1>10, <2>1, <2>2
<1> HIDE DEF rows, pairs, doomed, gone, heirs
<1>11. q \in A!Request
  BY <1>2, <1>4, <1>5, TypedSettle
<1>12. /\ q.step = "read" /\ q.rows = rows /\ q.got = req[r].got /\ q.who = req[r].who
       /\ q.doomed = doomed /\ q.heirs = pairs /\ q.todo = req[r].todo
  BY <1>2 DEF A!Request
<1> HIDE DEF q
<1>13. \A g \in req[r].todo : A!HomeRow(g) \in rows
  BY <1>1, <1>2, <1>7 DEF Settled
<1>14. Settled(q)
  BY <1>2, <1>9, <1>10, <1>12, <1>13 DEF Settled
<1>15. Fits(q)
  BY <1>2, <1>7, <1>8, <1>12, <1>14 DEF Fits, Progress
<1> QED BY <1>1, <1>7, <1>11, <1>12, <1>15, Reads

LEMMA EraseKeeps ==
    ASSUME PeopleInv, NEW r \in Requests, A!EraseUser(r)
    PROVE  PeopleInv'
<1> DEFINE v == req[r].who
           doomed == req[r].doomed
<1>1. /\ req[r].step = "erase" /\ A!Granted(r) /\ A!Done(r)
      /\ users' = users \ {v} /\ admin' = admin \ {v} /\ disabled' = disabled \ {v}
      /\ homes' = homes \ doomed
      /\ members' = [h \in Users |-> IF h \in doomed THEN {} ELSE members[h] \ {v}]
      /\ owners' = [h \in Users |->
                        IF h \in doomed THEN {}
                        ELSE (owners[h] \cup {b \in Users : <<h, b>> \in req[r].heirs}) \ {v}]
      /\ invites' = {i \in invites : i.home \notin doomed /\ v \notin {i.to, i.by}}
      /\ unborn' = unborn
  BY DEF A!EraseUser, A!At
<1>2. /\ req[r] \in A!Request /\ TablesOK /\ Settled(req[r]) /\ RowsThere(req[r].rows)
      /\ v \in Users /\ doomed \subseteq Users
  BY <1>1, RequestIs DEF Progress, A!Request
<1>3. \A h \in doomed :
         /\ A!HomeRow(h) \in req[r].rows /\ members[h] \subseteq {v}
         /\ \A i \in invites : i.home = h => A!InviteRow(i) \in req[r].rows
  BY <1>2 DEF Settled
<1>4. \A h \in Users, b \in Users : <<h, b>> \in req[r].heirs => b \in members[h]
  BY <1>2 DEF Settled, RowsThere
<1>5. A!Needs(r) = {A!UserRow(v)} \cup {A!MemberRow(h, v) : h \in Users}
                       \cup {A!InviteRow(i) : i \in A!InvitesWith(v)}
  BY <1>1, NeedsAre
<1> HIDE DEF v, doomed
<1>6. TablesOK'
  <2>1. /\ unborn' \subseteq Users /\ users' \subseteq Users \ unborn' /\ admin' \subseteq users'
        /\ disabled' \subseteq users' /\ homes' \subseteq Users \ unborn' /\ invites' \subseteq A!Invites
        /\ \A i \in invites' : i.home \in homes' /\ i.to \in users' /\ i.by \in users'
    BY <1>1, <1>2 DEF TablesOK
  <2>2. members' \in [Users -> SUBSET users']
    BY <1>1, <1>2 DEF TablesOK
  <2>3. owners' \in [Users -> SUBSET users']
    BY <1>1, <1>2, <1>4 DEF TablesOK
  <2>4. ASSUME NEW h \in Users
        PROVE  owners'[h] \subseteq members'[h] /\ (h \notin homes' => members'[h] = {})
    BY <1>1, <1>2, <1>4 DEF TablesOK
  <2> QED BY <2>1, <2>2, <2>3, <2>4 DEF TablesOK
<1>7. Grown
  BY <1>1 DEF Grown
<1>8. ASSUME NEW t \in Requests \ {r} PROVE Kept(req[t].rows)
  <2> DEFINE rows == req[t].rows
  <2>1. RowsThere(rows) /\ rows \cap req[r].rows = {} /\ A!Needs(r) \cap rows = {}
    BY <1>1, RequestIs, Free DEF PeopleInv, LocksApart
  <2> HIDE DEF rows
  <2>2. /\ A!UserRow(v) \notin rows /\ (\A h \in Users : A!MemberRow(h, v) \notin rows)
        /\ \A i \in invites : v \in {i.to, i.by} => A!InviteRow(i) \notin rows
    BY <1>5, <2>1 DEF A!InvitesWith
  <2>3. ASSUME NEW u \in Users, A!UserRow(u) \in rows
        PROVE  u \in users' /\ (u \in admin \ disabled => u \in admin' \ disabled')
    BY <1>1, <2>1, <2>2, <2>3 DEF RowsThere
  <2>4. ASSUME NEW h \in Users, A!HomeRow(h) \in rows
        PROVE  h \in homes' /\ members'[h] \subseteq members[h] /\ \A i \in invites' : i.home = h => i \in invites
    <3>1. h \notin doomed /\ h \in homes
      BY <1>3, <2>1, <2>4 DEF RowsThere
    <3> QED BY <1>1, <3>1
  <2>5. ASSUME NEW h \in Users, NEW u \in Users, A!MemberRow(h, u) \in rows
        PROVE  u \in members'[h]
    <3>1. u \in members[h] /\ u # v
      BY <2>1, <2>2, <2>5 DEF RowsThere
    <3>2. h \notin doomed
      BY <1>3, <3>1
    <3> QED BY <1>1, <3>1, <3>2
  <2>6. ASSUME NEW i \in A!Invites, A!InviteRow(i) \in rows PROVE i \in invites'
    <3>1. i \in invites /\ v \notin {i.to, i.by}
      BY <2>1, <2>2, <2>6 DEF RowsThere
    <3>2. i.home \notin doomed
      BY <1>3, <2>1, <2>6, <3>1
    <3> QED BY <1>1, <3>1, <3>2
  <2> QED BY <2>3, <2>4, <2>5, <2>6 DEF Kept, rows
<1> QED BY <1>1, <1>6, <1>7, <1>8, Ends

LEMMA AbortKeeps ==
    ASSUME PeopleInv, NEW r \in Requests, A!Abort(r)
    PROVE  PeopleInv'
BY GivesUp DEF A!Abort

LEMMA SignUpKeeps ==
    ASSUME PeopleInv, NEW u \in Users, A!SignUp(u)
    PROVE  PeopleInv'
<1>1. TablesOK /\ req \in [Requests -> A!Request]
  BY TypeIs DEF PeopleInv
<1>2. /\ u \in unborn /\ unborn' = unborn \ {u} /\ users' = users \cup {u} /\ homes' = homes \cup {u}
      /\ members' = [members EXCEPT ![u] = {u}] /\ owners' = [owners EXCEPT ![u] = {u}]
      /\ UNCHANGED <<admin, disabled, invites, req>>
  BY DEF A!SignUp
<1>3. TablesOK' /\ Grown
  BY <1>1, <1>2 DEF TablesOK, Grown
<1>4. ASSUME NEW t \in Requests PROVE Kept(req[t].rows)
  <2>1. RowsThere(req[t].rows)
    BY RequestIs
  <2>2. u \notin homes /\ u \notin users
    BY <1>1, <1>2 DEF TablesOK
  <2> QED BY <1>1, <1>2, <2>1, <2>2 DEF Kept, RowsThere, TablesOK
<1>5. \A t \in Requests : Fits(req[t])'
  BY <1>2, <1>3, <1>4, OtherFits
<1>6. A!TypeOK' /\ LocksApart'
  BY <1>1, <1>2, <1>3 DEF A!TypeOK, TablesOK, PeopleInv, LocksApart
<1> QED BY <1>5, <1>6 DEF PeopleInv

LEMMA StepPeople == PeopleInv /\ A!Next => PeopleInv'
<1> SUFFICES ASSUME PeopleInv, A!Next PROVE PeopleInv'
  OBVIOUS
<1> HIDE DEF PeopleInv
<1>1. CASE \E u \in Users : A!SignUp(u)
  BY <1>1, SignUpKeeps
<1>2. CASE \E r \in A!Upcoming, u \in Users : A!AskHousehold(r, u) \/ A!AskAdmin(r, u) \/ A!AskDelete(r, u)
  BY <1>2, AsksKeep
<1>3. CASE \E r \in Requests : A!Statement(r) \/ A!Abort(r)
  <2>1. PICK r \in Requests : A!Statement(r) \/ A!Abort(r)
    BY <1>3
  <2> QED BY <2>1, LookKeeps, InsertKeeps, AnswerKeeps, JoinKeeps, RemoveKeeps, SeeAdminsKeeps, LockAdminKeeps,
             LockedAdminsKeep, WriteKeeps, CheckKeeps, SeeHomesKeeps, LockHomeKeeps, ReadOthersKeeps,
             SettleKeeps, AllSettledKeeps, EraseKeeps, AbortKeeps DEF A!Statement
<1> QED BY <1>1, <1>2, <1>3 DEF A!Next

LEMMA InitPeople == A!Init => PeopleInv
<1> SUFFICES ASSUME A!Init PROVE PeopleInv
  OBVIOUS
<1>1. /\ unborn = Newcomers /\ users = Users \ Newcomers /\ admin = Admins /\ disabled = Disabled
      /\ homes = users /\ invites = {}
      /\ members = [h \in Users |-> IF h \in users THEN Guests[h] \cup {h} ELSE {}]
      /\ owners = [h \in Users |-> IF h \in users THEN {h} ELSE {}]
      /\ req = [r \in Requests |-> A!Off("new")]
  BY DEF A!Init
<1>2. /\ Newcomers \subseteq Users /\ Admins \subseteq Users \ Newcomers /\ Disabled \subseteq Users \ Newcomers
      /\ Guests \in [Users -> SUBSET (Users \ Newcomers)]
  BY PartsAssumption DEF A!StartAssumption
<1>3. TablesOK
  BY <1>1, <1>2 DEF TablesOK
<1>4. /\ A!Off("new") \in A!Request /\ A!Off("new").step = "new" /\ A!Off("new").op = "none"
      /\ Plain(A!Off("new"))
  BY OffTyped
<1>5. \A r \in Requests : req[r] = A!Off("new")
  BY <1>1
<1> HIDE DEF Plain
<1>6. Fits(A!Off("new"))
  BY <1>4, PlainFits
<1>7. \A r \in Requests : Fits(req[r])
  BY <1>5, <1>6
<1>8. req \in [Requests -> A!Request] /\ LocksApart
  BY <1>1, <1>4, <1>5 DEF LocksApart, Plain
<1> QED BY <1>3, <1>7, <1>8, TypeIs DEF PeopleInv

LEMMA PeopleStay == PeopleInv /\ UNCHANGED peopleVars => PeopleInv'
<1> SUFFICES ASSUME PeopleInv, UNCHANGED peopleVars PROVE PeopleInv'
  OBVIOUS
<1>1. A!TypeOK' /\ LocksApart'
  BY DEF PeopleInv, A!TypeOK, LocksApart, peopleVars
<1>2. ASSUME NEW r \in Requests PROVE Fits(req[r])'
  <2>1. Fits(req[r]) /\ Grown /\ UNCHANGED A!tables
    BY DEF PeopleInv, Grown, peopleVars, A!tables, A!people, A!house
  <2>2. Kept(req[r].rows) /\ req'[r] = req[r]
    BY <2>1, KeptAsIs DEF Fits, peopleVars
  <2> QED BY <2>1, <2>2, OtherFits
<1> QED BY <1>1, <1>2 DEF PeopleInv

LEMMA PeopleMoves == [MCNext]_<<part, vars, peopleVars, apiVars, listVars>> => [A!Next]_A!vars /\ (A!Next \/ UNCHANGED peopleVars)
BY DEF MCNext, A!vars, A!tables, A!people, A!house, peopleVars

LEMMA PeopleHold == MCSpec => []PeopleInv
<1>1. MCInit => PeopleInv
  BY InitPeople DEF MCInit
<1>2. PeopleInv /\ [MCNext]_<<part, vars, peopleVars, apiVars, listVars>> => PeopleInv'
  BY PeopleMoves, StepPeople, PeopleStay
<1> QED BY <1>1, <1>2, PTL DEF MCSpec

\* The tables keep their references: members and invites of users and
\* households that are there, owners who are members.
THEOREM PeopleTypeCorrect == MCSpec => []A!TypeOK
<1>1. PeopleInv => A!TypeOK
  BY DEF PeopleInv
<1> QED BY <1>1, PeopleHold, PTL

\* Only these statements delete households or take the role of an active admin.
LEMMA Losing ==
    ASSUME A!Next
    PROVE  \/ UNCHANGED <<admin, disabled>> /\ homes \subseteq homes'
           \/ \E r \in Requests : A!EraseUser(r)
           \/ \E r \in Requests : (A!WriteDisabled(r) \/ A!WriteRole(r)) /\ homes' = homes
<1>1. CASE \E u \in Users : A!SignUp(u)
  BY <1>1 DEF A!SignUp
<1>2. CASE \E r \in A!Upcoming, u \in Users : A!AskHousehold(r, u) \/ A!AskAdmin(r, u) \/ A!AskDelete(r, u)
  BY <1>2 DEF A!AskHousehold, A!AskAdmin, A!AskDelete, A!Ask, A!tables, A!people, A!house
<1>3. CASE \E r \in Requests : A!Statement(r) \/ A!Abort(r)
  <2>1. PICK r \in Requests : A!Statement(r) \/ A!Abort(r)
    BY <1>3
  <2>2. CASE A!Abort(r) \/ A!LookForMember(r) \/ A!SeeAdmins(r) \/ A!LockAdmin(r) \/ A!LockedAdmins(r) \/ A!CheckTarget(r)
    BY <2>2 DEF A!Abort, A!LookForMember, A!SeeAdmins, A!LockAdmin, A!LockedAdmins, A!CheckTarget, A!tables, A!people, A!house
  <2>3. CASE A!InsertInvite(r) \/ A!AnswerInvite(r) \/ A!JoinHome(r) \/ A!CancelInvite(r) \/ A!RemoveMember(r)
    BY <2>3 DEF A!InsertInvite, A!AnswerInvite, A!JoinHome, A!CancelInvite, A!RemoveMember, A!people
  <2>4. CASE A!SeeHomes(r) \/ A!LockHome(r) \/ A!LockedHomes(r) \/ A!ReadOthers(r) \/ A!SettleHome(r) \/ A!AllSettled(r)
    BY <2>4 DEF A!SeeHomes, A!LockHome, A!LockedHomes, A!ReadOthers, A!SettleHome, A!AllSettled, A!tables, A!people, A!house
  <2>5. CASE A!WriteDisabled(r) \/ A!WriteRole(r)
    BY <2>5 DEF A!WriteDisabled, A!WriteRole, A!house
  <2> QED BY <2>1, <2>2, <2>3, <2>4, <2>5 DEF A!Statement
<1> QED BY <1>1, <1>2, <1>3 DEF A!Next

\* A household goes only together with everybody who lives in it: the
\* FOR UPDATE of deleteUserAccount and its comment.
THEOREM HomesOutlive == MCSpec => HomeOutlivesMembers
<1>1. PeopleInv /\ [MCNext]_<<part, vars, peopleVars, apiVars, listVars>> =>
          [\A h \in homes \ homes' : members[h] \cap users' = {}]_A!vars
  <2> SUFFICES ASSUME PeopleInv, A!Next, NEW h \in homes \ homes' PROVE members[h] \cap users' = {}
    BY PeopleMoves
  <2>1. PICK r \in Requests : A!EraseUser(r)
    BY Losing
  <2>2. req[r].step = "erase" /\ h \in req[r].doomed /\ users' = users \ {req[r].who}
    BY <2>1 DEF A!EraseUser, A!At
  <2>3. Settled(req[r])
    BY <2>2, RequestIs DEF Progress
  <2> QED BY <2>2, <2>3 DEF Settled
<1> QED BY <1>1, PeopleHold, PTL DEF MCSpec, HomeOutlivesMembers, A!HomeOutlivesMembers

\* A request that locked an active admin refuses to be the one that loses the
\* last: wouldRemoveLastAdmin, admin/guards.js.
THEOREM AdminsLostUnseen == MCSpec => AdminLostOnlyUnseen
<1> DEFINE Lost == A!ActiveAdmins # {} /\ A!ActiveAdmins' = {} =>
                       \E r \in Requests : req'[r] # req[r] /\ req[r].got = {}
<1>1. PeopleInv /\ [MCNext]_<<part, vars, peopleVars, apiVars, listVars>> => [Lost]_A!vars
  <2> SUFFICES ASSUME PeopleInv, A!Next, A!ActiveAdmins # {}, A!ActiveAdmins' = {}
               PROVE  \E r \in Requests : req'[r] # req[r] /\ req[r].got = {}
    BY PeopleMoves
  <2>1. PICK r \in Requests : A!EraseUser(r) \/ A!WriteDisabled(r) \/ A!WriteRole(r)
    BY Losing DEF A!ActiveAdmins
  <2>2. /\ req[r].step \in {"erase", "write"} /\ A!Done(r) /\ req[r] \in A!Request /\ Fits(req[r])
        /\ req \in [Requests -> A!Request]
    BY <2>1, RequestIs, TypeIs DEF A!EraseUser, A!WriteDisabled, A!WriteRole, A!At, PeopleInv
  <2>3. req'[r].step = "done"
    BY <2>2, OffTyped DEF A!Done, A!Then
  <2>4. ASSUME NEW a \in req[r].got, a # req[r].who PROVE FALSE
    <3>1. a \in admin \ disabled
      BY <2>2 DEF Fits, A!ActiveAdmins
    <3>2. a \in admin' \ disabled'
      BY <2>1, <2>4, <3>1 DEF A!EraseUser, A!WriteDisabled, A!WriteRole
    <3> QED BY <3>2 DEF A!ActiveAdmins
  <2>5. req[r].got # {req[r].who}
    <3>1. CASE A!EraseUser(r)
      BY <2>2, <3>1 DEF A!EraseUser, A!At, Fits, Progress, Settled
    <3>2. CASE (A!WriteDisabled(r) \/ A!WriteRole(r)) /\ ~A!LastAdmin(r)
      BY <3>2 DEF A!LastAdmin
    <3>3. CASE (A!WriteDisabled(r) \/ A!WriteRole(r)) /\ A!LastAdmin(r)
      <4>1. req[r].got # {}
        BY <3>3 DEF A!LastAdmin
      <4>2. req[r].who \in admin \ disabled
        BY <2>2, <3>3 DEF A!LastAdmin, Fits, A!ActiveAdmins
      <4>3. req[r].who \in admin' \ disabled'
        BY <3>3, <4>2 DEF A!WriteDisabled, A!WriteRole
      <4> QED BY <4>3 DEF A!ActiveAdmins
    <3> QED BY <2>1, <3>1, <3>2, <3>3
  <2> QED BY <2>2, <2>3, <2>4, <2>5
<1> HIDE DEF Lost
<1>2. MCSpec => [][Lost]_A!vars
  BY <1>1, PeopleHold, PTL DEF MCSpec
<1> QED BY <1>2 DEF Lost, AdminLostOnlyUnseen, A!AdminLostOnlyUnseen

LEMMA OneNeeded ==
    ASSUME PeopleInv, NEW s \in Requests, A!LocksAdmins(s), NEW locked \in A!Needs(s)
    PROVE  \E a \in Users : locked = A!UserRow(a) /\ (req[s].step = "lock" => a \in req[s].todo)
<1>1. req[s].step \in {"lock", "target", "write"} /\ req[s].who \in Users /\ req[s].todo \subseteq Users
  BY RequestIs DEF A!LocksAdmins, A!Request
<1>2. CASE req[s].step = "lock"
  BY <1>1, <1>2, NeedsAre DEF A!NextRow
<1>3. CASE req[s].step = "write"
  BY <1>1, <1>3, NeedsAre
<1>4. CASE req[s].step = "target"
  <2>1. A!ByAdmin(s)
    BY <1>4 DEF A!Needs
  <2> QED BY <1>1, <1>4, <2>1, NeedsAre
<1> QED BY <1>1, <1>2, <1>3, <1>4

\* What one of them needs and another holds is behind the first and ahead of the other.
LEMMA NeedIsAhead ==
    ASSUME PeopleInv, NEW r \in Requests, NEW t \in Requests, r # t, A!LocksAdmins(r), A!LocksAdmins(t),
           req[r].seen = req[t].seen, A!Needs(r) \cap req[t].rows # {}
    PROVE  /\ req[r].step = "lock"
           /\ \E a \in req[r].todo : A!UserRow(a) \in A!Needs(r) /\ a \in req[t].seen \ req[t].todo
<1>1. PICK locked : locked \in A!Needs(r) /\ locked \in req[t].rows
  OBVIOUS
<1>2. PICK a \in Users : locked = A!UserRow(a) /\ (req[r].step = "lock" => a \in req[r].todo)
  BY <1>1, OneNeeded
<1>3. /\ InOrder(req[r]) /\ InOrder(req[t]) /\ RowsThere(req[t].rows)
      /\ req[r].step \in {"lock", "target", "write"} /\ req[r].rows \cap req[t].rows = {}
  BY RequestIs DEF A!LocksAdmins, Progress, Plain, PeopleInv, LocksApart
<1>4. a \in req[t].seen \ req[t].todo /\ a \in users
  <2>1. PICK b \in req[t].seen \ req[t].todo : locked = A!UserRow(b)
    BY <1>1, <1>3 DEF InOrder
  <2>2. a = b
    BY <1>2, <2>1, RowsDiffer
  <2> QED BY <1>1, <1>2, <1>3, <2>1, <2>2 DEF RowsThere
<1>5. req[r].step = "lock"
  <2>1. SUFFICES ASSUME req[r].step # "lock" PROVE FALSE
    OBVIOUS
  <2>2. a \in req[r].seen \ req[r].todo
    BY <1>3, <1>4, <2>1 DEF InOrder
  <2>3. A!UserRow(a) \in req[r].rows
    BY <1>3, <1>4, <2>2 DEF InOrder
  <2> QED BY <1>1, <1>2, <1>3, <2>3
<1> QED BY <1>1, <1>2, <1>4, <1>5

\* Those that started from the same admins lock them in one order: the first
\* to lock the smallest is ahead of the others to the end.
THEOREM AdminsInOrder == MCSpec => []AdminsWaitInOrder
<1>1. PeopleInv => AdminsWaitInOrder
  <2> SUFFICES ASSUME PeopleInv, NEW r \in Requests, NEW t \in Requests, A!LocksAdmins(r), A!LocksAdmins(t),
                      req[r].seen = req[t].seen, A!Waits(r, t), A!Waits(t, r)
               PROVE  FALSE
    BY DEF AdminsWaitInOrder, A!AdminsWaitInOrder
  <2>1. r # t /\ A!Needs(r) \cap req[t].rows # {} /\ A!Needs(t) \cap req[r].rows # {}
    BY DEF A!Waits
  <2>2. PICK a \in req[r].todo : a \in req[t].seen \ req[t].todo
    BY <2>1, NeedIsAhead
  <2>3. PICK b \in req[t].todo : b \in req[r].seen \ req[r].todo
    BY <2>1, NeedIsAhead
  <2>4. InOrder(req[r]) /\ InOrder(req[t])
    BY RequestIs DEF A!LocksAdmins, Progress, Plain
  <2>5. b < a /\ a < b
    BY <2>2, <2>3, <2>4 DEF InOrder
  <2>6. a \in Nat /\ b \in Nat
    <3>1. req[r].todo \subseteq Users /\ req[t].todo \subseteq Users
      BY RequestIs DEF A!Request
    <3> QED BY <2>2, <2>3, <3>1, PartsAssumption DEF A!StartAssumption
  <2> QED BY <2>5, <2>6
<1> QED BY <1>1, PeopleHold, PTL

-----------------------------------------------------------------------------
(* Groups, scenes and automations.                                         *)

ListRows == [alive : BOOLEAN, home : Homes \cup {NoHome}, meant : SUBSET Devices,
             items : SUBSET Devices]

ListRequests ==
    [pc : {"idle", "find", "check", "write", "drop", "insert", "own", "send", "again", "answer", "done"},
     op : {"none", "create", "save", "delete", "run"}, list : Lists \cup {L!Nobody},
     home : Homes \cup {NoHome}, items : SUBSET Devices, left : SUBSET Devices,
     old : SUBSET Devices, found : BOOLEAN, had : SUBSET Devices, used : SUBSET Devices]

Busy(q) == q.pc \notin {"idle", "done"}
Creating(q) == q.op = "create" /\ q.pc \in {"find", "check", "write"}
Replacing(q) == q.pc \in {"drop", "insert"}

\* What a request has found of its household's devices is what they were while
\* it ran, and whatever it saves or commands is among it.
OwnOnly(q) ==
    /\ q.used \subseteq q.had /\ (q.pc = "find" => q.used = {})
    /\ Busy(q) => q.list \in Lists
    /\ Busy(q) /\ q.pc # "find" => q.home \in Homes /\ L!At(q.home) \subseteq q.had
    /\ q.pc \in {"write", "drop", "insert"} /\ q.op \in {"create", "save"} =>
           q.items \subseteq q.had
    /\ q.pc = "send" /\ KindOf[q.list] = "scene" => q.left \subseteq q.had
    /\ q.pc \in {"send", "again"} /\ KindOf[q.list] = "automation" => q.old \subseteq q.had
    /\ Replacing(q) => q.op = "save" /\ KindOf[q.list] = "group"

\* A save that found its group holds the row until it commits, and the members it
\* deleted are the ones that are there.
HoldsGroup(r) ==
    Replacing(listReq[r]) /\ listReq[r].found =>
        /\ lock[listReq[r].list] = r
        /\ listReq[r].pc = "insert" => listReq[r].old = list[listReq[r].list].items

\* Nobody knows the id of a list before its row is there.
AloneWithNew(r) ==
    Creating(listReq[r]) =>
        /\ list[listReq[r].list] = L!Unborn
        /\ \A q \in Reqs \ {r} : Busy(listReq[q]) => listReq[q].list # listReq[r].list

ListsInv ==
    /\ place \in [Devices -> Homes \cup {NoHome}]
    /\ list \in [Lists -> ListRows] /\ lock \in [Lists -> Reqs \cup {L!Nobody}]
    /\ listReq \in [Reqs -> ListRequests]
    /\ \A l \in Lists : list[l] = L!Unborn \/ list[l].home \in Homes
    /\ \A l \in Lists : list[l].items = list[l].meant
    /\ \A r \in Reqs : OwnOnly(listReq[r]) /\ HoldsGroup(r) /\ AloneWithNew(r)

LEMMA RestOwnsNothing ==
    /\ L!Idle \in ListRequests /\ [L!Idle EXCEPT !.pc = "done"] \in ListRequests
    /\ OwnOnly(L!Idle) /\ OwnOnly([L!Idle EXCEPT !.pc = "done"])
    /\ ~Busy(L!Idle) /\ ~Busy([L!Idle EXCEPT !.pc = "done"])
    /\ L!Idle.op = "none"
BY DEF L!Idle, ListRequests, OwnOnly, Busy, Replacing, L!Nobody

\* One request moves on, and at most takes or gives up its own locks.
LEMMA RequestMoves ==
    ASSUME ListsInv, NEW r \in Reqs, NEW q \in ListRequests,
           listReq' = [listReq EXCEPT ![r] = q], UNCHANGED <<place, list>>,
           lock' \in [Lists -> Reqs \cup {L!Nobody}],
           \A l \in Lists : \A t \in Reqs \ {r} : lock[l] = t => lock'[l] = t,
           OwnOnly(q),
           Replacing(q) /\ q.found =>
               lock'[q.list] = r /\ (q.pc = "insert" => q.old = list[q.list].items),
           Busy(q) => Busy(listReq[r]) /\ q.list = listReq[r].list,
           Creating(q) => Creating(listReq[r])
    PROVE  ListsInv'
<1> USE DEF ListsInv
<1>1. /\ listReq' \in [Reqs -> ListRequests] /\ listReq'[r] = q
      /\ \A t \in Reqs \ {r} : listReq'[t] = listReq[t]
  OBVIOUS
<1>2. ASSUME NEW t \in Reqs PROVE OwnOnly(listReq[t])'
  <2>1. \A h : L!At(h)' = L!At(h)
    BY DEF L!At
  <2>2. OwnOnly(q)'
    BY <2>1 DEF OwnOnly
  <2>3. OwnOnly(listReq[t]) /\ (t # r => OwnOnly(listReq[t])')
    BY <1>1, <2>1 DEF OwnOnly
  <2> QED BY <1>1, <2>2, <2>3
<1>3. ASSUME NEW t \in Reqs PROVE HoldsGroup(t)'
  <2>1. CASE t = r
    BY <1>1, <2>1 DEF HoldsGroup, Replacing
  <2>2. CASE t # r
    <3>1. Replacing(listReq[t]) => listReq[t].list \in Lists
      BY DEF OwnOnly, Replacing, Busy
    <3> QED BY <1>1, <2>2, <3>1 DEF HoldsGroup
  <2> QED BY <2>1, <2>2
<1>4. ASSUME NEW t \in Reqs PROVE AloneWithNew(t)'
  <2>1. Creating(q) => Busy(q) /\ q.list = listReq[r].list
    BY DEF Creating, Busy
  <2> QED BY <1>1, <2>1 DEF AloneWithNew
<1> QED BY <1>1, <1>2, <1>3, <1>4

LEMMA InitLists == L!Init => ListsInv
<1> SUFFICES ASSUME L!Init PROVE ListsInv
  OBVIOUS
<1> USE DEF L!Init, L!Anywhere
<1>1. place \in [Devices -> Homes \cup {NoHome}] /\ lock \in [Lists -> Reqs \cup {L!Nobody}]
      /\ listReq = [r \in Reqs |-> L!Idle]
  OBVIOUS
<1> DEFINE Row(h, some) == [alive |-> TRUE, home |-> h, meant |-> some, items |-> some]
<1>7. PICK h \in Homes : \E some \in SUBSET L!At(h) : list \in [Lists -> {L!Unborn, Row(h, some)}]
  OBVIOUS
<1>2. PICK some \in SUBSET L!At(h) : list \in [Lists -> {L!Unborn, Row(h, some)}]
  BY <1>7
<1>3. some \subseteq Devices
  BY DEF L!At
<1>4. \A l \in Lists : list[l] \in ListRows /\ (list[l] = L!Unborn \/ list[l].home \in Homes)
                       /\ list[l].items = list[l].meant
  <2>1. Row(h, some) \in ListRows /\ Row(h, some).home = h /\ Row(h, some).items = Row(h, some).meant
    BY <1>3 DEF ListRows
  <2>2. L!Unborn \in ListRows /\ L!Unborn.items = L!Unborn.meant
    BY DEF L!Unborn, ListRows
  <2> HIDE DEF Row
  <2> QED BY <1>2, <2>1, <2>2
<1>5. list \in [Lists -> ListRows]
  BY <1>2, <1>4
<1>6. \A r \in Reqs : OwnOnly(listReq[r]) /\ HoldsGroup(r) /\ AloneWithNew(r)
  BY <1>1, RestOwnsNothing DEF HoldsGroup, AloneWithNew, Replacing, Creating, Busy
<1> QED BY <1>1, <1>4, <1>5, <1>6, RestOwnsNothing DEF ListsInv

\* A request gives up, or is answered.
LEMMA ListDone ==
    ASSUME ListsInv, NEW r \in Reqs, L!Done(r), UNCHANGED <<place, list>>,
           lock' \in [Lists -> Reqs \cup {L!Nobody}],
           \A l \in Lists : \A t \in Reqs \ {r} : lock[l] = t => lock'[l] = t
    PROVE  ListsInv'
<1> DEFINE q == [L!Idle EXCEPT !.pc = "done"]
<1>1. q \in ListRequests /\ OwnOnly(q) /\ ~Busy(q) /\ ~Replacing(q) /\ ~Creating(q)
  BY RestOwnsNothing DEF L!Idle, Replacing, Creating
<1>2. listReq' = [listReq EXCEPT ![r] = q]
  BY DEF L!Done
<1> HIDE DEF q
<1> QED BY <1>1, <1>2, RequestMoves

LEMMA MoveKeepsLists ==
    ASSUME ListsInv, NEW d \in Devices, L!Move(d)
    PROVE  ListsInv'
<1> USE DEF ListsInv
<1>1. PICK h \in Homes \cup {NoHome} :
          /\ place' = [place EXCEPT ![d] = h]
          /\ listReq' = [r \in Reqs |-> IF h \in Homes /\ listReq[r].home = h
                                         THEN [listReq[r] EXCEPT !.had = @ \cup {d}] ELSE listReq[r]]
  BY DEF L!Move
<1>2. UNCHANGED <<list, lock>>
  BY DEF L!Move
<1>3. \A r \in Reqs :
         /\ listReq'[r] \in ListRequests
         /\ listReq'[r].pc = listReq[r].pc /\ listReq'[r].op = listReq[r].op
         /\ listReq'[r].list = listReq[r].list /\ listReq'[r].home = listReq[r].home
         /\ listReq'[r].items = listReq[r].items /\ listReq'[r].left = listReq[r].left
         /\ listReq'[r].old = listReq[r].old /\ listReq'[r].found = listReq[r].found
         /\ listReq'[r].used = listReq[r].used
         /\ listReq[r].had \subseteq listReq'[r].had
         /\ h \in Homes /\ listReq[r].home = h => d \in listReq'[r].had
  <2>1. TAKE r \in Reqs
  <2>2. listReq[r] \in ListRequests
    OBVIOUS
  <2>3. CASE h \in Homes /\ listReq[r].home = h
    <3>1. listReq'[r] = [listReq[r] EXCEPT !.had = @ \cup {d}]
      BY <1>1, <2>3
    <3> QED BY <2>2, <3>1 DEF ListRequests
  <2>4. CASE ~(h \in Homes /\ listReq[r].home = h)
    <3>1. listReq'[r] = listReq[r]
      BY <1>1, <2>4
    <3> QED BY <2>2, <2>4, <3>1
  <2> QED BY <2>3, <2>4
<1>4. \A g \in Homes : L!At(g)' \subseteq IF g = h THEN L!At(g) \cup {d} ELSE L!At(g)
  BY <1>1 DEF L!At
<1>5. place' \in [Devices -> Homes \cup {NoHome}] /\ listReq' \in [Reqs -> ListRequests]
  <2>1. listReq' = [r \in Reqs |-> listReq'[r]]
    BY <1>1
  <2> QED BY <1>1, <1>3, <2>1
<1>6. ASSUME NEW r \in Reqs PROVE OwnOnly(listReq[r])'
  <2>1. Busy(listReq'[r]) /\ listReq'[r].pc # "find" => L!At(listReq[r].home)' \subseteq listReq'[r].had
    <3>1. SUFFICES ASSUME Busy(listReq[r]), listReq[r].pc # "find"
                   PROVE  L!At(listReq[r].home)' \subseteq listReq'[r].had
      BY <1>3 DEF Busy, L!At
    <3>2. listReq[r].home \in Homes /\ L!At(listReq[r].home) \subseteq listReq[r].had
      BY <3>1 DEF OwnOnly
    <3> QED BY <1>3, <1>4, <3>2
  <2> QED BY <1>3, <2>1 DEF OwnOnly, Busy, Replacing
<1>7. \A r \in Reqs : HoldsGroup(r)' /\ AloneWithNew(r)'
  BY <1>2, <1>3 DEF HoldsGroup, AloneWithNew, Replacing, Creating, Busy
<1> QED BY <1>2, <1>5, <1>6, <1>7

LEMMA ArriveKeepsLists ==
    ASSUME ListsInv, NEW r \in Reqs, L!Arrive(r)
    PROVE  ListsInv'
<1> USE DEF ListsInv
<1>1. PICK l \in Lists, ask \in {"create", "save", "delete", "run"}, some \in SUBSET Devices :
         /\ ask = "create" <=> list[l] = L!Unborn
         /\ ask = "create" => \A q \in Reqs : listReq[q].list # l
         /\ listReq' = [listReq EXCEPT ![r] = [L!Idle EXCEPT !.pc = "find", !.op = ask, !.list = l,
                                                            !.items = some]]
  BY DEF L!Arrive
<1> DEFINE q == [L!Idle EXCEPT !.pc = "find", !.op = ask, !.list = l, !.items = some]
<1>2. /\ q \in ListRequests /\ q.pc = "find" /\ q.op = ask /\ q.list = l
      /\ q.used = {} /\ q.had = {}
  BY DEF L!Idle, ListRequests, L!Nobody
<1>3. UNCHANGED <<place, list, lock>> /\ listReq' = [listReq EXCEPT ![r] = q]
  BY <1>1 DEF L!Arrive
<1> HIDE DEF q
<1>4. /\ listReq' \in [Reqs -> ListRequests] /\ listReq'[r] = q
      /\ \A t \in Reqs \ {r} : listReq'[t] = listReq[t]
  BY <1>2, <1>3
<1>5. OwnOnly(q)' /\ Busy(q) /\ ~Replacing(q) /\ (Creating(q) <=> ask = "create")
  BY <1>2 DEF OwnOnly, Busy, Replacing, Creating
<1>6. \A t \in Reqs : OwnOnly(listReq[t])'
  BY <1>3, <1>4, <1>5 DEF OwnOnly, L!At
<1>7. \A t \in Reqs : HoldsGroup(t)'
  BY <1>3, <1>4, <1>5 DEF HoldsGroup
<1>8. ASSUME NEW t \in Reqs PROVE AloneWithNew(t)'
  <2>1. CASE t = r
    BY <1>1, <1>2, <1>3, <1>4, <1>5, <2>1 DEF AloneWithNew
  <2>2. CASE t # r
    <3>1. Creating(listReq[t]) => listReq[t].list # l
      BY <1>1 DEF AloneWithNew
    <3> QED BY <1>2, <1>3, <1>4, <2>2, <3>1 DEF AloneWithNew
  <2> QED BY <2>1, <2>2
<1> QED BY <1>3, <1>4, <1>6, <1>7, <1>8

LEMMA FindKeepsLists ==
    ASSUME ListsInv, NEW r \in Reqs, L!Find(r)
    PROVE  ListsInv'
<1> USE DEF ListsInv
<1>1. UNCHANGED <<place, list, lock>> /\ listReq[r].pc = "find" /\ listReq[r] \in ListRequests
  BY DEF L!Find
<1>2. CASE L!Done(r)
  BY <1>1, <1>2, ListDone
<1>3. CASE ~L!Done(r)
  <2>1. listReq[r].list \in Lists /\ OwnOnly(listReq[r])
    BY <1>1 DEF OwnOnly, Busy
  <2> DEFINE Row == list[listReq[r].list]
             To(h, goes, left) == [listReq[r] EXCEPT !.home = h, !.had = L!At(h), !.pc = goes, !.left = left]
             goes == CASE listReq[r].op = "delete" -> "write"
                     [] listReq[r].op = "run" -> "own"
                     [] OTHER -> "check"
             left == IF listReq[r].op = "run" THEN Row.items ELSE {}
  <2>2. /\ Row.alive \/ listReq[r].op = "create"
        /\ \E h \in IF listReq[r].op = "create" THEN Homes ELSE {Row.home} :
               listReq' = [listReq EXCEPT ![r].home = h, ![r].had = L!At(h), ![r].pc = goes,
                                          ![r].left = left]
    BY <1>3 DEF L!Find, L!Row
  <2>3. PICK h \in Homes : listReq' = [listReq EXCEPT ![r].home = h, ![r].had = L!At(h), ![r].pc = goes,
                                                     ![r].left = left]
    <3>1. Row = L!Unborn => ~Row.alive
      BY DEF L!Unborn
    <3>2. Row.alive => Row.home \in Homes
      BY <2>1, <3>1
    <3> HIDE DEF goes, left, Row
    <3>3. PICK h \in IF listReq[r].op = "create" THEN Homes ELSE {Row.home} :
             listReq' = [listReq EXCEPT ![r].home = h, ![r].had = L!At(h), ![r].pc = goes,
                                        ![r].left = left]
      BY <2>2
    <3>4. h \in Homes
      BY <2>2, <3>2, <3>3
    <3> QED BY <3>3, <3>4
  <2>10. listReq' = [listReq EXCEPT ![r] = To(h, goes, left)]
    <3> HIDE DEF goes, left, Row
    <3> QED BY <1>1, <2>3
  <2> DEFINE q == To(h, goes, left)
  <2>4. left \in SUBSET Devices /\ L!At(h) \in SUBSET Devices
    BY <2>1 DEF ListRows, L!At
  <2>5. goes \in {"write", "own", "check"} /\ (goes = "write" => listReq[r].op = "delete")
    OBVIOUS
  <2>6. /\ q \in ListRequests /\ q.home = h /\ q.had = L!At(h) /\ q.pc = goes /\ q.left = left
        /\ q.list = listReq[r].list /\ q.op = listReq[r].op /\ q.used = listReq[r].used
    <3> HIDE DEF goes, left
    <3> QED BY <1>1, <2>4, <2>5 DEF ListRequests
  <2>7. listReq[r].used = {}
    BY <1>1 DEF OwnOnly
  <2> HIDE DEF q, goes, left
  <2>8. OwnOnly(q) /\ ~Replacing(q)
    BY <2>1, <2>5, <2>6, <2>7 DEF OwnOnly, Busy, Replacing
  <2>9. /\ Busy(q) => Busy(listReq[r]) /\ q.list = listReq[r].list
        /\ Creating(q) => Creating(listReq[r])
    BY <1>1, <2>6 DEF Busy, Creating
  <2> QED BY <1>1, <2>10, <2>6, <2>8, <2>9, RequestMoves DEF q
<1> QED BY <1>2, <1>3

LEMMA CheckKeepsLists ==
    ASSUME ListsInv, NEW r \in Reqs, L!CheckDevices(r)
    PROVE  ListsInv'
<1> USE DEF ListsInv
<1>1. UNCHANGED <<place, list, lock>> /\ listReq[r].pc = "check" /\ listReq[r] \in ListRequests
  BY DEF L!CheckDevices
<1>2. CASE L!Done(r)
  BY <1>1, <1>2, ListDone
<1>3. CASE ~L!Done(r)
  <2> DEFINE q == [listReq[r] EXCEPT !.pc = "write"]
  <2>1. listReq' = [listReq EXCEPT ![r] = q] /\ listReq[r].items \subseteq L!At(listReq[r].home)
    BY <1>3 DEF L!CheckDevices, L!Goto
  <2>2. OwnOnly(listReq[r])
    OBVIOUS
  <2>3. /\ q \in ListRequests /\ q.home = listReq[r].home /\ q.had = listReq[r].had /\ q.pc = "write"
        /\ q.list = listReq[r].list /\ q.op = listReq[r].op /\ q.used = listReq[r].used
        /\ q.items = listReq[r].items
    BY <1>1 DEF ListRequests
  <2> HIDE DEF q
  <2>4. OwnOnly(q) /\ ~Replacing(q)
    BY <1>1, <2>1, <2>2, <2>3 DEF OwnOnly, Busy, Replacing
  <2>5. /\ Busy(q) => Busy(listReq[r]) /\ q.list = listReq[r].list
        /\ Creating(q) => Creating(listReq[r])
    BY <1>1, <2>3 DEF Busy, Creating
  <2> QED BY <1>1, <2>1, <2>3, <2>4, <2>5, RequestMoves DEF q
<1> QED BY <1>2, <1>3

\* A row is stored or deleted, by a request that is nobody else's business.
LEMMA RowChanges ==
    ASSUME ListsInv, NEW r \in Reqs, NEW q \in ListRequests, NEW l \in Lists, NEW new \in ListRows,
           Busy(listReq[r]), l = listReq[r].list,
           listReq' = [listReq EXCEPT ![r] = q], list' = [list EXCEPT ![l] = new],
           UNCHANGED place, OwnOnly(q), ~Replacing(q), ~Creating(q),
           Busy(q) => q.list = l,
           new.items = new.meant, new.home \in Homes \/ new = L!Unborn,
           lock' \in [Lists -> Reqs \cup {L!Nobody}],
           \A k \in Lists : \A t \in Reqs \ {r} : lock[k] = t => lock'[k] = t,
           \A t \in Reqs \ {r} : Creating(listReq[t]) => listReq[t].list # l,
           \A t \in Reqs \ {r} : HoldsGroup(t) /\ Replacing(listReq[t]) /\ listReq[t].found
               => listReq[t].list # l
    PROVE  ListsInv'
<1> USE DEF ListsInv
<1>1. /\ listReq' \in [Reqs -> ListRequests] /\ listReq'[r] = q
      /\ \A t \in Reqs \ {r} : listReq'[t] = listReq[t]
      /\ list' \in [Lists -> ListRows] /\ list'[l] = new
      /\ \A k \in Lists \ {l} : list'[k] = list[k]
  OBVIOUS
<1>2. \A k \in Lists : (list'[k] = L!Unborn \/ list'[k].home \in Homes) /\ list'[k].items = list'[k].meant
  BY <1>1
<1>3. ASSUME NEW t \in Reqs PROVE OwnOnly(listReq[t])'
  <2>1. \A h : L!At(h)' = L!At(h)
    BY DEF L!At
  <2>2. OwnOnly(q)'
    BY <2>1 DEF OwnOnly
  <2>3. OwnOnly(listReq[t]) /\ (t # r => OwnOnly(listReq[t])')
    BY <1>1, <2>1 DEF OwnOnly
  <2> QED BY <1>1, <2>2, <2>3
<1>4. ASSUME NEW t \in Reqs PROVE HoldsGroup(t)'
  <2>1. CASE t = r
    BY <1>1, <2>1 DEF HoldsGroup
  <2>2. CASE t # r
    <3>1. Replacing(listReq[t]) => listReq[t].list \in Lists
      BY DEF OwnOnly, Replacing, Busy
    <3> QED BY <1>1, <2>2, <3>1 DEF HoldsGroup
  <2> QED BY <2>1, <2>2
<1>5. ASSUME NEW t \in Reqs PROVE AloneWithNew(t)'
  <2>1. Creating(listReq[t]) => listReq[t].list \in Lists
    BY DEF OwnOnly, Creating, Busy
  <2> QED BY <1>1, <2>1 DEF AloneWithNew
<1> QED BY <1>1, <1>2, <1>3, <1>4, <1>5

LEMMA WriteKeepsLists ==
    ASSUME ListsInv, NEW r \in Reqs, L!Write(r)
    PROVE  ListsInv'
<1> USE DEF ListsInv
<1>1. /\ UNCHANGED <<place, lock>> /\ listReq[r].pc = "write" /\ listReq[r] \in ListRequests
      /\ listReq[r].op = "create" \/ (listReq[r].op = "save" /\ KindOf[listReq[r].list] # "group")
  BY DEF L!Write, L!Kind
<1>2. CASE L!Done(r) /\ UNCHANGED list
  BY <1>1, <1>2, ListDone
<1>3. CASE L!Stores(r) /\ (listReq[r].op = "create" \/ L!Row(r).alive)
  <2> DEFINE q == [listReq[r] EXCEPT !.pc = "answer", !.used = listReq[r].items]
             new == [alive |-> TRUE, home |-> listReq[r].home, meant |-> listReq[r].items,
                     items |-> listReq[r].items]
             l == listReq[r].list
  <2>1. listReq' = [listReq EXCEPT ![r] = q] /\ list' = [list EXCEPT ![l] = new]
    BY <1>3 DEF L!Stores, L!Saved
  <2>2. OwnOnly(listReq[r]) /\ AloneWithNew(r)
    OBVIOUS
  <2>3. /\ q \in ListRequests /\ q.home = listReq[r].home /\ q.had = listReq[r].had /\ q.pc = "answer"
        /\ q.list = l /\ q.used = listReq[r].items
    BY <1>1 DEF ListRequests
  <2>4. /\ new \in ListRows /\ new.items = new.meant /\ new.home = listReq[r].home
        /\ l \in Lists /\ listReq[r].home \in Homes /\ Busy(listReq[r])
    BY <1>1, <2>2 DEF ListRows, OwnOnly, Busy, ListRequests
  <2> HIDE DEF q, new
  <2>5. OwnOnly(q) /\ ~Replacing(q) /\ ~Creating(q)
    BY <1>1, <2>2, <2>3 DEF OwnOnly, Busy, Replacing, Creating
  <2>6. ASSUME NEW t \in Reqs \ {r}
        PROVE  /\ Creating(listReq[t]) => listReq[t].list # l
               /\ HoldsGroup(t) /\ Replacing(listReq[t]) /\ listReq[t].found => listReq[t].list # l
    <3>1. Creating(listReq[t]) => listReq[t].list # l
      BY <2>4, <2>6 DEF AloneWithNew
    <3>2. OwnOnly(listReq[t]) /\ (Replacing(listReq[t]) => Busy(listReq[t]))
      BY DEF Replacing, Busy
    <3>3. CASE listReq[r].op = "create"
      <4>1. Creating(listReq[r])
        BY <1>1, <3>3 DEF Creating
      <4> QED BY <2>2, <2>6, <3>1, <3>2, <4>1 DEF AloneWithNew
    <3>4. CASE listReq[r].op # "create"
      BY <1>1, <3>1, <3>2, <3>4 DEF OwnOnly
    <3> QED BY <3>3, <3>4
  <2> HIDE DEF l
  <2>7. l = listReq[r].list
    BY DEF l
  <2> QED BY <1>1, <2>1, <2>3, <2>4, <2>5, <2>6, <2>7, RowChanges
<1> QED BY <1>2, <1>3 DEF L!Write

LEMMA LockGroupKeepsLists ==
    ASSUME ListsInv, NEW r \in Reqs, L!LockGroup(r)
    PROVE  ListsInv'
<1> USE DEF ListsInv
<1> DEFINE l == listReq[r].list
           q == [listReq[r] EXCEPT !.pc = "drop", !.found = list[l].alive]
<1>1. /\ UNCHANGED <<place, list>> /\ listReq[r].pc = "write" /\ listReq[r] \in ListRequests
      /\ listReq[r].op = "save" /\ KindOf[l] = "group" /\ lock[l] = L!Nobody
      /\ lock' = IF list[l].alive THEN [lock EXCEPT ![l] = r] ELSE lock
      /\ listReq' = [listReq EXCEPT ![r].pc = "drop", ![r].found = list[l].alive]
  BY DEF L!LockGroup, L!Kind, L!Row
<1>2. OwnOnly(listReq[r]) /\ l \in Lists /\ list[l].alive \in BOOLEAN
  <2>1. OwnOnly(listReq[r]) /\ l \in Lists
    BY <1>1 DEF OwnOnly, Busy
  <2> QED BY <2>1 DEF ListRows
<1>3. /\ q \in ListRequests /\ q.home = listReq[r].home /\ q.had = listReq[r].had /\ q.pc = "drop"
      /\ q.list = l /\ q.used = listReq[r].used /\ q.items = listReq[r].items /\ q.op = listReq[r].op
      /\ q.found = list[l].alive
  BY <1>1, <1>2 DEF ListRequests
<1>4. listReq' = [listReq EXCEPT ![r] = q]
  BY <1>1
<1> HIDE DEF q
<1>5. OwnOnly(q) /\ ~Creating(q) /\ (Busy(q) => Busy(listReq[r]))
  BY <1>1, <1>2, <1>3 DEF OwnOnly, Busy, Replacing, Creating
<1>6. \A t \in Reqs : t # L!Nobody
  BY PartsAssumption DEF L!ConstantsAssumption, L!Nobody
<1>7. /\ lock' \in [Lists -> Reqs \cup {L!Nobody}]
      /\ \A k \in Lists : \A t \in Reqs \ {r} : lock[k] = t => lock'[k] = t
      /\ list[l].alive => lock'[l] = r
  BY <1>1, <1>2, <1>6
<1> HIDE DEF l
<1>8. l = listReq[r].list
  BY DEF l
<1> HIDE DEF ListsInv
<1> QED BY <1>1, <1>3, <1>4, <1>5, <1>7, <1>8, RequestMoves

LEMMA DropKeepsLists ==
    ASSUME ListsInv, NEW r \in Reqs, L!DropMembers(r)
    PROVE  ListsInv'
<1> USE DEF ListsInv
<1> DEFINE l == listReq[r].list
           q == [listReq[r] EXCEPT !.pc = "insert", !.old = list[l].items]
<1>1. /\ UNCHANGED <<place, list, lock>> /\ listReq[r].pc = "drop" /\ listReq[r] \in ListRequests
      /\ listReq' = [listReq EXCEPT ![r].pc = "insert", ![r].old = list[l].items]
  BY DEF L!DropMembers, L!Row
<1>2. OwnOnly(listReq[r]) /\ HoldsGroup(r) /\ l \in Lists /\ list[l].items \in SUBSET Devices
  <2>1. OwnOnly(listReq[r]) /\ HoldsGroup(r) /\ l \in Lists
    BY <1>1 DEF OwnOnly, Busy
  <2> QED BY <2>1 DEF ListRows
<1>3. /\ q \in ListRequests /\ q.home = listReq[r].home /\ q.had = listReq[r].had /\ q.pc = "insert"
      /\ q.list = l /\ q.used = listReq[r].used /\ q.items = listReq[r].items /\ q.op = listReq[r].op
      /\ q.found = listReq[r].found /\ q.old = list[l].items
  BY <1>1, <1>2 DEF ListRequests
<1>4. listReq' = [listReq EXCEPT ![r] = q]
  BY <1>1
<1> HIDE DEF q
<1>5. OwnOnly(q) /\ ~Creating(q) /\ (Busy(q) => Busy(listReq[r]))
  BY <1>1, <1>2, <1>3 DEF OwnOnly, Busy, Replacing, Creating
<1>6. q.found => lock[q.list] = r
  BY <1>1, <1>2, <1>3 DEF HoldsGroup, Replacing
<1> HIDE DEF l
<1>7. l = listReq[r].list
  BY DEF l
<1> QED BY <1>1, <1>3, <1>4, <1>5, <1>6, <1>7, RequestMoves

\* COMMIT or ROLLBACK gives up the locks of one request only.
LEMMA Unlocks ==
    ASSUME ListsInv, NEW r \in Reqs, L!Unlock(r)
    PROVE  /\ lock' \in [Lists -> Reqs \cup {L!Nobody}]
           /\ \A k \in Lists : \A t \in Reqs \ {r} : lock[k] = t => lock'[k] = t
BY DEF ListsInv, L!Unlock

LEMMA InsertKeepsLists ==
    ASSUME ListsInv, NEW r \in Reqs, L!InsertMembers(r)
    PROVE  ListsInv'
<1> USE DEF ListsInv
<1>1. /\ UNCHANGED place /\ listReq[r].pc = "insert" /\ listReq[r] \in ListRequests /\ L!Unlock(r)
  BY DEF L!InsertMembers
<1>2. CASE L!Done(r) /\ UNCHANGED list
  BY <1>1, <1>2, ListDone, Unlocks
<1>3. CASE ~(L!Done(r) /\ UNCHANGED list)
  <2> DEFINE l == listReq[r].list
             kept == list[l].items \ listReq[r].old
             q == [listReq[r] EXCEPT !.pc = "answer", !.used = listReq[r].items]
             new == [list[l] EXCEPT !.meant = listReq[r].items, !.items = kept \cup listReq[r].items]
  <2>1. /\ list' = [list EXCEPT ![l].meant = listReq[r].items,
                               ![l].items = kept \cup listReq[r].items]
        /\ listReq' = [listReq EXCEPT ![r].pc = "answer", ![r].used = listReq[r].items]
        /\ list[l].alive /\ listReq[r].found
    BY <1>3 DEF L!InsertMembers, L!Row
  <2>2. OwnOnly(listReq[r]) /\ HoldsGroup(r) /\ l \in Lists /\ Busy(listReq[r]) /\ Replacing(listReq[r])
    BY <1>1 DEF OwnOnly, Busy, Replacing
  <2>3. kept = {} /\ lock[l] = r /\ listReq[r].op = "save" /\ KindOf[l] = "group"
        /\ listReq[r].items \subseteq listReq[r].had
    BY <1>1, <2>1, <2>2 DEF HoldsGroup, OwnOnly
  <2>4. list[l] \in ListRows /\ list[l].home \in Homes
    <3>1. list[l] # L!Unborn
      BY <2>1 DEF L!Unborn
    <3> QED BY <2>2, <3>1
  <2>5. /\ q \in ListRequests /\ q.home = listReq[r].home /\ q.had = listReq[r].had /\ q.pc = "answer"
        /\ q.list = l /\ q.used = listReq[r].items
    BY <1>1 DEF ListRequests
  <2>6. new \in ListRows /\ new.items = new.meant /\ new.home \in Homes
    BY <1>1, <2>3, <2>4 DEF ListRows, ListRequests
  <2>7. list' = [list EXCEPT ![l] = new] /\ listReq' = [listReq EXCEPT ![r] = q]
    BY <2>1
  <2> HIDE DEF q, new
  <2>8. OwnOnly(q) /\ ~Replacing(q) /\ ~Creating(q)
    BY <1>1, <2>2, <2>3, <2>5 DEF OwnOnly, Busy, Replacing, Creating
  <2>9. ASSUME NEW t \in Reqs \ {r}
        PROVE  /\ Creating(listReq[t]) => listReq[t].list # l
               /\ HoldsGroup(t) /\ Replacing(listReq[t]) /\ listReq[t].found => listReq[t].list # l
    BY <2>2, <2>3, <2>9 DEF AloneWithNew, HoldsGroup
  <2> HIDE DEF l, kept
  <2>10. l = listReq[r].list
    BY DEF l
  <2>11. /\ lock' \in [Lists -> Reqs \cup {L!Nobody}]
         /\ \A k \in Lists : \A t \in Reqs \ {r} : lock[k] = t => lock'[k] = t
    BY <1>1, Unlocks
  <2> HIDE DEF ListsInv
  <2> QED BY <1>1, <2>2, <2>5, <2>6, <2>7, <2>8, <2>9, <2>10, <2>11, RowChanges
<1> QED BY <1>2, <1>3

LEMMA DeleteKeepsLists ==
    ASSUME ListsInv, NEW r \in Reqs, L!DeleteList(r)
    PROVE  ListsInv'
<1> USE DEF ListsInv
<1> DEFINE l == listReq[r].list
           q == [L!Idle EXCEPT !.pc = "done"]
           new == [list[l] EXCEPT !.alive = FALSE, !.items = {}, !.meant = {}]
<1>1. /\ UNCHANGED <<place, lock>> /\ lock' \in [Lists -> Reqs \cup {L!Nobody}]
      /\ listReq[r].pc = "write" /\ listReq[r].op = "delete"
      /\ listReq[r] \in ListRequests /\ lock[l] = L!Nobody
      /\ list' = [list EXCEPT ![l].alive = FALSE, ![l].items = {}, ![l].meant = {}]
      /\ listReq' = [listReq EXCEPT ![r] = q]
  BY DEF L!DeleteList, L!Done
<1>2. l \in Lists /\ Busy(listReq[r])
  BY <1>1 DEF OwnOnly, Busy
<1>3. /\ new \in ListRows /\ new.items = new.meant /\ (new.home \in Homes \/ new = L!Unborn)
      /\ list' = [list EXCEPT ![l] = new]
  <2>1. list[l] \in ListRows /\ (list[l] = L!Unborn \/ list[l].home \in Homes)
    BY <1>2
  <2>2. new \in ListRows /\ new.items = new.meant /\ new.home = list[l].home
    BY <2>1 DEF ListRows
  <2>3. list[l] = L!Unborn => new = L!Unborn
    <3>1. \A a \in ListRows, b \in ListRows :
             a.alive = b.alive /\ a.home = b.home /\ a.meant = b.meant /\ a.items = b.items => a = b
      BY DEF ListRows
    <3>2. /\ new.alive = FALSE /\ new.meant = {} /\ new.items = {}
          /\ L!Unborn \in ListRows /\ L!Unborn.alive = FALSE
          /\ L!Unborn.meant = {} /\ L!Unborn.items = {}
      BY <2>1 DEF L!Unborn, ListRows
    <3> HIDE DEF new
    <3> QED BY <2>2, <3>1, <3>2
  <2>4. list' = [list EXCEPT ![l] = new]
    BY <1>1
  <2> HIDE DEF new
  <2> QED BY <2>1, <2>2, <2>3, <2>4
<1>4. q \in ListRequests /\ OwnOnly(q) /\ ~Busy(q) /\ ~Replacing(q) /\ ~Creating(q)
  BY RestOwnsNothing DEF Replacing, Creating, L!Idle
<1> HIDE DEF q, new
<1>5. \A t \in Reqs : t # L!Nobody
  BY PartsAssumption DEF L!ConstantsAssumption, L!Nobody
<1>6. ASSUME NEW t \in Reqs \ {r}
      PROVE  /\ Creating(listReq[t]) => listReq[t].list # l
             /\ HoldsGroup(t) /\ Replacing(listReq[t]) /\ listReq[t].found => listReq[t].list # l
  BY <1>1, <1>2, <1>5, <1>6 DEF AloneWithNew, HoldsGroup
<1> HIDE DEF l
<1>7. l = listReq[r].list
  BY DEF l
<1>8. \A k \in Lists : \A t \in Reqs \ {r} : lock[k] = t => lock'[k] = t
  BY <1>1
<1> HIDE DEF ListsInv
<1>9. /\ UNCHANGED place /\ lock' \in [Lists -> Reqs \cup {L!Nobody}] /\ listReq' = [listReq EXCEPT ![r] = q]
      /\ l \in Lists /\ Busy(listReq[r])
  BY <1>1, <1>2
<1>10. /\ \A t \in Reqs \ {r} : Creating(listReq[t]) => listReq[t].list # l
       /\ \A t \in Reqs \ {r} : HoldsGroup(t) /\ Replacing(listReq[t]) /\ listReq[t].found
              => listReq[t].list # l
  BY <1>6
<1> HIDE DEF OwnOnly, Busy, Replacing, Creating, HoldsGroup
<1> QED BY <1>3, <1>4, <1>7, <1>8, <1>9, <1>10, RowChanges, ZenonT(90)

-----------------------------------------------------------------------------

LEMMA SceneKeepsLists ==
    ASSUME ListsInv, NEW r \in Reqs, L!CheckScene(r) \/ L!SendSceneAction(r)
    PROVE  ListsInv'
<1> USE DEF ListsInv
<1>1. /\ UNCHANGED <<place, list, lock>> /\ listReq[r] \in ListRequests
      /\ KindOf[listReq[r].list] = "scene" /\ Busy(listReq[r])
      /\ lock' \in [Lists -> Reqs \cup {L!Nobody}]
  BY DEF L!CheckScene, L!SendSceneAction, L!Kind, Busy
<1>2. OwnOnly(listReq[r])
  OBVIOUS
<1>3. CASE L!CheckScene(r)
  <2> DEFINE q == [listReq[r] EXCEPT !.pc = "send", !.left = @ \cap L!At(listReq[r].home)]
  <2>1. /\ listReq[r].pc = "own"
        /\ listReq' = [listReq EXCEPT ![r].pc = "send", ![r].left = @ \cap L!At(listReq[r].home)]
    BY <1>3 DEF L!CheckScene
  <2>2. listReq' = [listReq EXCEPT ![r] = q]
    BY <1>1, <2>1
  <2>3. /\ q \in ListRequests /\ q.home = listReq[r].home /\ q.had = listReq[r].had /\ q.pc = "send"
        /\ q.list = listReq[r].list /\ q.used = listReq[r].used
        /\ q.left \subseteq L!At(listReq[r].home)
    BY <1>1 DEF ListRequests
  <2> HIDE DEF q
  <2>4. OwnOnly(q) /\ ~Replacing(q) /\ ~Creating(q)
    BY <1>1, <1>2, <2>1, <2>3 DEF OwnOnly, Busy, Replacing, Creating
  <2> HIDE DEF ListsInv
  <2> QED BY <1>1, <2>2, <2>3, <2>4, RequestMoves
<1>4. ASSUME NEW d \in listReq[r].left, listReq[r].pc = "send",
             listReq' = [listReq EXCEPT ![r].left = @ \ {d}, ![r].used = @ \cup {d}]
      PROVE  ListsInv'
  <2> DEFINE q == [listReq[r] EXCEPT !.left = @ \ {d}, !.used = @ \cup {d}]
  <2>1. listReq' = [listReq EXCEPT ![r] = q]
    BY <1>1, <1>4
  <2>2. /\ q \in ListRequests /\ q.home = listReq[r].home /\ q.had = listReq[r].had /\ q.pc = "send"
        /\ q.list = listReq[r].list /\ q.used = listReq[r].used \cup {d}
        /\ q.left \subseteq listReq[r].left
    BY <1>1, <1>4 DEF ListRequests
  <2>3. d \in listReq[r].had
    BY <1>1, <1>2, <1>4 DEF OwnOnly
  <2> HIDE DEF q
  <2>4. OwnOnly(q) /\ ~Replacing(q) /\ ~Creating(q)
    BY <1>1, <1>2, <1>4, <2>2, <2>3 DEF OwnOnly, Busy, Replacing, Creating
  <2> HIDE DEF ListsInv
  <2> QED BY <1>1, <2>1, <2>2, <2>4, RequestMoves
<1>5. CASE L!Done(r)
  BY <1>1, <1>5, ListDone
<1> QED BY <1>3, <1>4, <1>5 DEF L!SendSceneAction

LEMMA ActionKeepsLists ==
    ASSUME ListsInv, NEW r \in Reqs, L!CheckAction(r) \/ L!SendAction(r)
    PROVE  ListsInv'
<1> USE DEF ListsInv
<1>1. /\ UNCHANGED <<place, list, lock>> /\ listReq[r] \in ListRequests
      /\ KindOf[listReq[r].list] = "automation" /\ Busy(listReq[r])
      /\ lock' \in [Lists -> Reqs \cup {L!Nobody}]
  BY DEF L!CheckAction, L!SendAction, L!Kind, Busy
<1>2. OwnOnly(listReq[r])
  OBVIOUS
<1>3. ASSUME NEW d \in listReq[r].left, listReq[r].pc = "own",
             listReq' = [listReq EXCEPT ![r].left = @ \ {d},
                           ![r].old = IF d \in L!At(listReq[r].home) THEN {d} ELSE {},
                           ![r].pc = IF d \in L!At(listReq[r].home) THEN "send" ELSE "own"]
      PROVE  ListsInv'
  <2> DEFINE old == IF d \in L!At(listReq[r].home) THEN {d} ELSE {}
             goes == IF d \in L!At(listReq[r].home) THEN "send" ELSE "own"
             q == [listReq[r] EXCEPT !.left = @ \ {d}, !.old = old, !.pc = goes]
  <2>1. listReq' = [listReq EXCEPT ![r] = q]
    BY <1>1, <1>3
  <2>2. old \in SUBSET Devices /\ old \subseteq L!At(listReq[r].home) /\ goes \in {"send", "own"}
    BY DEF L!At
  <2> HIDE DEF old, goes
  <2>3. /\ q \in ListRequests /\ q.home = listReq[r].home /\ q.had = listReq[r].had /\ q.pc = goes
        /\ q.list = listReq[r].list /\ q.used = listReq[r].used /\ q.old = old
    BY <1>1, <2>2 DEF ListRequests
  <2> HIDE DEF q
  <2>4. OwnOnly(q) /\ ~Replacing(q) /\ ~Creating(q)
    BY <1>1, <1>2, <1>3, <2>2, <2>3 DEF OwnOnly, Busy, Replacing, Creating
  <2> HIDE DEF ListsInv
  <2> QED BY <1>1, <2>1, <2>3, <2>4, RequestMoves
<1>4. ASSUME NEW goes \in {"own", "again"}, listReq[r].pc \in {"send", "again"},
             listReq' = [listReq EXCEPT ![r].pc = goes, ![r].used = @ \cup listReq[r].old]
      PROVE  ListsInv'
  <2> DEFINE q == [listReq[r] EXCEPT !.pc = goes, !.used = @ \cup listReq[r].old]
  <2>1. listReq' = [listReq EXCEPT ![r] = q]
    BY <1>1, <1>4
  <2>2. /\ q \in ListRequests /\ q.home = listReq[r].home /\ q.had = listReq[r].had /\ q.pc = goes
        /\ q.list = listReq[r].list /\ q.used = listReq[r].used \cup listReq[r].old
        /\ q.old = listReq[r].old
    BY <1>1, <1>4 DEF ListRequests
  <2>3. listReq[r].old \subseteq listReq[r].had
    BY <1>1, <1>2, <1>4 DEF OwnOnly
  <2> HIDE DEF q
  <2>4. OwnOnly(q) /\ ~Replacing(q) /\ ~Creating(q)
    BY <1>1, <1>2, <1>4, <2>2, <2>3 DEF OwnOnly, Busy, Replacing, Creating
  <2> HIDE DEF ListsInv
  <2> QED BY <1>1, <2>1, <2>2, <2>4, RequestMoves
<1>5. CASE L!Done(r)
  BY <1>1, <1>5, ListDone
<1> QED BY <1>3, <1>4, <1>5 DEF L!CheckAction, L!SendAction

LEMMA StepLists == ListsInv /\ (L!Next \/ UNCHANGED listVars) => ListsInv'
<1> SUFFICES ASSUME ListsInv, L!Next \/ UNCHANGED listVars PROVE ListsInv'
  OBVIOUS
<1>1. ASSUME NEW d \in Devices, L!Move(d) PROVE ListsInv'
  BY <1>1, MoveKeepsLists
<1>2. ASSUME NEW r \in Reqs, L!Arrive(r) \/ L!Find(r) PROVE ListsInv'
  BY <1>2, ArriveKeepsLists, FindKeepsLists
<1>3. ASSUME NEW r \in Reqs, L!Save(r) PROVE ListsInv'
  <2>1. L!Answer(r) => L!Done(r) /\ UNCHANGED <<place, list, lock>>
    BY DEF L!Answer
  <2>2. CASE L!Answer(r)
    BY <2>1, <2>2, ListDone DEF ListsInv
  <2> QED BY <1>3, <2>2, CheckKeepsLists, WriteKeepsLists, LockGroupKeepsLists, DropKeepsLists,
             InsertKeepsLists, DeleteKeepsLists DEF L!Save
<1>4. ASSUME NEW r \in Reqs, L!Run(r) PROVE ListsInv'
  BY <1>4, SceneKeepsLists, ActionKeepsLists DEF L!Run
<1>5. CASE UNCHANGED listVars
  BY <1>5 DEF listVars, ListsInv, OwnOnly, HoldsGroup, AloneWithNew, L!At
<1> QED BY <1>1, <1>2, <1>3, <1>4, <1>5 DEF L!Next

ListsPart == part = "lists" => ListsInv

LEMMA ListsHold == MCSpec => []ListsPart
<1>1. MCInit => ListsPart
  BY InitLists DEF MCInit, ListsPart
<1>2. ListsPart /\ [MCNext]_<<part, vars, peopleVars, apiVars, listVars>> => ListsPart'
  BY StepLists DEF MCNext, ListsPart
<1> QED BY <1>1, <1>2, PTL DEF MCSpec

\* Claims and unclaims are counted.
LEMMA MovesHold == MCSpec => [](part = "lists" => moves \in 0..MaxMoves)
<1> DEFINE I == part = "lists" => moves \in 0..MaxMoves
<1>1. MCInit => I
  BY PartsAssumption DEF MCInit, L!Init, L!ConstantsAssumption
<1>2. I /\ [MCNext]_<<part, vars, peopleVars, apiVars, listVars>> => I'
  <2> SUFFICES ASSUME I, [MCNext]_<<part, vars, peopleVars, apiVars, listVars>>, part' = "lists"
               PROVE  moves' \in 0..MaxMoves
    OBVIOUS
  <2>1. moves \in 0..MaxMoves /\ (L!Next \/ UNCHANGED moves)
    BY DEF MCNext, listVars
  <2>2. UNCHANGED moves \/ (moves < MaxMoves /\ moves' = moves + 1)
    BY <2>1 DEF L!Next, L!Move, L!Arrive, L!Find, L!Save, L!Run, L!CheckDevices, L!Write, L!LockGroup,
       L!DropMembers, L!InsertMembers, L!DeleteList, L!Answer, L!CheckScene, L!SendSceneAction,
       L!CheckAction, L!SendAction
  <2> QED BY <2>1, <2>2, PartsAssumption DEF L!ConstantsAssumption
<1> QED BY <1>1, <1>2, PTL DEF MCSpec

\* The lists, their locks and the requests about them keep their types.
THEOREM ListsTypeCorrect == MCSpec => [](part = "lists" => L!TypeOK)
<1>1. ListsPart /\ (part = "lists" => moves \in 0..MaxMoves) => (part = "lists" => L!TypeOK)
  BY DEF ListsPart, ListsInv, ListRows, ListRequests, L!TypeOK, L!Anywhere
<1> QED BY <1>1, ListsHold, MovesHold, PTL

\* However saves of a group, its deletion and new saves cross, its members are
\* those of one save (routes/groups.js).
THEOREM GroupIsOfOneSave == MCSpec => []GroupFromOneSave
<1>1. ListsPart => GroupFromOneSave
  BY DEF ListsPart, ListsInv, GroupFromOneSave, L!GroupFromOneSave
<1> QED BY <1>1, ListsHold, PTL

\* What is saved or commanded was the household's at some moment of the request
\* (automations/engine.js, routes/scenes.js, groups.js).
THEOREM OwnDevicesOnly == MCSpec => []OnlyOwnDevices
<1>1. ListsPart => OnlyOwnDevices
  BY DEF ListsPart, ListsInv, OwnOnly, OnlyOwnDevices, L!OnlyOwnDevices
<1> QED BY <1>1, ListsHold, PTL

-----------------------------------------------------------------------------
(* API keys and hooks.                                                     *)

SeenTypes == [count : Nat, hooks : SUBSET HookIds, homes : SUBSET Homes, home : Homes \cup {NoHome},
              device : Switches, state : P!States \cup {"unknown"}]

Rights == [cred : BOOLEAN, homes : SUBSET Homes, all : BOOLEAN]

\* The hooks a revocation has found were made.
Found(s) == \A h \in s.hooks : hooks[h].state # "none"

ApiTypes ==
    /\ keys \in [KeyIds -> P!KeyRows] /\ hooks \in [HookIds -> P!HookRows]
    /\ home \in [Switches -> Homes \cup {NoHome}]
    /\ cache \in [Switches -> P!States \cup {"unknown"}] /\ relay \in [Switches -> P!States]
    /\ apiPc \in [Places -> P!Steps] /\ op \in [Places -> P!Ops \cup {P!NoOp}]
    /\ seen \in [Places -> SeenTypes] /\ had \in [Places -> Rights]
    /\ overlapped \in BOOLEAN
    /\ \A r \in Places : (P!Under(r) => op[r] \in P!Ops) /\ Found(seen[r])

\* The steps of each kind of request.
StepOf(kind, step) ==
    \/ kind = "createKey" /\ step \in {"count", "insert"}
    \/ kind \in {"revokeKey", "adminRevoke"} /\ step \in {"lock", "commit"}
    \/ kind = "createHook" /\ step \in {"homes", "key", "switch", "count", "insert"}
    \/ kind = "revokeHook" /\ step = "revoke"
    \/ kind = "useKey" /\ step \in {"auth", "homes", "switch", "send"}
    \/ kind = "useHook" /\ step \in {"lookup", "switch", "send"}

\* What a request has read, after each of its steps, it was entitled to at some moment.
Entitled(kind, step, s, h) ==
    /\ kind = "useHook" /\ step \in {"switch", "send"} => h.all
    /\ kind = "useKey" /\ step \in {"homes", "switch", "send"} => h.cred
    /\ kind = "createHook" /\ step \in {"switch", "count", "insert"} => h.cred
    /\ kind \in {"useKey", "createHook"} =>
           /\ step \in {"key", "switch", "send", "count", "insert"} => s.homes \subseteq h.homes
           /\ step \in {"send", "count", "insert"} => s.home \in h.homes

\* A key or hook that a request names was made; what its credential gives now is noted.
Noted(r) ==
    /\ P!Holds(r).cred => had[r].cred
    /\ P!Holds(r).homes \subseteq had[r].homes
    /\ P!Holds(r).all => had[r].all

ApiInv ==
    /\ ApiTypes
    /\ \A r \in Places : P!Under(r) =>
           /\ StepOf(op[r].kind, apiPc[r]) /\ P!Known(op[r]) /\ Noted(r)
           /\ Entitled(op[r].kind, apiPc[r], seen[r], had[r])

\* A request that has nobody beside it counts what is there when it inserts.
CapInv ==
    /\ \A r \in Places : \A q \in Places \ {r} : P!Under(r) /\ P!Under(q) => overlapped
    /\ ~overlapped =>
           /\ \A u \in Callers : Cardinality(P!KeysOf(u)) <= KeyCap
           /\ \A r \in Places : apiPc[r] = "insert" /\ op[r].kind = "createKey" =>
                  seen[r].count = Cardinality(P!KeysOf(op[r].user))

\* Finite sets are counted in the instance as they are here.
LEMMA SameCounts ==
    /\ \A S : P!Cardinality(S) = Cardinality(S)
    /\ \A S : P!IsFiniteSet(S) = IsFiniteSet(S)
<1>1. \A S : P!Cardinality(S) = Cardinality(S)
  BY DEF P!Cardinality, Cardinality
<1>2. \A S : P!IsFiniteSet(S) = IsFiniteSet(S)
  BY DEF P!IsFiniteSet, IsFiniteSet
<1> QED BY <1>1, <1>2

LEMMA FiniteIds ==
    /\ IsFiniteSet(KeyIds) /\ IsFiniteSet(HookIds) /\ KeyCap \in Nat \ {0} /\ HookCap \in Nat \ {0}
    /\ Made \subseteq KeyIds /\ Cardinality(Made) <= KeyCap
    /\ Commands \subseteq {"on", "off", "toggle"}
BY PartsAssumption, SameCounts DEF P!ConstantsAssumption

LEMMA OpsAre ==
    \A o \in P!Ops :
       /\ o.kind \in {"createKey", "revokeKey", "adminRevoke", "createHook", "revokeHook", "useKey", "useHook"}
       /\ o.kind \in {"createKey", "revokeKey", "createHook", "revokeHook"} => o.user \in Callers
       /\ o.kind \in {"revokeKey", "adminRevoke", "createHook", "useKey"} =>
              o.key \in KeyIds /\ "key" \in DOMAIN o
       /\ ("key" \in DOMAIN o => o.key \in KeyIds) /\ ("hook" \in DOMAIN o => o.hook \in HookIds)
       /\ o.kind \in {"createHook", "useKey"} => o.device \in Switches
       /\ o.kind \in {"revokeHook", "useHook"} => o.hook \in HookIds /\ "hook" \in DOMAIN o
BY DEF P!Ops

LEMMA RowsAre ==
    /\ P!NoKey \in P!KeyRows /\ P!NoKey.state = "none" /\ P!NoHook \in P!HookRows /\ P!NoHook.state = "none"
    /\ \A k \in P!KeyRows : k.state # "none" => k.state \in {"active", "revoked"} /\ k.owner \in Callers
    /\ \A h \in P!HookRows : h.state # "none" =>
           h.state \in {"active", "revoked"} /\ h.key \in KeyIds /\ h.device \in Switches
BY DEF P!KeyRows, P!HookRows, P!NoKey, P!NoHook

LEMMA HoldsTyped ==
    ASSUME NEW r \in Places
    PROVE  P!Holds(r) \in Rights /\ P!Holds(r)' \in Rights
<1>1. \A u : P!HomesOf(u) \in SUBSET Homes /\ P!HomesOf(u)' \in SUBSET Homes
  BY DEF P!HomesOf
<1>2. \A k : P!KeyGood(k) \in BOOLEAN /\ P!KeyGood(k)' \in BOOLEAN
  BY DEF P!KeyGood
<1>3. \A h : P!HookGood(h) \in BOOLEAN /\ P!HookGood(h)' \in BOOLEAN
  BY DEF P!HookGood
<1>4. \A c \in BOOLEAN, s \in SUBSET Homes, a \in BOOLEAN : [cred |-> c, homes |-> s, all |-> a] \in Rights
  BY DEF Rights
<1>5. P!Holds(r) \in Rights
  BY <1>1, <1>2, <1>3, <1>4 DEF P!Holds, P!NothingHad
<1>6. P!Holds(r)' \in Rights
  BY <1>1, <1>2, <1>3, <1>4 DEF P!Holds, P!NothingHad
<1> QED BY <1>5, <1>6

\* What a credential gives is noted as it changes, and never forgotten.
LEMMA Tracked ==
    ASSUME ApiTypes, P!Track
    PROVE  /\ had' \in [Places -> Rights] /\ overlapped' \in BOOLEAN /\ (overlapped => overlapped')
           /\ \A r \in Places : P!Under(r)' =>
                  /\ Noted(r)' /\ (had[r].cred => had'[r].cred)
                  /\ had[r].homes \subseteq had'[r].homes /\ (had[r].all => had'[r].all)
           /\ \A r \in Places : \A q \in Places \ {r} : P!Under(r)' /\ P!Under(q)' => overlapped'
<1> DEFINE new(r) == [cred |-> had[r].cred \/ P!Holds(r)'.cred,
                      homes |-> had[r].homes \cup P!Holds(r)'.homes,
                      all |-> had[r].all \/ P!Holds(r)'.all]
<1>1. /\ had' = [r \in Places |-> IF ~P!Under(r)' THEN P!NothingHad ELSE new(r)]
      /\ overlapped' = (overlapped \/ \E r, q \in Places : r # q /\ P!Under(r)' /\ P!Under(q)')
  BY DEF P!Track
<1>2. \A r \in Places : P!Holds(r)' \in Rights /\ had[r] \in Rights
  BY HoldsTyped DEF ApiTypes
<1>3. ASSUME NEW r \in Places
      PROVE  /\ new(r) \in Rights
             /\ new(r).cred = (had[r].cred \/ P!Holds(r)'.cred)
             /\ new(r).homes = had[r].homes \cup P!Holds(r)'.homes
             /\ new(r).all = (had[r].all \/ P!Holds(r)'.all)
  BY <1>2 DEF Rights
<1>4. P!NothingHad \in Rights
  BY DEF P!NothingHad, Rights
<1> HIDE DEF new
<1>5. had' \in [Places -> Rights]
  BY <1>1, <1>3, <1>4
<1>6. ASSUME NEW r \in Places, P!Under(r)'
      PROVE  /\ Noted(r)' /\ (had[r].cred => had'[r].cred)
             /\ had[r].homes \subseteq had'[r].homes /\ (had[r].all => had'[r].all)
  <2>1. had'[r] = new(r)
    BY <1>1, <1>6
  <2> QED BY <1>3, <2>1 DEF Noted
<1>7. overlapped' \in BOOLEAN /\ (overlapped => overlapped')
  BY <1>1 DEF ApiTypes
<1>8. \A r \in Places : \A q \in Places \ {r} : P!Under(r)' /\ P!Under(q)' => overlapped'
  BY <1>1
<1> QED BY <1>5, <1>6, <1>7, <1>8

LEMMA EntitledStays ==
    ASSUME NEW kind, NEW step, NEW s, NEW h, NEW g, Entitled(kind, step, s, h),
           h.cred => g.cred, h.homes \subseteq g.homes, h.all => g.all
    PROVE  Entitled(kind, step, s, g)
BY DEF Entitled

\* Rows keep their types, and a key or hook that was made is never unmade.
RowsKept ==
    /\ keys' \in [KeyIds -> P!KeyRows] /\ hooks' \in [HookIds -> P!HookRows]
    /\ home' \in [Switches -> Homes \cup {NoHome}]
    /\ cache' \in [Switches -> P!States \cup {"unknown"}] /\ relay' \in [Switches -> P!States]
    /\ \A k \in KeyIds : keys[k].state # "none" => keys'[k].state # "none"
    /\ \A h \in HookIds : hooks[h].state # "none" => hooks'[h].state # "none"

LEMMA KnownStays ==
    ASSUME NEW o \in P!Ops, P!Known(o), RowsKept
    PROVE  P!Known(o)'
<1>1. ("key" \in DOMAIN o => o.key \in KeyIds) /\ ("hook" \in DOMAIN o => o.hook \in HookIds)
  BY OpsAre
<1> QED BY <1>1 DEF P!Known, RowsKept

\* The rows change and no request moves.
LEMMA RowsMove ==
    ASSUME ApiInv, P!Track, RowsKept, NEW r \in Places, P!Under(r), P!Under(r)', apiPc'[r] = apiPc[r], op'[r] = op[r], seen'[r] = seen[r]
    PROVE  /\ StepOf(op'[r].kind, apiPc'[r]) /\ P!Known(op[r])' /\ Noted(r)'
           /\ Entitled(op'[r].kind, apiPc'[r], seen'[r], had'[r])
<1>1. /\ op[r] \in P!Ops /\ StepOf(op[r].kind, apiPc[r]) /\ P!Known(op[r])
      /\ Entitled(op[r].kind, apiPc[r], seen[r], had[r]) /\ ApiTypes
  BY DEF ApiInv, ApiTypes
<1>2. /\ Noted(r)' /\ (had[r].cred => had'[r].cred)
      /\ had[r].homes \subseteq had'[r].homes /\ (had[r].all => had'[r].all)
  BY <1>1, Tracked
<1>3. Entitled(op[r].kind, apiPc[r], seen[r], had'[r])
  BY <1>1, <1>2, EntitledStays
<1>4. \A o : o = op[r] => P!Known(o)'
  BY <1>1, KnownStays
<1>5. P!Known(op[r])'
  BY <1>4 DEF P!Known
<1> QED BY <1>1, <1>2, <1>3, <1>5

LEMMA ApiMoves ==
    ASSUME ApiInv, P!Track, RowsKept, NEW r \in Places, NEW step \in P!Steps, NEW s \in SeenTypes, NEW o \in P!Ops \cup {P!NoOp},
           apiPc' = [apiPc EXCEPT ![r] = step], op' = [op EXCEPT ![r] = o],
           seen' = [seen EXCEPT ![r] = s], Found(s),
           step # "idle" => /\ o \in P!Ops /\ P!Known(o) /\ StepOf(o.kind, step)
                            /\ Entitled(o.kind, step, s, had[r])
    PROVE  ApiInv'
<1>1. ApiTypes
  BY DEF ApiInv
<1>2. /\ apiPc' \in [Places -> P!Steps] /\ op' \in [Places -> P!Ops \cup {P!NoOp}]
      /\ seen' \in [Places -> SeenTypes]
      /\ apiPc'[r] = step /\ op'[r] = o /\ seen'[r] = s
      /\ \A q \in Places \ {r} : apiPc'[q] = apiPc[q] /\ op'[q] = op[q] /\ seen'[q] = seen[q]
  BY <1>1 DEF ApiTypes
<1>3. had' \in [Places -> Rights] /\ overlapped' \in BOOLEAN
  BY <1>1, Tracked
<1>4. ASSUME NEW q \in Places PROVE (P!Under(q)' => op'[q] \in P!Ops) /\ Found(seen[q])'
  <2>1. P!Under(q)' => op'[q] \in P!Ops
    BY <1>1, <1>2 DEF ApiTypes, P!Under
  <2>2. Found(seen[q]) /\ seen[q].hooks \in SUBSET HookIds /\ s.hooks \in SUBSET HookIds
    BY <1>1 DEF ApiTypes, SeenTypes
  <2>3. \A h \in seen'[q].hooks : hooks'[h].state # "none"
    BY <1>2, <2>2 DEF Found, RowsKept
  <2> QED BY <2>1, <2>3 DEF Found
<1>5. ApiTypes'
  BY <1>2, <1>3, <1>4 DEF ApiTypes, RowsKept
<1>6. ASSUME NEW q \in Places, P!Under(q)'
      PROVE  /\ StepOf(op'[q].kind, apiPc'[q]) /\ P!Known(op[q])' /\ Noted(q)'
             /\ Entitled(op'[q].kind, apiPc'[q], seen'[q], had'[q])
  <2>1. CASE q # r
    <3>1. P!Under(q) /\ apiPc'[q] = apiPc[q] /\ op'[q] = op[q] /\ seen'[q] = seen[q]
      BY <1>2, <1>6, <2>1 DEF P!Under
    <3> QED BY <1>6, <3>1, RowsMove
  <2>2. CASE q = r
    <3>1. /\ o \in P!Ops /\ P!Known(o) /\ StepOf(o.kind, step) /\ Entitled(o.kind, step, s, had[r])
      BY <1>2, <1>6, <2>2 DEF P!Under
    <3>2. /\ Noted(r)' /\ (had[r].cred => had'[r].cred)
          /\ had[r].homes \subseteq had'[r].homes /\ (had[r].all => had'[r].all)
      BY <1>1, <1>6, <2>2, Tracked
    <3>3. Entitled(o.kind, step, s, had'[r])
      BY <3>1, <3>2, EntitledStays
    <3>4. P!Known(o)'
      BY <3>1, KnownStays
    <3>5. P!Known(op[r])'
      BY <1>2, <3>4 DEF P!Known
    <3> QED BY <1>2, <2>2, <3>1, <3>2, <3>3, <3>5
  <2> QED BY <2>1, <2>2
<1> QED BY <1>5, <1>6 DEF ApiInv

LEMMA SameRows == ApiInv /\ UNCHANGED <<keys, hooks, home, cache, relay>> => RowsKept
BY DEF ApiInv, ApiTypes, RowsKept

LEMMA NothingIs ==
    /\ P!NothingSeen \in SeenTypes /\ P!NoOp \in P!Ops \cup {P!NoOp} /\ "idle" \in P!Steps
    /\ P!NothingHad \in Rights /\ Found(P!NothingSeen)
<1>1. P!NothingSeen.device \in Switches
  BY PartsAssumption DEF P!ConstantsAssumption, P!NothingSeen
<1> QED BY <1>1 DEF P!NothingSeen, SeenTypes, P!Steps, P!NothingHad, Rights, Found

LEMMA InitApi == P!Init => ApiInv
<1> SUFFICES ASSUME P!Init PROVE ApiInv
  OBVIOUS
<1>1. /\ apiPc = [r \in Places |-> "idle"] /\ op = [r \in Places |-> P!NoOp]
      /\ seen = [r \in Places |-> P!NothingSeen] /\ had = [r \in Places |-> P!NothingHad]
      /\ hooks = [h \in HookIds |-> P!NoHook] /\ home \in [Switches -> Homes]
      /\ relay = [d \in Switches |-> "off"] /\ cache = relay /\ overlapped = FALSE
  BY DEF P!Init
<1>2. PICK u \in Callers :
         keys = [k \in KeyIds |-> IF k \in Made THEN [state |-> "active", owner |-> u] ELSE P!NoKey]
  BY DEF P!Init
<1>3. [state |-> "active", owner |-> u] \in P!KeyRows
  BY DEF P!KeyRows
<1>4. keys \in [KeyIds -> P!KeyRows]
  BY <1>2, <1>3, RowsAre
<1>5. /\ apiPc \in [Places -> P!Steps] /\ op \in [Places -> P!Ops \cup {P!NoOp}]
      /\ seen \in [Places -> SeenTypes] /\ had \in [Places -> Rights]
      /\ hooks \in [HookIds -> P!HookRows] /\ home \in [Switches -> Homes \cup {NoHome}]
  BY <1>1, RowsAre, NothingIs
<1>6. relay \in [Switches -> P!States] /\ cache \in [Switches -> P!States \cup {"unknown"}]
  BY <1>1 DEF P!States
<1>7. \A r \in Places : ~P!Under(r) /\ Found(seen[r])
  BY <1>1, NothingIs DEF P!Under
<1> QED BY <1>1, <1>4, <1>5, <1>6, <1>7 DEF ApiInv, ApiTypes

LEMMA ArriveKeepsApi ==
    ASSUME ApiInv, P!Track, NEW r \in Places, NEW o \in P!Ops, P!Arrive(r, o)
    PROVE  ApiInv'
<1>1. /\ P!Known(o) /\ apiPc' = [apiPc EXCEPT ![r] = P!FirstStep(o.kind)]
      /\ op' = [op EXCEPT ![r] = o] /\ seen' = seen /\ seen[r] \in SeenTypes /\ Found(seen[r])
      /\ UNCHANGED <<keys, hooks, home, cache, relay>> /\ seen \in [Places -> SeenTypes]
  BY DEF P!Arrive, P!tables, P!states, ApiInv, ApiTypes
<1>2. seen' = [seen EXCEPT ![r] = seen[r]]
  BY <1>1
<1>3. /\ P!FirstStep(o.kind) \in P!Steps /\ StepOf(o.kind, P!FirstStep(o.kind))
      /\ Entitled(o.kind, P!FirstStep(o.kind), seen[r], had[r])
  <2>1. o.kind \in {"createKey", "revokeKey", "adminRevoke", "createHook", "revokeHook", "useKey", "useHook"}
    BY OpsAre
  <2> QED BY <2>1 DEF P!FirstStep, P!Steps, StepOf, Entitled
<1>4. RowsKept
  BY <1>1, SameRows
<1> QED BY <1>1, <1>2, <1>3, <1>4, ApiMoves

\* A request is answered.
LEMMA Answered ==
    ASSUME ApiInv, P!Track, RowsKept, NEW r \in Places, P!Answer(r)
    PROVE  ApiInv'
<1>1. /\ apiPc' = [apiPc EXCEPT ![r] = "idle"] /\ op' = [op EXCEPT ![r] = P!NoOp]
      /\ seen' = [seen EXCEPT ![r] = P!NothingSeen]
  BY DEF P!Answer
<1> QED BY <1>1, NothingIs, ApiMoves

\* A request has read something and goes on.
LEMMA GoesOn ==
    ASSUME ApiInv, P!Track, RowsKept, NEW r \in Places, P!Under(r), NEW step \in P!Steps,
           NEW s \in SeenTypes, P!Goto(r, step), seen' = [seen EXCEPT ![r] = s], Found(s),
           StepOf(op[r].kind, step), Entitled(op[r].kind, step, s, had[r])
    PROVE  ApiInv'
<1>1. /\ apiPc' = [apiPc EXCEPT ![r] = step] /\ op' = op /\ op \in [Places -> P!Ops \cup {P!NoOp}]
      /\ op[r] \in P!Ops /\ P!Known(op[r])
  BY DEF P!Goto, ApiInv, ApiTypes
<1> DEFINE o == op[r]
<1>2. op' = [op EXCEPT ![r] = o]
  BY <1>1
<1>3. o \in P!Ops /\ P!Known(o) /\ StepOf(o.kind, step) /\ Entitled(o.kind, step, s, had[r])
  BY <1>1
<1> HIDE DEF o
<1> QED BY <1>1, <1>2, <1>3, ApiMoves

\* What is known of a request under way.
LEMMA UnderIs ==
    ASSUME ApiInv, NEW r \in Places, P!Under(r)
    PROVE  /\ op[r] \in P!Ops /\ seen[r] \in SeenTypes /\ had[r] \in Rights /\ Found(seen[r])
           /\ StepOf(op[r].kind, apiPc[r]) /\ P!Known(op[r]) /\ Noted(r)
           /\ Entitled(op[r].kind, apiPc[r], seen[r], had[r])
           /\ op[r].kind \in {"revokeKey", "adminRevoke", "createHook", "useKey"} =>
                  op[r].key \in KeyIds /\ keys[op[r].key].state \in {"active", "revoked"}
           /\ op[r].kind \in {"revokeHook", "useHook"} =>
                  op[r].hook \in HookIds /\ hooks[op[r].hook].state \in {"active", "revoked"}
<1>1. /\ op[r] \in P!Ops /\ seen[r] \in SeenTypes /\ had[r] \in Rights /\ Found(seen[r])
      /\ StepOf(op[r].kind, apiPc[r]) /\ P!Known(op[r]) /\ Noted(r)
      /\ Entitled(op[r].kind, apiPc[r], seen[r], had[r])
      /\ keys \in [KeyIds -> P!KeyRows] /\ hooks \in [HookIds -> P!HookRows]
  BY DEF ApiInv, ApiTypes
<1>2. ASSUME op[r].kind \in {"revokeKey", "adminRevoke", "createHook", "useKey"}
      PROVE  op[r].key \in KeyIds /\ keys[op[r].key].state \in {"active", "revoked"}
  <2>1. op[r].key \in KeyIds /\ "key" \in DOMAIN op[r]
    BY <1>1, <1>2, OpsAre
  <2>2. keys[op[r].key].state # "none"
    BY <1>1, <2>1 DEF P!Known
  <2> QED BY <1>1, <2>1, <2>2, RowsAre
<1>3. ASSUME op[r].kind \in {"revokeHook", "useHook"}
      PROVE  op[r].hook \in HookIds /\ hooks[op[r].hook].state \in {"active", "revoked"}
  <2>1. op[r].hook \in HookIds /\ "hook" \in DOMAIN op[r]
    BY <1>1, <1>3, OpsAre
  <2>2. hooks[op[r].hook].state # "none"
    BY <1>1, <2>1 DEF P!Known
  <2> QED BY <1>1, <2>1, <2>2, RowsAre
<1> QED BY <1>1, <1>2, <1>3

LEMMA CountKeepsApi ==
    ASSUME ApiInv, P!Track, NEW r \in Places, P!CountKeys(r) \/ P!CountHooks(r)
    PROVE  ApiInv'
<1>1. P!Under(r) /\ RowsKept /\ apiPc[r] = "count" /\ op[r].kind \in {"createKey", "createHook"}
      /\ P!Goto(r, "insert") /\ "insert" \in P!Steps
  BY SameRows DEF P!CountKeys, P!CountHooks, P!tables, P!states, P!Under, P!Steps
<1>2. PICK n \in Nat : seen' = [seen EXCEPT ![r].count = n]
  <2>1. \A u : P!KeysOf(u) \subseteq KeyIds
    BY DEF P!KeysOf, P!Active, ApiInv, ApiTypes
  <2>2. \A k : P!HooksOf(k) \subseteq HookIds
    BY DEF P!HooksOf, P!Active, ApiInv, ApiTypes
  <2>3. ASSUME NEW S, S \subseteq KeyIds \/ S \subseteq HookIds PROVE Cardinality(S) \in Nat
    <3>1. IsFiniteSet(S)
      BY <2>3, FiniteIds, FS_Subset
    <3> QED BY <3>1, FS_CardinalityType
  <2>4. CASE P!CountKeys(r)
    <3>1. seen' = [seen EXCEPT ![r].count = Cardinality(P!KeysOf(op[r].user))]
      BY <2>4, SameCounts DEF P!CountKeys
    <3>2. Cardinality(P!KeysOf(op[r].user)) \in Nat
      BY <2>1, <2>3
    <3> QED BY <3>1, <3>2
  <2>5. CASE P!CountHooks(r)
    <3>1. seen' = [seen EXCEPT ![r].count = Cardinality(P!HooksOf(op[r].key))]
      BY <2>5, SameCounts DEF P!CountHooks
    <3>2. Cardinality(P!HooksOf(op[r].key)) \in Nat
      BY <2>2, <2>3
    <3> QED BY <3>1, <3>2
  <2> QED BY <2>4, <2>5
<1> DEFINE s == [seen[r] EXCEPT !.count = n]
<1>3. seen' = [seen EXCEPT ![r] = s]
  BY <1>2 DEF ApiInv, ApiTypes
<1>4. s \in SeenTypes /\ s.homes = seen[r].homes /\ s.home = seen[r].home /\ Found(s)
  BY <1>1, UnderIs DEF SeenTypes, Found
<1> HIDE DEF s
<1>5. StepOf(op[r].kind, "insert") /\ Entitled(op[r].kind, "insert", s, had[r])
  BY <1>1, <1>4, UnderIs DEF StepOf, Entitled
<1> QED BY <1>1, <1>3, <1>4, <1>5, GoesOn

LEMMA InsertKeepsApi ==
    ASSUME ApiInv, P!Track, NEW r \in Places, P!InsertKey(r) \/ P!InsertHook(r)
    PROVE  ApiInv'
<1>1. P!Under(r) /\ apiPc[r] = "insert" /\ P!Answer(r) /\ UNCHANGED <<home, cache, relay>>
  BY DEF P!InsertKey, P!InsertHook, P!states, P!Under
<1>2. keys \in [KeyIds -> P!KeyRows] /\ hooks \in [HookIds -> P!HookRows]
  BY DEF ApiInv, ApiTypes
<1>3. CASE P!InsertKey(r)
  <2> DEFINE new == [state |-> "active", owner |-> op[r].user]
  <2>1. op[r].user \in Callers
    BY <1>1, <1>3, UnderIs, OpsAre DEF P!InsertKey
  <2>2. new \in P!KeyRows /\ new.state = "active"
    BY <2>1 DEF P!KeyRows
  <2>3. UNCHANGED hooks /\ (UNCHANGED keys \/ \E k \in KeyIds : keys' = [keys EXCEPT ![k] = new])
    BY <1>3 DEF P!InsertKey
  <2> HIDE DEF new
  <2>4. RowsKept
    BY <1>1, <1>2, <2>2, <2>3 DEF RowsKept, ApiInv, ApiTypes
  <2> QED BY <1>1, <2>4, Answered
<1>4. CASE P!InsertHook(r)
  <2> DEFINE new == [state |-> "active", key |-> op[r].key, device |-> op[r].device]
  <2>1. op[r].key \in KeyIds /\ op[r].device \in Switches
    BY <1>1, <1>4, UnderIs, OpsAre DEF P!InsertHook
  <2>2. new \in P!HookRows /\ new.state = "active"
    BY <2>1 DEF P!HookRows
  <2>3. UNCHANGED keys /\ (UNCHANGED hooks \/ \E h \in HookIds : hooks' = [hooks EXCEPT ![h] = new])
    BY <1>4 DEF P!InsertHook
  <2> HIDE DEF new
  <2>4. RowsKept
    BY <1>1, <1>2, <2>2, <2>3 DEF RowsKept, ApiInv, ApiTypes
  <2> QED BY <1>1, <2>4, Answered
<1> QED BY <1>3, <1>4

LEMMA Revoked ==
    /\ \A k \in P!KeyRows : k.state # "none" =>
           [k EXCEPT !.state = "revoked"] \in P!KeyRows /\ [k EXCEPT !.state = "revoked"].state = "revoked"
    /\ \A h \in P!HookRows : h.state # "none" =>
           [h EXCEPT !.state = "revoked"] \in P!HookRows /\ [h EXCEPT !.state = "revoked"].state = "revoked"
<1>1. \A k \in P!KeyRows : k.state # "none" =>
           [k EXCEPT !.state = "revoked"] \in P!KeyRows /\ [k EXCEPT !.state = "revoked"].state = "revoked"
  BY DEF P!KeyRows, P!NoKey
<1>2. \A h \in P!HookRows : h.state # "none" =>
           [h EXCEPT !.state = "revoked"] \in P!HookRows /\ [h EXCEPT !.state = "revoked"].state = "revoked"
  BY DEF P!HookRows, P!NoHook
<1> QED BY <1>1, <1>2

LEMMA RevokeKeepsApi ==
    ASSUME ApiInv, P!Track, NEW r \in Places, P!LockKey(r) \/ P!CommitRevoke(r) \/ P!RevokeHook(r)
    PROVE  ApiInv'
<1>1. keys \in [KeyIds -> P!KeyRows] /\ hooks \in [HookIds -> P!HookRows] /\ P!Under(r)
  BY DEF ApiInv, ApiTypes, P!LockKey, P!CommitRevoke, P!RevokeHook, P!Under
<1>2. CASE P!LockKey(r)
  <2>1. apiPc[r] = "lock" /\ RowsKept
    BY <1>2, SameRows DEF P!LockKey, P!tables, P!states
  <2>2. CASE P!Answer(r)
    BY <2>1, <2>2, Answered
  <2>3. CASE ~P!Answer(r)
    <3> DEFINE hs == P!HooksOf(op[r].key)
               s == [seen[r] EXCEPT !.hooks = hs]
    <3>1. seen' = [seen EXCEPT ![r].hooks = hs] /\ P!Goto(r, "commit")
      BY <1>2, <2>3 DEF P!LockKey
    <3>2. hs \in SUBSET HookIds /\ \A h \in hs : hooks[h].state # "none"
      BY <1>1 DEF P!HooksOf, P!Active
    <3> HIDE DEF hs
    <3>3. seen' = [seen EXCEPT ![r] = s]
      BY <3>1 DEF ApiInv, ApiTypes
    <3>4. s \in SeenTypes /\ Found(s)
      BY <1>1, <3>2, UnderIs DEF SeenTypes, Found
    <3> HIDE DEF s
    <3>5. StepOf(op[r].kind, "commit") /\ Entitled(op[r].kind, "commit", s, had[r]) /\ "commit" \in P!Steps
      BY <1>1, <2>1, UnderIs DEF StepOf, Entitled, P!Steps
    <3> QED BY <1>1, <2>1, <3>1, <3>3, <3>4, <3>5, GoesOn
  <2> QED BY <2>2, <2>3
<1>3. CASE P!CommitRevoke(r)
  <2>1. op[r].key \in KeyIds /\ keys[op[r].key].state \in {"active", "revoked"} /\ P!Answer(r)
    BY <1>1, <1>3, UnderIs DEF P!CommitRevoke, StepOf
  <2> DEFINE key == [keys[op[r].key] EXCEPT !.state = "revoked"]
             hook(h) == [hooks[h] EXCEPT !.state = "revoked"]
  <2>3. keys' = [keys EXCEPT ![op[r].key] = key] /\ key \in P!KeyRows /\ key.state = "revoked"
    BY <1>1, <1>3, <2>1, Revoked DEF P!CommitRevoke
  <2>4. hooks' = [h \in HookIds |-> IF h \in seen[r].hooks THEN hook(h) ELSE hooks[h]]
    BY <1>3 DEF P!CommitRevoke
  <2>5. \A h \in HookIds : hooks[h].state # "none" => hook(h) \in P!HookRows /\ hook(h).state = "revoked"
    BY <1>1, Revoked
  <2>6. (\A h \in seen[r].hooks : hooks[h].state # "none") /\ UNCHANGED <<home, cache, relay>>
    BY <1>1, <1>3, UnderIs DEF Found, P!CommitRevoke, P!states
  <2> HIDE DEF key, hook
  <2>7. RowsKept
    BY <1>1, <2>3, <2>4, <2>5, <2>6 DEF RowsKept, ApiInv, ApiTypes
  <2> QED BY <2>1, <2>7, Answered
<1>4. CASE P!RevokeHook(r)
  <2> DEFINE hook == [hooks[op[r].hook] EXCEPT !.state = "revoked"]
  <2>1. /\ op[r].hook \in HookIds /\ hooks[op[r].hook].state \in {"active", "revoked"} /\ P!Answer(r)
        /\ UNCHANGED <<keys, home, cache, relay>>
    BY <1>1, <1>4, UnderIs DEF P!RevokeHook, StepOf, P!states
  <2>2. hook \in P!HookRows /\ hook.state = "revoked"
    BY <1>1, <2>1, Revoked
  <2>3. hooks' = [hooks EXCEPT ![op[r].hook] = hook] \/ hooks' = hooks
    BY <1>1, <1>4, <2>1 DEF P!RevokeHook
  <2> HIDE DEF hook
  <2>4. RowsKept
    BY <1>1, <2>1, <2>2, <2>3 DEF RowsKept, ApiInv, ApiTypes
  <2> QED BY <2>1, <2>4, Answered
<1> QED BY <1>2, <1>3, <1>4

\* What the credential of a request gives at the moment its query runs.
LEMMA HoldsNow ==
    ASSUME ApiInv, NEW r \in Places, P!Under(r)
    PROVE  /\ op[r].kind = "useKey" =>
                  /\ P!KeyGood(op[r].key) => had[r].cred
                  /\ P!HomesOf(keys[op[r].key].owner) \subseteq had[r].homes
           /\ op[r].kind = "createHook" =>
                  /\ keys[op[r].key].state = "active" => had[r].cred
                  /\ P!HomesOf(op[r].user) \subseteq had[r].homes
           /\ op[r].kind = "useHook" => (P!HookGood(op[r].hook) => had[r].all)
<1>1. Noted(r)
  BY UnderIs
<1>2. CASE op[r].kind = "useKey"
  <2>1. keys[op[r].key].state # "none"
    BY <1>2, UnderIs
  <2>2. P!Holds(r) = [cred |-> P!KeyGood(op[r].key), homes |-> P!HomesOf(keys[op[r].key].owner), all |-> FALSE]
    BY <1>2, <2>1 DEF P!Holds
  <2> QED BY <1>1, <1>2, <2>2 DEF Noted
<1>3. CASE op[r].kind = "createHook"
  <2>1. P!Holds(r) = [cred |-> keys[op[r].key].state = "active", homes |-> P!HomesOf(op[r].user), all |-> FALSE]
    BY <1>3 DEF P!Holds
  <2>2. P!Holds(r).cred = (keys[op[r].key].state = "active") /\ P!Holds(r).homes = P!HomesOf(op[r].user)
    BY <2>1
  <2> HIDE DEF P!Holds
  <2> QED BY <1>1, <1>3, <2>2 DEF Noted
<1>4. CASE op[r].kind = "useHook"
  <2>1. hooks[op[r].hook].state # "none"
    BY <1>4, UnderIs
  <2>2. P!Holds(r) = [cred |-> FALSE, homes |-> {}, all |-> P!HookGood(op[r].hook)]
    BY <1>4, <2>1 DEF P!Holds
  <2> QED BY <1>1, <1>4, <2>2 DEF Noted
<1> QED BY <1>2, <1>3, <1>4

LEMMA ReadKeepsApi ==
    ASSUME ApiInv, P!Track, NEW r \in Places, P!ReadHomes(r)
    PROVE  ApiInv'
<1>1. P!Under(r) /\ RowsKept /\ apiPc[r] = "homes"
  BY SameRows DEF P!ReadHomes, P!tables, P!states, P!Under
<1> DEFINE hs == P!HomesOf(IF op[r].kind = "useKey" THEN keys[op[r].key].owner ELSE op[r].user)
           s == [seen[r] EXCEPT !.homes = hs]
           step == IF op[r].kind = "createHook" THEN "key" ELSE "switch"
<1>2. seen' = [seen EXCEPT ![r].homes = hs] /\ P!Goto(r, step)
  BY DEF P!ReadHomes
<1>3. op[r].kind \in {"createHook", "useKey"} /\ hs \subseteq had[r].homes /\ hs \in SUBSET Homes
  <2>1. op[r].kind \in {"createHook", "useKey"}
    BY <1>1, UnderIs DEF StepOf
  <2> QED BY <1>1, <2>1, HoldsNow DEF P!HomesOf
<1> HIDE DEF hs
<1>4. seen' = [seen EXCEPT ![r] = s]
  BY <1>2 DEF ApiInv, ApiTypes
<1>5. s \in SeenTypes /\ Found(s) /\ s.homes = hs
  BY <1>1, <1>3, UnderIs DEF SeenTypes, Found
<1> HIDE DEF s
<1>6. StepOf(op[r].kind, step) /\ Entitled(op[r].kind, step, s, had[r]) /\ step \in P!Steps
  BY <1>1, <1>3, <1>5, UnderIs DEF StepOf, Entitled, P!Steps
<1> HIDE DEF step
<1> QED BY <1>1, <1>2, <1>4, <1>5, <1>6, GoesOn

LEMMA CheckKeepsApi ==
    ASSUME ApiInv, P!Track, NEW r \in Places, P!ReadKey(r) \/ P!Authenticate(r)
    PROVE  ApiInv'
<1>1. P!Under(r) /\ RowsKept /\ apiPc[r] \in {"key", "auth"}
  BY SameRows DEF P!ReadKey, P!Authenticate, P!tables, P!states, P!Under
<1>2. CASE P!Answer(r)
  BY <1>1, <1>2, Answered
<1>3. CASE ~P!Answer(r)
  <2> DEFINE step == IF apiPc[r] = "key" THEN "switch" ELSE "homes"
  <2>1. P!Goto(r, step) /\ seen' = seen
    BY <1>3 DEF P!ReadKey, P!Authenticate
  <2>2. \/ apiPc[r] = "key" /\ op[r].kind = "createHook"
        \/ apiPc[r] = "auth" /\ op[r].kind = "useKey"
    BY <1>1, UnderIs DEF StepOf
  <2>3. had[r].cred
    BY <1>1, <1>3, <2>2, HoldsNow DEF P!ReadKey, P!Authenticate
  <2>4. seen' = [seen EXCEPT ![r] = seen[r]]
    BY <2>1 DEF ApiInv, ApiTypes
  <2>5. StepOf(op[r].kind, step) /\ Entitled(op[r].kind, step, seen[r], had[r]) /\ step \in P!Steps
    BY <1>1, <2>2, <2>3, UnderIs DEF StepOf, Entitled, P!Steps
  <2>6. seen[r] \in SeenTypes /\ Found(seen[r])
    BY <1>1, UnderIs
  <2> HIDE DEF step
  <2> QED BY <1>1, <2>1, <2>4, <2>5, <2>6, GoesOn
<1> QED BY <1>2, <1>3

LEMMA SeenAtHome ==
    ASSUME NEW q \in SeenTypes, NEW h \in Homes \cup {NoHome}, NEW x \in P!States \cup {"unknown"}
    PROVE  [q EXCEPT !.home = h, !.state = x] \in SeenTypes
BY DEF SeenTypes

LEMMA SeenOfHook ==
    ASSUME NEW q \in SeenTypes, NEW hs \in SUBSET Homes, NEW d \in Switches
    PROVE  [q EXCEPT !.homes = hs, !.device = d] \in SeenTypes
BY DEF SeenTypes

LEMMA GetKeepsApi ==
    ASSUME ApiInv, P!Track, NEW r \in Places, P!GetSwitch(r)
    PROVE  ApiInv'
<1>1. P!Under(r) /\ RowsKept /\ apiPc[r] = "switch"
  BY SameRows DEF P!GetSwitch, P!tables, P!states, P!Under
<1>2. CASE P!Answer(r)
  BY <1>1, <1>2, Answered
<1>3. CASE ~P!Answer(r)
  <2> DEFINE d == P!DeviceOf(r)
             s == [seen[r] EXCEPT !.home = home[d], !.state = cache[d]]
             step == IF op[r].kind = "createHook" THEN "count" ELSE "send"
  <2>1. /\ seen' = [seen EXCEPT ![r].home = home[d], ![r].state = cache[d]] /\ P!Goto(r, step)
        /\ home[d] \in seen[r].homes
    BY <1>3 DEF P!GetSwitch
  <2>2. op[r].kind \in {"createHook", "useKey", "useHook"}
    BY <1>1, UnderIs DEF StepOf
  <2>3. d \in Switches
    BY <1>1, <2>2, UnderIs, OpsAre DEF P!DeviceOf, SeenTypes
  <2> HIDE DEF d
  <2>4. home[d] \in Homes \cup {NoHome} /\ cache[d] \in P!States \cup {"unknown"}
    BY <2>3 DEF ApiInv, ApiTypes
  <2>5. seen' = [seen EXCEPT ![r] = s]
    BY <2>1 DEF ApiInv, ApiTypes
  <2>6. s \in SeenTypes /\ Found(s) /\ s.homes = seen[r].homes /\ s.home = home[d]
    <3>1. seen[r] \in SeenTypes /\ Found(seen[r])
      BY <1>1, UnderIs
    <3>2. s \in SeenTypes
      BY <2>4, <3>1, SeenAtHome
    <3>3. s.homes = seen[r].homes /\ s.home = home[d] /\ s.hooks = seen[r].hooks
      BY <3>1 DEF SeenTypes
    <3> QED BY <3>1, <3>2, <3>3 DEF Found
  <2> HIDE DEF s
  <2>7. StepOf(op[r].kind, step) /\ Entitled(op[r].kind, step, s, had[r]) /\ step \in P!Steps
    BY <1>1, <2>1, <2>2, <2>6, UnderIs DEF StepOf, Entitled, P!Steps
  <2> HIDE DEF step
  <2> QED BY <1>1, <2>1, <2>5, <2>6, <2>7, GoesOn
<1> QED BY <1>2, <1>3

LEMMA LookupKeepsApi ==
    ASSUME ApiInv, P!Track, NEW r \in Places, P!LookupHook(r)
    PROVE  ApiInv'
<1>1. P!Under(r) /\ RowsKept /\ apiPc[r] = "lookup" /\ hooks \in [HookIds -> P!HookRows]
  BY SameRows DEF P!LookupHook, P!tables, P!states, P!Under, ApiInv, ApiTypes
<1>2. CASE P!Answer(r)
  BY <1>1, <1>2, Answered
<1>3. CASE ~P!Answer(r)
  <2> DEFINE d == hooks[op[r].hook].device
             hs == {home[d]}
             s == [seen[r] EXCEPT !.homes = hs, !.device = d]
  <2>1. /\ seen' = [seen EXCEPT ![r].homes = hs, ![r].device = d] /\ P!Goto(r, "switch")
        /\ P!HookGood(op[r].hook)
    BY <1>3 DEF P!LookupHook
  <2>2. op[r].kind = "useHook" /\ op[r].hook \in HookIds
    BY <1>1, UnderIs DEF StepOf
  <2>3. d \in Switches /\ home[d] \in Homes /\ had[r].all
    BY <1>1, <2>1, <2>2, RowsAre, HoldsNow DEF P!HookGood, P!HomesOf
  <2>4. hs \in SUBSET Homes
    BY <2>3
  <2> HIDE DEF d, hs
  <2>5. seen' = [seen EXCEPT ![r] = s]
    BY <2>1 DEF ApiInv, ApiTypes
  <2>6. s \in SeenTypes /\ Found(s)
    <3>1. seen[r] \in SeenTypes /\ Found(seen[r])
      BY <1>1, UnderIs
    <3>2. s \in SeenTypes
      BY <2>3, <2>4, <3>1, SeenOfHook
    <3>3. s.hooks = seen[r].hooks
      BY <3>1 DEF SeenTypes
    <3> QED BY <3>1, <3>2, <3>3 DEF Found
  <2> HIDE DEF s
  <2>7. StepOf(op[r].kind, "switch") /\ Entitled(op[r].kind, "switch", s, had[r]) /\ "switch" \in P!Steps
    BY <2>2, <2>3 DEF StepOf, Entitled, P!Steps
  <2> QED BY <1>1, <2>1, <2>5, <2>6, <2>7, GoesOn
<1> QED BY <1>2, <1>3

LEMMA SendKeepsApi ==
    ASSUME ApiInv, P!Track, NEW r \in Places, P!Actuate(r) \/ P!ActuateFails(r)
    PROVE  ApiInv'
<1>1. P!Under(r) /\ apiPc[r] = "send" /\ P!Answer(r) /\ UNCHANGED <<keys, hooks, home, cache>>
  BY DEF P!Actuate, P!ActuateFails, P!tables, P!states, P!Under
<1>2. op[r].kind \in {"useKey", "useHook"} /\ op[r] \in P!Ops
  BY <1>1, UnderIs DEF StepOf
<1>3. P!Target(r) \in P!States
  <2>1. \A o \in P!Ops : o.kind \in {"useKey", "useHook"} => o.command \in {"on", "off", "toggle"}
    BY FiniteIds DEF P!Ops
  <2> QED BY <1>2, <2>1 DEF P!Target, P!ToggleTarget, P!States
<1>4. relay' \in [Switches -> P!States]
  <2>1. relay \in [Switches -> P!States]
    BY DEF ApiInv, ApiTypes
  <2>2. relay' = relay \/ relay' = [relay EXCEPT ![P!DeviceOf(r)] = P!Target(r)]
    BY DEF P!Actuate, P!ActuateFails, P!states
  <2> QED BY <1>3, <2>1, <2>2
<1>5. RowsKept
  BY <1>1, <1>4 DEF RowsKept, ApiInv, ApiTypes
<1> QED BY <1>1, <1>5, Answered

LEMMA EnvironmentKeepsApi ==
    ASSUME ApiInv, P!Track, P!Environment
    PROVE  ApiInv'
<1>1. UNCHANGED <<apiPc, op, seen, keys, hooks>>
  BY DEF P!Environment, P!Echo, P!Move, P!Disable, P!Enable, P!Join, P!Leave, P!requests, P!tables
<1>2. RowsKept
  <2>1. /\ relay \in [Switches -> P!States] /\ cache \in [Switches -> P!States \cup {"unknown"}]
        /\ home \in [Switches -> Homes \cup {NoHome}]
    BY DEF ApiInv, ApiTypes
  <2>2. /\ relay' \in [Switches -> P!States] /\ cache' \in [Switches -> P!States \cup {"unknown"}]
        /\ home' \in [Switches -> Homes \cup {NoHome}]
    BY <2>1 DEF P!Environment, P!Echo, P!Move, P!Disable, P!Enable, P!Join, P!Leave, P!tables, P!states
  <2> QED BY <1>1, <2>2 DEF RowsKept, ApiInv, ApiTypes
<1>3. ApiTypes /\ had' \in [Places -> Rights] /\ overlapped' \in BOOLEAN
  BY Tracked DEF ApiInv
<1>4. \A r \in Places : (P!Under(r)' => op'[r] \in P!Ops) /\ Found(seen[r])'
  <2> SUFFICES ASSUME NEW r \in Places PROVE (P!Under(r)' => op'[r] \in P!Ops) /\ Found(seen[r])'
    OBVIOUS
  <2>1. Found(seen[r]) /\ (P!Under(r) => op[r] \in P!Ops)
    BY <1>3 DEF ApiTypes
  <2> QED BY <1>1, <2>1 DEF Found, P!Under
<1>5. ApiTypes'
  BY <1>1, <1>2, <1>3, <1>4 DEF ApiTypes, RowsKept
<1>6. ASSUME NEW r \in Places, P!Under(r)'
      PROVE  /\ StepOf(op'[r].kind, apiPc'[r]) /\ P!Known(op[r])' /\ Noted(r)'
             /\ Entitled(op'[r].kind, apiPc'[r], seen'[r], had'[r])
  <2>1. P!Under(r) /\ apiPc'[r] = apiPc[r] /\ op'[r] = op[r] /\ seen'[r] = seen[r]
    BY <1>1, <1>6 DEF P!Under
  <2> QED BY <1>2, <1>6, <2>1, RowsMove
<1> QED BY <1>5, <1>6 DEF ApiInv

LEMMA StepApi == ApiInv /\ P!Next => ApiInv'
<1> SUFFICES ASSUME ApiInv, P!Next PROVE ApiInv'
  OBVIOUS
<1>1. P!Track
  BY DEF P!Next
<1>2. CASE \E r \in Places, o \in P!Ops : P!Arrive(r, o)
  BY <1>1, <1>2, ArriveKeepsApi
<1>3. CASE \E r \in Places : P!Handle(r)
  <2>1. PICK r \in Places : P!Handle(r)
    BY <1>3
  <2> HIDE DEF ApiInv
  <2> QED BY <1>1, <2>1, CountKeepsApi, InsertKeepsApi, RevokeKeepsApi, ReadKeepsApi, CheckKeepsApi,
             GetKeepsApi, LookupKeepsApi, SendKeepsApi DEF P!Handle
<1>4. CASE P!Environment
  BY <1>1, <1>4, EnvironmentKeepsApi
<1> QED BY <1>2, <1>3, <1>4 DEF P!Next

LEMMA ApiStays == ApiInv /\ UNCHANGED apiVars => ApiInv'
<1> SUFFICES ASSUME ApiInv, UNCHANGED apiVars PROVE ApiInv'
  OBVIOUS
<1>1. ApiTypes'
  <2>1. \A r \in Places : Found(seen[r])' = Found(seen[r])
    BY DEF Found, apiVars
  <2> QED BY <2>1 DEF ApiInv, ApiTypes, apiVars, P!Under
<1>2. \A r \in Places : P!Holds(r)' = P!Holds(r)
  BY DEF P!Holds, P!KeyGood, P!HomesOf, P!HookGood, apiVars
<1>3. \A r \in Places : Noted(r)' = Noted(r) /\ P!Known(op[r])' = P!Known(op[r])
  BY <1>2 DEF Noted, P!Known, apiVars
<1> QED BY <1>1, <1>3 DEF ApiInv, apiVars, P!Under

LEMMA RightsFollow == ApiInv => P!RightsHeld
<1> SUFFICES ASSUME ApiInv PROVE P!RightsHeld
  OBVIOUS
<1>1. ASSUME NEW r \in Places, apiPc[r] # "idle"
      PROVE  /\ Entitled(op[r].kind, apiPc[r], seen[r], had[r])
  BY <1>1, UnderIs DEF P!Under
<1> QED BY <1>1 DEF Entitled, P!RightsHeld, P!HookCommandAllowed, P!KeyCommandAllowed,
                    P!HookMadeAllowed, P!Sends

LEMMA KeysCounted ==
    ASSUME ApiInv, NEW u
    PROVE  /\ P!KeysOf(u) = {k \in KeyIds : keys[k].state = "active" /\ keys[k].owner = u}
           /\ IsFiniteSet(P!KeysOf(u)) /\ Cardinality(P!KeysOf(u)) \in Nat
<1>1. P!KeysOf(u) = {k \in KeyIds : keys[k].state = "active" /\ keys[k].owner = u}
  BY DEF P!KeysOf, P!Active, ApiInv, ApiTypes
<1>2. IsFiniteSet(P!KeysOf(u))
  <2>1. P!KeysOf(u) \subseteq KeyIds
    BY <1>1
  <2> QED BY <2>1, FiniteIds, FS_Subset
<1> QED BY <1>1, <1>2, FS_CardinalityType

LEMMA KeysCountedNext ==
    ASSUME ApiInv', NEW u
    PROVE  P!KeysOf(u)' = {k \in KeyIds : keys'[k].state = "active" /\ keys'[k].owner = u}
BY DEF P!KeysOf, P!Active, ApiInv, ApiTypes

LEMMA CapSame ==
    ASSUME CapInv, P!Track, ApiTypes, UNCHANGED keys,
           \A r \in Places :
               \/ ~(apiPc'[r] = "insert" /\ op'[r].kind = "createKey")
               \/ apiPc'[r] = apiPc[r] /\ op'[r] = op[r] /\ seen'[r] = seen[r]
               \/ op'[r] = op[r] /\ seen'[r].count = Cardinality(P!KeysOf(op[r].user))
    PROVE  CapInv'
<1>1. \A u : P!KeysOf(u)' = P!KeysOf(u)
  BY DEF P!KeysOf, P!Active
<1>2. (\A r \in Places : \A q \in Places \ {r} : P!Under(r)' /\ P!Under(q)' => overlapped') /\ (overlapped => overlapped')
  BY Tracked
<1>3. ASSUME ~overlapped, NEW r \in Places, apiPc'[r] = "insert", op'[r].kind = "createKey"
      PROVE  (seen[r].count = Cardinality(P!KeysOf(op[r].user)))'
  <2>1. P!KeysOf(op[r].user)' = {k \in DOMAIN keys' : keys'[k].state = "active" /\ keys'[k].owner = op'[r].user}
    BY DEF P!KeysOf, P!Active
  <2>2. \A u : P!KeysOf(u) = {k \in DOMAIN keys : keys[k].state = "active" /\ keys[k].owner = u}
    BY DEF P!KeysOf, P!Active
  <2>3. P!KeysOf(op[r].user)' = P!KeysOf(op'[r].user)
    BY <2>1, <2>2
  <2>4. CASE apiPc'[r] = apiPc[r] /\ op'[r] = op[r] /\ seen'[r] = seen[r]
    BY <1>3, <2>3, <2>4 DEF CapInv
  <2>5. CASE op'[r] = op[r] /\ seen'[r].count = Cardinality(P!KeysOf(op[r].user))
    BY <2>3, <2>5
  <2> QED BY <1>3, <2>4, <2>5
<1> QED BY <1>1, <1>2, <1>3 DEF CapInv

\* A request answered alone leaves nobody at an insert.
LEMMA CapAnswered ==
    ASSUME CapInv, P!Track, ApiTypes, NEW r \in Places, P!Under(r), P!Answer(r),
           ~overlapped => \A u \in Callers : Cardinality(P!KeysOf(u)') <= KeyCap
    PROVE  CapInv'
<1>1. (\A q \in Places : \A p \in Places \ {q} : P!Under(q)' /\ P!Under(p)' => overlapped') /\ (overlapped => overlapped')
  BY Tracked
<1>2. ASSUME ~overlapped, NEW q \in Places PROVE apiPc'[q] = "idle"
  <2>1. q # r => ~P!Under(q)
    BY <1>2 DEF CapInv
  <2> QED BY <2>1 DEF P!Answer, ApiTypes, P!Under
<1> QED BY <1>1, <1>2 DEF CapInv

LEMMA CapInsert ==
    ASSUME ApiInv, ApiInv', CapInv, P!Track, NEW r \in Places, P!InsertKey(r)
    PROVE  CapInv'
<1>1. /\ P!Under(r) /\ apiPc[r] = "insert" /\ op[r].kind = "createKey" /\ P!Answer(r) /\ ApiTypes
      /\ keys \in [KeyIds -> P!KeyRows] /\ KeyCap \in Nat
  BY FiniteIds DEF P!InsertKey, P!Under, ApiInv, ApiTypes
<1> DEFINE me == op[r].user
           new == [state |-> "active", owner |-> me]
<1>2. me \in Callers
  BY <1>1, UnderIs, OpsAre
<1>3. ASSUME ~overlapped, NEW u \in Callers PROVE Cardinality(P!KeysOf(u)') <= KeyCap
  <2>1. Cardinality(P!KeysOf(u)) <= KeyCap /\ seen[r].count = Cardinality(P!KeysOf(me))
    BY <1>1, <1>3 DEF CapInv
  <2>2. CASE UNCHANGED keys
    <3>1. P!KeysOf(u)' = P!KeysOf(u)
      BY <2>2 DEF P!KeysOf, P!Active
    <3> QED BY <2>1, <3>1
  <2>3. CASE ~UNCHANGED keys
    <3>1. PICK k \in KeyIds : seen[r].count < KeyCap /\ P!Fresh(keys, k) /\ keys' = [keys EXCEPT ![k] = new]
      BY <2>3 DEF P!InsertKey
    <3>2. keys[k].state = "none" /\ new.state = "active" /\ new.owner = me
      BY <3>1 DEF P!Fresh
    <3> HIDE DEF new, me
    <3>3. keys'[k] = new /\ \A j \in KeyIds \ {k} : keys'[j] = keys[j]
      BY <1>1, <3>1
    <3> DEFINE Now == P!KeysOf(u)
               Then == P!KeysOf(u)'
    <3>4. /\ Now = {j \in KeyIds : keys[j].state = "active" /\ keys[j].owner = u}
          /\ Then = {j \in KeyIds : keys'[j].state = "active" /\ keys'[j].owner = u}
          /\ IsFiniteSet(Now) /\ Cardinality(Now) \in Nat
      BY KeysCounted, KeysCountedNext
    <3>5. CASE u = me
      <4>1. Then = Now \cup {k} /\ k \notin Now
        BY <3>2, <3>3, <3>4, <3>5
      <4>2. Cardinality(Now) < KeyCap
        BY <2>1, <3>1, <3>5
      <4> HIDE DEF Now, Then
      <4>3. Cardinality(Then) = Cardinality(Now) + 1
        BY <3>4, <4>1, FS_AddElement
      <4>4. Cardinality(Then) <= KeyCap
        BY <1>1, <3>4, <4>2, <4>3
      <4> QED BY <4>4 DEF Then
    <3>6. CASE u # me
      <4>1. Then = Now
        BY <3>2, <3>3, <3>4, <3>6
      <4> QED BY <2>1, <4>1
    <3> QED BY <3>5, <3>6
  <2> QED BY <2>2, <2>3
<1> QED BY <1>1, <1>3, CapAnswered

LEMMA CapCommit ==
    ASSUME ApiInv, ApiInv', CapInv, P!Track, NEW r \in Places, P!CommitRevoke(r)
    PROVE  CapInv'
<1>1. /\ P!Under(r) /\ P!Answer(r) /\ ApiTypes /\ keys \in [KeyIds -> P!KeyRows] /\ KeyCap \in Nat
      /\ op[r].key \in KeyIds /\ keys' = [keys EXCEPT ![op[r].key].state = "revoked"]
      /\ keys[op[r].key].state # "none"
  <2>1. P!Under(r) /\ apiPc[r] = "commit"
    BY DEF P!CommitRevoke, P!Under
  <2>2. op[r].kind \in {"revokeKey", "adminRevoke"}
    BY <2>1, UnderIs DEF StepOf
  <2> QED BY <2>1, <2>2, UnderIs, FiniteIds DEF P!CommitRevoke, ApiInv, ApiTypes
<1> DEFINE revoked == [keys[op[r].key] EXCEPT !.state = "revoked"]
<1>2. revoked.state = "revoked" /\ keys'[op[r].key] = revoked /\ \A k \in KeyIds \ {op[r].key} : keys'[k] = keys[k]
  BY <1>1, Revoked
<1> HIDE DEF revoked
<1>3. ASSUME ~overlapped, NEW u \in Callers PROVE Cardinality(P!KeysOf(u)') <= KeyCap
  <2> DEFINE Now == P!KeysOf(u)
             Then == P!KeysOf(u)'
  <2>1. /\ Now = {j \in KeyIds : keys[j].state = "active" /\ keys[j].owner = u}
        /\ Then = {j \in KeyIds : keys'[j].state = "active" /\ keys'[j].owner = u}
        /\ IsFiniteSet(Now) /\ Cardinality(Now) \in Nat
    BY KeysCounted, KeysCountedNext
  <2>2. Then \subseteq Now
    BY <1>2, <2>1
  <2>3. Cardinality(Now) <= KeyCap
    BY <1>3 DEF CapInv
  <2> HIDE DEF Now, Then
  <2>4. Cardinality(Then) <= Cardinality(Now) /\ Cardinality(Then) \in Nat
    BY <2>1, <2>2, FS_Subset, FS_CardinalityType
  <2>5. Cardinality(Then) <= KeyCap
    BY <1>1, <2>1, <2>3, <2>4
  <2> QED BY <2>5 DEF Then
<1> QED BY <1>1, <1>3, CapAnswered

LEMMA CapHandle ==
    ASSUME ApiInv, ApiInv', CapInv, P!Track, NEW r \in Places, P!Handle(r)
    PROVE  CapInv'
<1> DEFINE Same(q) == apiPc'[q] = apiPc[q] /\ op'[q] = op[q] /\ seen'[q] = seen[q]
<1>1. /\ ApiTypes /\ apiPc \in [Places -> P!Steps] /\ op \in [Places -> P!Ops \cup {P!NoOp}]
      /\ seen \in [Places -> SeenTypes]
  BY DEF ApiInv, ApiTypes
<1>2. CASE P!InsertKey(r)
  BY <1>2, CapInsert
<1>3. CASE P!CommitRevoke(r)
  BY <1>3, CapCommit
<1>4. CASE P!CountKeys(r)
  <2> DEFINE n == Cardinality(P!KeysOf(op[r].user))
  <2>1. /\ seen' = [seen EXCEPT ![r].count = n] /\ P!Goto(r, "insert") /\ UNCHANGED keys
    BY <1>4, SameCounts DEF P!CountKeys, P!tables
  <2>2. seen'[r].count = n /\ \A q \in Places \ {r} : Same(q)
    <3> HIDE DEF n
    <3> QED BY <1>1, <2>1 DEF P!Goto, SeenTypes
  <2>3. op' = op
    BY <2>1 DEF P!Goto
  <2> QED BY <1>1, <2>1, <2>2, <2>3, CapSame
<1>5. CASE ~P!InsertKey(r) /\ ~P!CommitRevoke(r) /\ ~P!CountKeys(r)
  <2>1. UNCHANGED keys
    BY <1>5 DEF P!Handle, P!LockKey, P!ReadHomes, P!ReadKey, P!GetSwitch, P!CountHooks, P!InsertHook,
                P!RevokeHook, P!Authenticate, P!LookupHook, P!Actuate, P!ActuateFails, P!tables
  <2>2. \A q \in Places \ {r} : Same(q)
    BY <1>1, <1>5 DEF P!Handle, P!LockKey, P!ReadHomes, P!ReadKey, P!GetSwitch, P!CountHooks, P!InsertHook,
                P!RevokeHook, P!Authenticate, P!LookupHook, P!Actuate, P!ActuateFails, P!Goto, P!Answer
  <2>3. ~(apiPc'[r] = "insert" /\ op'[r].kind = "createKey")
    <3>1. apiPc'[r] = "insert" => P!CountHooks(r) \/ P!GetSwitch(r) \/ P!ReadHomes(r)
      BY <1>1, <1>5 DEF P!Handle, P!LockKey, P!ReadKey, P!InsertHook,
                  P!RevokeHook, P!Authenticate, P!LookupHook, P!Actuate, P!ActuateFails, P!Goto, P!Answer
    <3>2. P!GetSwitch(r) \/ P!ReadHomes(r) => apiPc'[r] # "insert"
      BY <1>1 DEF P!GetSwitch, P!ReadHomes, P!Goto, P!Answer
    <3>3. P!CountHooks(r) => op'[r].kind = "createHook"
      BY <1>1 DEF P!CountHooks, P!Goto
    <3> QED BY <3>1, <3>2, <3>3
  <2> QED BY <1>1, <2>1, <2>2, <2>3, CapSame
<1> QED BY <1>2, <1>3, <1>4, <1>5

LEMMA StepCap ==
    ASSUME ApiInv, ApiInv', CapInv, P!Next
    PROVE  CapInv'
<1>1. /\ P!Track /\ ApiTypes /\ apiPc \in [Places -> P!Steps] /\ op \in [Places -> P!Ops \cup {P!NoOp}]
  BY DEF P!Next, ApiInv, ApiTypes
<1>2. CASE \E r \in Places, o \in P!Ops : P!Arrive(r, o)
  <2>1. PICK r \in Places : \E o \in P!Ops : P!Arrive(r, o)
    BY <1>2
  <2>2. PICK o \in P!Ops : P!Arrive(r, o)
    BY <2>1
  <2>3. UNCHANGED keys /\ apiPc'[r] = P!FirstStep(o.kind)
        /\ \A q \in Places \ {r} : apiPc'[q] = apiPc[q] /\ op'[q] = op[q] /\ seen'[q] = seen[q]
    BY <1>1, <2>2 DEF P!Arrive, P!tables
  <2>4. P!FirstStep(o.kind) # "insert"
    <3>1. o.kind \in {"createKey", "revokeKey", "adminRevoke", "createHook", "revokeHook", "useKey", "useHook"}
      BY OpsAre
    <3> QED BY <3>1 DEF P!FirstStep
  <2> QED BY <1>1, <2>3, <2>4, CapSame
<1>3. CASE \E r \in Places : P!Handle(r)
  BY <1>1, <1>3, CapHandle
<1>4. CASE P!Environment
  <2>1. UNCHANGED <<keys, apiPc, op, seen>>
    BY <1>4 DEF P!Environment, P!Echo, P!Move, P!Disable, P!Enable, P!Join, P!Leave, P!requests, P!tables
  <2> QED BY <1>1, <2>1, CapSame
<1> QED BY <1>2, <1>3, <1>4 DEF P!Next

LEMMA InitCap == P!Init => CapInv
<1> SUFFICES ASSUME P!Init PROVE CapInv
  OBVIOUS
<1>1. \A r \in Places : apiPc[r] = "idle"
  BY DEF P!Init
<1>2. \A u : P!KeysOf(u) \subseteq Made
  BY DEF P!Init, P!KeysOf, P!Active, P!NoKey
<1>3. ASSUME NEW u PROVE Cardinality(P!KeysOf(u)) <= KeyCap
  <2>1. IsFiniteSet(Made) /\ Cardinality(Made) \in Nat
    BY FiniteIds, FS_Subset, FS_CardinalityType
  <2>2. Cardinality(P!KeysOf(u)) <= Cardinality(Made) /\ Cardinality(P!KeysOf(u)) \in Nat
    BY <1>2, <2>1, FS_Subset, FS_CardinalityType
  <2>3. Cardinality(Made) <= KeyCap /\ KeyCap \in Nat
    BY FiniteIds
  <2> QED BY <2>1, <2>2, <2>3
<1> QED BY <1>1, <1>3 DEF CapInv, P!Under

LEMMA CapStays == CapInv /\ UNCHANGED apiVars => CapInv'
BY DEF CapInv, apiVars, P!KeysOf, P!Active, P!Under

LEMMA KeysHold == MCSpec => [](part = "keys" => ApiInv /\ CapInv)
<1> DEFINE I == part = "keys" => ApiInv /\ CapInv
<1>1. MCInit => I
  BY InitApi, InitCap DEF MCInit
<1>2. I /\ [MCNext]_<<part, vars, peopleVars, apiVars, listVars>> => I'
  <2> SUFFICES ASSUME I, [MCNext]_<<part, vars, peopleVars, apiVars, listVars>>, part' = "keys"
               PROVE  ApiInv' /\ CapInv'
    BY DEF I
  <2>1. part = "keys" /\ (P!Next \/ UNCHANGED apiVars)
    BY DEF MCNext
  <2>2. ApiInv /\ CapInv
    BY <2>1
  <2> HIDE DEF ApiInv, CapInv
  <2>3. CASE P!Next
    BY <2>2, <2>3, StepApi, StepCap
  <2>4. CASE UNCHANGED apiVars
    BY <2>2, <2>4, ApiStays, CapStays
  <2> QED BY <2>1, <2>3, <2>4
<1> QED BY <1>1, <1>2, PTL DEF MCSpec

\* A revocation that holds its key has it to itself, and the key is active.
RevokeInv ==
    /\ living \in SUBSET (Callers \X Homes) /\ barred \in SUBSET Callers
    /\ \A r \in Places : ~P!Under(r) => op[r] = P!NoOp
    /\ \A r \in Places : apiPc[r] = "commit" =>
           /\ keys[op[r].key].state = "active"
           /\ \A q \in Places \ {r} : apiPc[q] = "commit" => op[q].key # op[r].key

LEMMA InitRevoke == P!Init => RevokeInv
BY PartsAssumption DEF P!Init, P!ConstantsAssumption, RevokeInv, P!Under

LEMMA RevokeMoves ==
    ASSUME ApiInv, RevokeInv, NEW r \in Places, NEW step, NEW o,
           apiPc' = [apiPc EXCEPT ![r] = step], op' = [op EXCEPT ![r] = o],
           UNCHANGED <<living, barred>>, step = "idle" => o = P!NoOp,
           \A q \in Places \ {r} : apiPc[q] = "commit" => keys'[op[q].key].state = "active",
           step = "commit" => /\ keys'[o.key].state = "active"
                              /\ \A q \in Places \ {r} : apiPc[q] = "commit" => op[q].key # o.key
    PROVE  RevokeInv'
<1>1. /\ apiPc'[r] = step /\ op'[r] = o
      /\ \A q \in Places \ {r} : apiPc'[q] = apiPc[q] /\ op'[q] = op[q]
  BY DEF ApiInv, ApiTypes
<1>2. \A q \in Places : ~P!Under(q)' => op'[q] = P!NoOp
  BY <1>1 DEF RevokeInv, P!Under
<1>3. ASSUME NEW q \in Places, apiPc'[q] = "commit"
      PROVE  /\ keys'[op'[q].key].state = "active"
             /\ \A t \in Places \ {q} : apiPc'[t] = "commit" => op'[t].key # op'[q].key
  <2>1. CASE q = r
    BY <1>1, <1>3, <2>1
  <2>2. CASE q # r
    BY <1>1, <1>3, <2>2 DEF RevokeInv
  <2> QED BY <2>1, <2>2
<1> QED BY <1>2, <1>3 DEF RevokeInv, P!NoOp

\* A request goes on, or is answered, and no key changes.
LEMMA NoKeyMoves ==
    ASSUME ApiInv, RevokeInv, NEW r \in Places, UNCHANGED <<keys, living, barred>>,
           P!Answer(r) \/ \E step \in P!Steps \ {"idle", "commit"} : P!Goto(r, step)
    PROVE  RevokeInv'
<1>1. \A q \in Places \ {r} : apiPc[q] = "commit" => keys'[op[q].key].state = "active"
  BY DEF RevokeInv
<1>2. CASE P!Answer(r)
  <2>1. apiPc' = [apiPc EXCEPT ![r] = "idle"] /\ op' = [op EXCEPT ![r] = P!NoOp]
    BY <1>2 DEF P!Answer
  <2> HIDE DEF ApiInv, RevokeInv
  <2> QED BY <1>1, <2>1, RevokeMoves
<1>3. ASSUME NEW step \in P!Steps \ {"idle", "commit"}, P!Goto(r, step) PROVE RevokeInv'
  <2>1. apiPc' = [apiPc EXCEPT ![r] = step] /\ op' = [op EXCEPT ![r] = op[r]]
    BY <1>3 DEF P!Goto, ApiInv, ApiTypes
  <2> QED BY <1>1, <1>3, <2>1, RevokeMoves
<1> QED BY <1>2, <1>3

LEMMA ChangesKey ==
    ASSUME ApiInv, RevokeInv, NEW r \in Places, P!InsertKey(r) \/ P!CommitRevoke(r)
    PROVE  RevokeInv'
<1>1. apiPc' = [apiPc EXCEPT ![r] = "idle"] /\ op' = [op EXCEPT ![r] = P!NoOp] /\ UNCHANGED <<living, barred>>
  BY DEF P!InsertKey, P!CommitRevoke, P!Answer
<1>2. keys \in [KeyIds -> P!KeyRows]
  BY DEF ApiInv, ApiTypes
<1>3. ASSUME NEW q \in Places \ {r}, apiPc[q] = "commit" PROVE keys'[op[q].key].state = "active"
  <2>1. keys[op[q].key].state = "active" /\ op[q].key \in KeyIds
    <3>1. op[q] \in P!Ops /\ StepOf(op[q].kind, "commit")
      BY <1>3 DEF ApiInv, ApiTypes, P!Under
    <3> QED BY <1>3, <3>1, OpsAre DEF RevokeInv, StepOf
  <2>2. CASE P!InsertKey(r)
    <3>1. UNCHANGED keys \/ \E k \in KeyIds : P!Fresh(keys, k) /\ \E fresh : keys' = [keys EXCEPT ![k] = fresh]
      BY <2>2 DEF P!InsertKey
    <3> QED BY <1>2, <2>1, <3>1 DEF P!Fresh
  <2>3. CASE P!CommitRevoke(r)
    <3>1. op[q].key # op[r].key /\ keys' = [keys EXCEPT ![op[r].key].state = "revoked"]
      BY <1>3, <2>3 DEF P!CommitRevoke, RevokeInv
    <3> QED BY <1>2, <2>1, <3>1
  <2> QED BY <2>2, <2>3
<1> HIDE DEF ApiInv, RevokeInv
<1> QED BY <1>1, <1>3, RevokeMoves

LEMMA StepRevoke ==
    ASSUME ApiInv, RevokeInv, P!Next
    PROVE  RevokeInv'
<1>1. ASSUME NEW r \in Places, NEW o \in P!Ops, P!Arrive(r, o) PROVE RevokeInv'
  <2>1. /\ apiPc' = [apiPc EXCEPT ![r] = P!FirstStep(o.kind)] /\ op' = [op EXCEPT ![r] = o]
        /\ UNCHANGED <<keys, living, barred>>
    BY <1>1 DEF P!Arrive, P!tables
  <2>2. P!FirstStep(o.kind) \notin {"idle", "commit"}
    BY OpsAre DEF P!FirstStep
  <2>3. \A q \in Places \ {r} : apiPc[q] = "commit" => keys'[op[q].key].state = "active"
    BY <2>1 DEF RevokeInv
  <2> HIDE DEF ApiInv, RevokeInv
  <2> QED BY <2>1, <2>2, <2>3, RevokeMoves
<1>2. ASSUME NEW r \in Places, P!LockKey(r) PROVE RevokeInv'
  <2>1. UNCHANGED <<keys, living, barred>>
    BY <1>2 DEF P!LockKey, P!tables
  <2>2. CASE P!Answer(r)
    BY <2>1, <2>2, NoKeyMoves
  <2>3. CASE P!MayRevoke(r) /\ P!Goto(r, "commit")
    <3>1. apiPc' = [apiPc EXCEPT ![r] = "commit"] /\ op' = [op EXCEPT ![r] = op[r]]
      BY <2>3 DEF P!Goto, ApiInv, ApiTypes
    <3>2. /\ keys'[op[r].key].state = "active"
          /\ \A q \in Places \ {r} : apiPc[q] = "commit" => op[q].key # op[r].key
      BY <1>2, <2>1, <2>3 DEF P!LockKey, P!MayRevoke
    <3>3. \A q \in Places \ {r} : apiPc[q] = "commit" => keys'[op[q].key].state = "active"
      BY <2>1 DEF RevokeInv
    <3> HIDE DEF ApiInv, RevokeInv
    <3> QED BY <2>1, <3>1, <3>2, <3>3, RevokeMoves
  <2> QED BY <1>2, <2>2, <2>3 DEF P!LockKey
<1>3. ASSUME NEW r \in Places, P!Handle(r), ~P!LockKey(r), ~P!InsertKey(r), ~P!CommitRevoke(r) PROVE RevokeInv'
  <2>1. UNCHANGED <<keys, living, barred>>
    BY <1>3 DEF P!Handle, P!CountKeys, P!ReadHomes, P!ReadKey, P!GetSwitch, P!CountHooks, P!InsertHook,
       P!RevokeHook, P!Authenticate, P!LookupHook, P!Actuate, P!ActuateFails, P!tables
  <2>2. P!Answer(r) \/ \E step \in P!Steps \ {"idle", "commit"} : P!Goto(r, step)
    <3>1. {"insert", "key", "switch", "count", "send", "homes"} \subseteq P!Steps \ {"idle", "commit"}
      BY DEF P!Steps
    <3>2. P!Answer(r) \/ \E step \in {"insert", "key", "switch", "count", "send", "homes"} : P!Goto(r, step)
      BY <1>3 DEF P!Handle, P!CountKeys, P!ReadHomes, P!ReadKey, P!GetSwitch, P!CountHooks, P!InsertHook,
         P!RevokeHook, P!Authenticate, P!LookupHook, P!Actuate, P!ActuateFails
    <3> QED BY <3>1, <3>2
  <2> QED BY <2>1, <2>2, NoKeyMoves
<1>4. CASE P!Environment
  <2>1. UNCHANGED <<keys, apiPc, op>>
    BY <1>4 DEF P!Environment, P!Echo, P!Move, P!Disable, P!Enable, P!Join, P!Leave, P!tables, P!requests
  <2>2. living \in SUBSET (Callers \X Homes) /\ barred \in SUBSET Callers
    BY DEF RevokeInv
  <2>3. \/ UNCHANGED barred /\ \E u \in Callers, h \in Homes : living' \in {living \cup {<<u, h>>}, living \ {<<u, h>>}}
        \/ UNCHANGED living /\ \E u \in Callers : barred' \in {barred \cup {u}, barred \ {u}}
        \/ UNCHANGED <<living, barred>>
    <3>1. ASSUME NEW u \in Callers, NEW h \in Homes, P!Join(u, h) \/ P!Leave(u, h)
          PROVE  UNCHANGED barred /\ living' \in {living \cup {<<u, h>>}, living \ {<<u, h>>}}
      BY <3>1 DEF P!Join, P!Leave
    <3>2. ASSUME NEW u \in Callers, P!Disable(u) \/ P!Enable(u)
          PROVE  UNCHANGED living /\ barred' \in {barred \cup {u}, barred \ {u}}
      BY <3>2 DEF P!Disable, P!Enable
    <3>3. ASSUME NEW d, NEW h, P!Echo(d) \/ P!Move(d, h) PROVE UNCHANGED <<living, barred>>
      BY <3>3 DEF P!Echo, P!Move, P!tables
    <3> QED BY <1>4, <3>1, <3>2, <3>3 DEF P!Environment
  <2>4. living' \in SUBSET (Callers \X Homes)
    BY <2>2, <2>3
  <2>5. barred' \in SUBSET Callers
    BY <2>2, <2>3
  <2> QED BY <2>1, <2>4, <2>5 DEF RevokeInv, P!Under
<1> QED BY <1>1, <1>2, <1>3, <1>4, ChangesKey DEF P!Next

LEMMA RevokeHolds == MCSpec => [](part = "keys" => RevokeInv)
<1> DEFINE I == part = "keys" => RevokeInv
           J == part = "keys" => ApiInv /\ CapInv
<1>1. MCInit => I
  BY InitRevoke DEF MCInit
<1>2. J /\ I /\ [MCNext]_<<part, vars, peopleVars, apiVars, listVars>> => I'
  <2> SUFFICES ASSUME J, I, [MCNext]_<<part, vars, peopleVars, apiVars, listVars>>, part' = "keys"
               PROVE  RevokeInv'
    BY DEF I
  <2>1. part = "keys" /\ (P!Next \/ UNCHANGED apiVars)
    BY DEF MCNext
  <2>2. ApiInv /\ RevokeInv
    BY <2>1
  <2>3. CASE UNCHANGED apiVars
    BY <2>2, <2>3 DEF RevokeInv, apiVars, P!Under
  <2> HIDE DEF ApiInv, RevokeInv
  <2> QED BY <2>1, <2>2, <2>3, StepRevoke
<1>3. MCSpec => []J
  BY KeysHold
<1> HIDE DEF I, J
<1>4. MCSpec => []I
  BY <1>1, <1>2, <1>3, PTL DEF MCSpec
<1> QED BY <1>4, PTL DEF I

\* The rows of keys and hooks, and what requests have read of them, keep their types; a
\* revocation past its first UPDATE finds its key still active (auth/apiKeys.js).
THEOREM KeysTypeCorrect == MCSpec => [](part = "keys" => P!TypeOK)
<1>1. (part = "keys" => ApiInv /\ CapInv) /\ (part = "keys" => RevokeInv) => (part = "keys" => P!TypeOK)
  BY DEF ApiInv, ApiTypes, RevokeInv, SeenTypes, Rights, P!TypeOK
<1> QED BY <1>1, KeysHold, RevokeHolds, PTL

\* A command is sent, and a hook made, only with rights held since the request
\* came in: routes/v1.js, routes/hooks.js and auth/apiKeys.js between their queries.
THEOREM RightsAreHeld == MCSpec => []RightsHeld
<1>1. (part = "keys" => ApiInv /\ CapInv) => RightsHeld
  BY RightsFollow DEF RightsHeld
<1> QED BY <1>1, KeysHold, PTL

\* Without two requests under way at once the INSERT that counts keeps the cap.
THEOREM CapKeptAlone == MCSpec => []CapWhenAlone
<1>1. (part = "keys" => ApiInv /\ CapInv) => CapWhenAlone
  <2> SUFFICES ASSUME part = "keys", CapInv PROVE P!CapWhenAlone
    BY DEF CapWhenAlone
  <2> QED BY SameCounts DEF CapInv, P!CapWhenAlone
<1> QED BY <1>1, KeysHold, PTL
=============================================================================
