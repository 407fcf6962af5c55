------------------------------- MODULE Accounts -------------------------------
(***************************************************************************)
(* Users, households and invites as concurrent requests change them:       *)
(* routes/households.js, the user operations of routes/admin.js, signup    *)
(* and account deletion of routes/auth.js, auth/deleteAccount.js and       *)
(* admin/guards.js.  A step is one SQL statement of one request.  The      *)
(* database runs at READ COMMITTED: a statement reads what is committed,   *)
(* waits for the row locks it needs, and looks again once it has them.     *)
(* A transaction's writes appear when it commits, with its last statement; *)
(* until then the rows it has locked are in its "rows".                    *)
(*                                                                         *)
(* A user's household is named by the user whose signup made it.  Which of *)
(* the remaining members inherits a household (the earliest to join) is    *)
(* left open.                                                              *)
(***************************************************************************)
EXTENDS Naturals

CONSTANTS
    Users,      \* ids of users; an id is never given twice
    Newcomers,  \* those who have not signed up at the start
    Guests,     \* user -> who has joined the user's household by the start
    Admins,     \* who is an admin at the start
    Disabled,   \* whose account is disabled at the start
    Requests    \* requests, numbered in the order they reach the server

StartAssumption ==
    /\ Users \subseteq Nat /\ Newcomers \subseteq Users
    /\ Admins \subseteq Users \ Newcomers /\ Disabled \subseteq Users \ Newcomers
    /\ Guests \in [Users -> SUBSET (Users \ Newcomers)]
    /\ \A n \in Newcomers : Guests[n] = {}
    /\ \A u \in Users : u \notin Guests[u]
    /\ Admins \ Disabled # {}
    /\ Requests \subseteq Nat

VARIABLES
    unborn,    \* ids still to be given
    users,     \* rows of users
    admin,     \* those with is_admin
    disabled,  \* those with disabled_at set
    homes,     \* rows of households
    members,   \* household_members: household -> its members
    owners,    \* household -> members whose role is 'owner'
    invites,   \* pending household_invites
    req        \* request -> what it asks and how far it got

people == <<unborn, users, admin, disabled>>
house == <<homes, members, owners, invites>>
tables == <<people, house>>
vars == <<tables, req>>

Invites == [home : Users, to : Users, by : Users]

UserRow(u) == <<"user", u>>
HomeRow(h) == <<"home", h>>
MemberRow(h, u) == <<"member", <<h, u>>>>
InviteRow(i) == <<"invite", i>>

Rows ==
    {UserRow(u) : u \in Users} \cup {HomeRow(h) : h \in Users}
        \cup {MemberRow(h, u) : h \in Users, u \in Users} \cup {InviteRow(i) : i \in Invites}

Ops == {"none", "disable", "enable", "promote", "demote", "delete",
        "invite", "accept", "decline", "cancel", "remove"}

Steps == {"new", "done", "admins", "lock", "write", "target", "homes", "doors", "read",
          "settle", "erase", "look", "insert", "answer", "join", "cancel", "remove"}

Request == [op : Ops, step : Steps, me : Users, who : Users, home : Users, by : Users,
            todo : SUBSET Users, seen : SUBSET Users, got : SUBSET Users,
            others : SUBSET Users, heir : SUBSET Users, doomed : SUBSET Users,
            heirs : SUBSET (Users \X Users), rows : SUBSET Rows]

\* A request of user u that has read and locked nothing yet.
Asked(op, step, u, who, home, by) ==
    [op |-> op, step |-> step, me |-> u, who |-> who, home |-> home, by |-> by,
     todo |-> {}, seen |-> {}, got |-> {}, others |-> {}, heir |-> {}, doomed |-> {},
     heirs |-> {}, rows |-> {}]

\* A request that is not being handled, with nothing left to tell of it.
Off(step) == LET u == CHOOSE u \in Users : TRUE IN Asked("none", step, u, u, u, u)

ActiveAdmins == admin \ disabled

TypeOK ==
    /\ unborn \subseteq Users /\ users \subseteq Users \ unborn
    /\ admin \subseteq users /\ disabled \subseteq users
    /\ homes \subseteq Users \ unborn
    /\ members \in [Users -> SUBSET users] /\ owners \in [Users -> SUBSET users]
    /\ \A h \in Users : owners[h] \subseteq members[h] /\ (h \notin homes => members[h] = {})
    /\ invites \subseteq Invites
    /\ \A i \in invites : i.home \in homes /\ i.to \in users /\ i.by \in users
    /\ req \in [Requests -> Request]

Init ==
    /\ unborn = Newcomers /\ users = Users \ Newcomers
    /\ admin = Admins /\ disabled = Disabled
    /\ homes = users /\ invites = {}
    /\ members = [h \in Users |-> IF h \in users THEN Guests[h] \cup {h} ELSE {}]
    /\ owners = [h \in Users |-> IF h \in users THEN {h} ELSE {}]
    /\ req = [r \in Requests |-> Off("new")]

-----------------------------------------------------------------------------
(* Row locks.                                                              *)

\* Invites the deletion of a household, or of a user, cascades to.
InvitesOf(h) == {i \in invites : i.home = h}
InvitesWith(u) == {i \in invites : i.to = u \/ i.by = u}

\* The invite a request is about.
Invite(r) == [home |-> req[r].home, to |-> req[r].who, by |-> req[r].by]

\* An admin deletes somebody's account; otherwise it is the caller's own.
ByAdmin(r) == req[r].who # req[r].me

\* Mutant: a deletion locks in the opposite order.
LatestFirst(r) ==
    {a \in req[r].todo : \A b \in req[r].todo : IF req[r].op = "delete" THEN b <= a ELSE a <= b}

\* ORDER BY id: the row to lock or to look at next, if one is left.
NextRow(r) == {a \in req[r].todo : \A b \in req[r].todo : a <= b}

\* The rows the next statement of a request locks or deletes.
Needs(r) ==
    LET q == req[r]
    IN  CASE q.step = "lock" -> {UserRow(a) : a \in NextRow(r)}
          [] q.step = "write" \/ (q.step = "target" /\ ByAdmin(r)) -> {UserRow(q.who)}
          [] q.step = "doors" -> {HomeRow(h) : h \in NextRow(r)}
          [] q.step = "settle" /\ q.others = {} -> {InviteRow(i) : i \in InvitesOf(q.home)}
          [] q.step = "settle" /\ q.others # {} -> {MemberRow(q.home, b) : b \in q.heir}
          [] q.step = "erase" -> {UserRow(q.who)} \cup {MemberRow(h, q.who) : h \in Users}
                                     \cup {InviteRow(i) : i \in InvitesWith(q.who)}
          [] q.step = "insert" -> {HomeRow(q.home), UserRow(q.who), UserRow(q.by)}
          [] q.step \in {"answer", "cancel"} -> {InviteRow(Invite(r))}
          [] q.step = "join" -> {HomeRow(q.home), UserRow(q.who)}
          [] q.step = "remove" -> {MemberRow(q.home, q.who)}
          [] OTHER -> {}

Waits(r, t) == r # t /\ req[t].rows # {} /\ Needs(r) \cap req[t].rows # {}

Granted(r) == \A t \in Requests : ~Waits(r, t)

\* Everyone in S waits for someone in S, and for no smaller reason.
DeadlockOf(S) ==
    LET stuck(T) == T # {} /\ \A r \in T : \E t \in T : Waits(r, t)
    IN  stuck(S) /\ \A T \in SUBSET S : stuck(T) => T = S

-----------------------------------------------------------------------------
(* How requests start, go on and end.                                      *)

\* The request that reaches the server next.
Upcoming == {r \in Requests : \A t \in Requests : (req[t].step = "new") = (r <= t)}

Ask(r, u, op, step, who, home, by) ==
    /\ u \in users /\ req' = [req EXCEPT ![r] = Asked(op, step, u, who, home, by)]
    /\ UNCHANGED tables

At(r, step) == req[r].step = step /\ Granted(r)

Then(r, q) == req' = [req EXCEPT ![r] = q]

\* COMMIT or ROLLBACK, and the answer: the locks are gone.
Done(r) == Then(r, Off("done"))

\* The database breaks a deadlock: one of the transactions is rolled back.
Abort(r) ==
    /\ ~Granted(r) /\ \E S \in SUBSET Requests : r \in S /\ DeadlockOf(S)
    /\ Done(r) /\ UNCHANGED tables

SignUp(u) ==
    /\ u \in unborn /\ unborn' = unborn \ {u}
    /\ users' = users \cup {u} /\ homes' = homes \cup {u}
    /\ members' = [members EXCEPT ![u] = {u}]
    /\ owners' = [owners EXCEPT ![u] = {u}]
    /\ UNCHANGED <<admin, disabled, invites, req>>

-----------------------------------------------------------------------------
(* Household requests.  The caller's roles are read when they start        *)
(* (attachHouseholds).                                                     *)

AskHousehold(r, u) ==
    \/ \E h \in homes, v \in users : u \in owners[h] /\ Ask(r, u, "invite", "look", v, h, u)
    \/ \E i \in invites, op \in {"accept", "decline"} :
           i.to = u /\ Ask(r, u, op, "answer", u, i.home, i.by)
    \/ \E i \in invites :
           u \in owners[i.home] /\ Ask(r, u, "cancel", "cancel", i.to, i.home, i.by)
    \/ \E h \in homes : \E v \in members[h] :
           /\ u \in members[h] /\ (v = u \/ u \in owners[h])
           /\ Ask(r, u, "remove", "remove", v, h, u)

\* SELECT 1 FROM household_members.
LookForMember(r) ==
    /\ At(r, "look")
    /\ IF req[r].who \in members[req[r].home]
       THEN Done(r)
       ELSE Then(r, [req[r] EXCEPT !.step = "insert"])
    /\ UNCHANGED tables

\* INSERT INTO household_invites: it fails on a foreign key that is gone and on
\* the unique index of pending invites.
InsertInvite(r) ==
    LET i == Invite(r)
    IN  /\ At(r, "insert")
        /\ invites' = IF /\ i.home \in homes /\ i.to \in users /\ i.by \in users
                         /\ \A j \in InvitesOf(i.home) : j.to # i.to
                      THEN invites \cup {i} ELSE invites
        /\ Done(r) /\ UNCHANGED <<people, homes, members, owners>>

\* UPDATE household_invites SET status ... AND status = 'pending'.
AnswerInvite(r) ==
    /\ At(r, "answer")
    /\ \/ /\ req[r].op = "accept" /\ Invite(r) \in invites
          /\ Then(r, [req[r] EXCEPT !.step = "join", !.rows = {InviteRow(Invite(r))}])
          /\ UNCHANGED invites
       \/ /\ req[r].op = "decline" \/ Invite(r) \notin invites
          /\ invites' = invites \ {Invite(r)} /\ Done(r)
    /\ UNCHANGED <<people, homes, members, owners>>

\* INSERT INTO household_members ... ON CONFLICT DO NOTHING; COMMIT.
JoinHome(r) ==
    /\ At(r, "join")
    /\ members' = [members EXCEPT ![req[r].home] = @ \cup {req[r].who}]
    /\ invites' = invites \ {Invite(r)}
    /\ Done(r) /\ UNCHANGED <<people, homes, owners>>

CancelInvite(r) ==
    /\ At(r, "cancel")
    /\ invites' = invites \ {Invite(r)}
    /\ Done(r) /\ UNCHANGED <<people, homes, members, owners>>

\* Mutant: the last owner to leave takes the household along.
RemoveWithHome(r) ==
    LET h == req[r].home  v == req[r].who  last == owners[h] = {v}
    IN  /\ At(r, "remove")
        /\ homes' = IF last THEN homes \ {h} ELSE homes
        /\ members' = [members EXCEPT ![h] = IF last THEN {} ELSE @ \ {v}]
        /\ owners' = [owners EXCEPT ![h] = @ \ {v}]
        /\ Done(r) /\ UNCHANGED <<people, invites>>

\* DELETE FROM household_members ... unless the target is the last owner.
RemoveMember(r) ==
    LET h == req[r].home  v == req[r].who  kept == owners[h] = {v}
    IN  /\ At(r, "remove")
        /\ members' = IF kept THEN members ELSE [members EXCEPT ![h] = @ \ {v}]
        /\ owners' = IF kept THEN owners ELSE [owners EXCEPT ![h] = @ \ {v}]
        /\ Done(r) /\ UNCHANGED <<people, homes, invites>>

-----------------------------------------------------------------------------
(* Requests that lock the active admins first (lockActiveAdminIds).        *)

\* requireAdmin reads the caller's row when the request starts.
AskAdmin(r, u) ==
    /\ u \in ActiveAdmins
    /\ \E v \in Users \ (unborn \cup {u}) :
           \/ \E op \in {"disable", "promote", "demote", "delete"} :
                  Ask(r, u, op, "admins", v, v, u)
           \/ Ask(r, u, "enable", "write", v, v, u)

\* DELETE /auth/account.
AskDelete(r, u) == Ask(r, u, "delete", "admins", u, u, u)

\* The snapshot SELECT ... WHERE is_admin AND disabled_at IS NULL ... sees.
SeeAdmins(r) ==
    /\ At(r, "admins")
    /\ Then(r, [req[r] EXCEPT !.step = "lock", !.todo = ActiveAdmins, !.seen = ActiveAdmins])
    /\ UNCHANGED tables

\* Mutant: the rows are read and not locked.
LockNoAdmin(r) ==
    LET q == req[r]
    IN  /\ At(r, "lock") /\ q.todo # {}
        /\ Then(r, [q EXCEPT !.todo = {}, !.got = q.todo])
        /\ UNCHANGED tables

\* ... ORDER BY id FOR UPDATE: each row is locked in turn and its condition is
\* evaluated again.
LockAdmin(r) == \E a \in NextRow(r) :
    /\ At(r, "lock")
    /\ Then(r, [req[r] EXCEPT !.todo = @ \ {a},
                              !.got = @ \cup ({a} \cap ActiveAdmins),
                              !.rows = @ \cup {UserRow(b) : b \in {a} \cap users}])
    /\ UNCHANGED tables

LockedAdmins(r) ==
    /\ At(r, "lock") /\ req[r].todo = {}
    /\ Then(r, [req[r] EXCEPT !.step = IF req[r].op = "delete" THEN "target" ELSE "write"])
    /\ UNCHANGED tables

\* wouldRemoveLastAdmin.
LastAdmin(r) == req[r].got = {req[r].who}

\* lockUser, the checks, the UPDATE and COMMIT of disable and enable.
WriteDisabled(r) ==
    LET q == req[r]  v == req[r].who
    IN  /\ At(r, "write") /\ q.op \in {"disable", "enable"}
        /\ disabled' = IF q.op = "enable" THEN disabled \ {v}
                       ELSE IF LastAdmin(r) THEN disabled ELSE disabled \cup ({v} \cap users)
        /\ Done(r) /\ UNCHANGED <<unborn, users, admin, house>>

\* The same of PATCH, which gives or takes the admin role.
WriteRole(r) ==
    LET q == req[r]  v == req[r].who
    IN  /\ At(r, "write") /\ q.op \in {"promote", "demote"}
        /\ admin' = IF q.op = "promote" THEN admin \cup ({v} \cap users)
                    ELSE IF LastAdmin(r) THEN admin ELSE admin \ {v}
        /\ Done(r) /\ UNCHANGED <<unborn, users, disabled, house>>

\* lockUser (only when an admin deletes somebody) and the check of a deletion.
CheckTarget(r) ==
    LET q == req[r]
    IN  /\ At(r, "target")
        /\ IF q.who \notin users \/ LastAdmin(r)
           THEN Done(r)
           ELSE Then(r, [q EXCEPT !.step = "homes",
                                  !.rows = IF ByAdmin(r) THEN @ \cup {UserRow(q.who)} ELSE @])
        /\ UNCHANGED tables

-----------------------------------------------------------------------------
(* deleteUserAccount, within the transaction of its caller.                *)

SeeHomes(r) ==
    /\ At(r, "homes")
    /\ Then(r, [req[r] EXCEPT !.step = "doors",
                              !.todo = {h \in homes : req[r].who \in members[h]}])
    /\ UNCHANGED tables

\* ORDER BY h.id FOR UPDATE OF h.
LockHome(r) == \E h \in NextRow(r) :
    /\ At(r, "doors")
    /\ Then(r, [req[r] EXCEPT !.todo = @ \ {h},
                              !.rows = @ \cup {HomeRow(g) : g \in {h} \cap homes}])
    /\ UNCHANGED tables

LockedHomes(r) ==
    /\ At(r, "doors") /\ req[r].todo = {}
    /\ Then(r, [req[r] EXCEPT !.step = "read", !.todo = {h \in Users : HomeRow(h) \in req[r].rows}])
    /\ UNCHANGED tables

\* Who is to inherit household h from its other members: nobody when one of
\* them owns it already, or when there are none.
Heirs(h, others) ==
    IF others = {} \/ others \cap owners[h] # {} THEN {{}} ELSE {{b} : b \in others}

\* SELECT user_id, role FROM household_members of the next household.
ReadOthers(r) == \E h \in NextRow(r) :
    LET others == members[h] \ {req[r].who}
    IN  /\ At(r, "read")
        /\ \E heir \in Heirs(h, others) :
               Then(r, [req[r] EXCEPT !.step = "settle", !.todo = @ \ {h}, !.home = h,
                                      !.others = others, !.heir = heir])
        /\ UNCHANGED tables

AllSettled(r) ==
    /\ At(r, "read") /\ req[r].todo = {}
    /\ Then(r, [req[r] EXCEPT !.step = "erase"])
    /\ UNCHANGED tables

\* The household and its invites are deleted, or its heir promoted if the heir's row is still there.
SettleHome(r) ==
    LET q == req[r]
        gone == IF q.others = {} THEN {q.home} ELSE {}
        heirs == q.heir \cap members[q.home]
    IN  /\ At(r, "settle")
        /\ Then(r, [q EXCEPT !.step = "read",
                             !.doomed = @ \cup gone,
                             !.heirs = @ \cup ({q.home} \X heirs),
                             !.rows = @ \cup {MemberRow(q.home, b) : b \in heirs}
                                        \cup {InviteRow(i) : i \in {j \in invites : j.home \in gone}}])
        /\ UNCHANGED tables

\* DELETE FROM users, its cascades, and COMMIT.
EraseUser(r) ==
    LET q == req[r]  v == req[r].who
    IN  /\ At(r, "erase")
        /\ users' = users \ {v} /\ admin' = admin \ {v} /\ disabled' = disabled \ {v}
        /\ homes' = homes \ q.doomed
        /\ members' = [h \in Users |-> IF h \in q.doomed THEN {} ELSE members[h] \ {v}]
        /\ owners' = [h \in Users |->
                          IF h \in q.doomed THEN {}
                          ELSE (owners[h] \cup {b \in Users : <<h, b>> \in q.heirs}) \ {v}]
        /\ invites' = {i \in invites : i.home \notin q.doomed /\ v \notin {i.to, i.by}}
        /\ Done(r) /\ UNCHANGED unborn

-----------------------------------------------------------------------------

Statement(r) ==
    \/ LookForMember(r) \/ InsertInvite(r) \/ AnswerInvite(r) \/ JoinHome(r)
    \/ CancelInvite(r) \/ RemoveMember(r)
    \/ SeeAdmins(r) \/ LockAdmin(r) \/ LockedAdmins(r)
    \/ WriteDisabled(r) \/ WriteRole(r) \/ CheckTarget(r)
    \/ SeeHomes(r) \/ LockHome(r) \/ LockedHomes(r) \/ ReadOthers(r) \/ SettleHome(r)
    \/ AllSettled(r) \/ EraseUser(r)

Next ==
    \/ \E u \in Users : SignUp(u)
    \/ \E r \in Upcoming, u \in Users : AskHousehold(r, u) \/ AskAdmin(r, u) \/ AskDelete(r, u)
    \/ \E r \in Requests : Statement(r) \/ Abort(r)

Spec == Init /\ [][Next]_vars

-----------------------------------------------------------------------------

\* A household goes only together with everybody who lives in it: nobody whose
\* invite was accepted meanwhile loses it to the deletion of the member who had
\* been alone (the FOR UPDATE and its comment, auth/deleteAccount.js:17-19).
HomeOutlivesMembers ==
    [][\A h \in homes \ homes' : members[h] \cap users' = {}]_vars

\* The last active admin is disabled, demoted or deleted only by a request
\* whose locking SELECT came back empty: any that locked a row refuses
\* (admin/guards.js, "never zero active admins").
AdminLostOnlyUnseen ==
    [][ActiveAdmins # {} /\ ActiveAdmins' = {} =>
           \E r \in Requests : req'[r] # req[r] /\ req[r].got = {}]_vars

\* Requests that lock the active admins and then their target.
LocksAdmins(r) == req[r].step \in {"lock", "target"} \/ (req[r].step = "write" /\ req[r].op # "enable")

\* Two of them that started from the same active admins never wait for each
\* other ("one lock order for every admin-affecting action", routes/admin.js:449).
\* They can when the admins one of them saw are not those the other saw.
AdminsWaitInOrder ==
    \A r \in Requests, t \in Requests :
        LocksAdmins(r) /\ LocksAdmins(t) /\ req[r].seen = req[t].seen
            => ~(Waits(r, t) /\ Waits(t, r))

\* "Every household keeps at least one" owner (auth/deleteAccount.js:53-54),
\* also when a member leaves while the owner's account is being deleted.
OwnerKept == \A h \in homes : owners[h] # {}
=============================================================================
