------------------------------ MODULE SavedLists ------------------------------
(***************************************************************************)
(* What a household saves about its switches: groups, scenes and           *)
(* automations (routes/groups.js, scenes.js, automations.js), and what runs*)
(* them (POST /scenes/:id/run, automations/engine.js).  A request looks for*)
(* the list, checks that its devices are the household's, and writes; a    *)
(* group's members are rows of their own, replaced in a transaction.       *)
(* Meanwhile devices change hands and lists are deleted.                   *)
(*                                                                         *)
(* Each list stays in its household, an item of it is the device that it   *)
(* names, and the caller's role there is what attachHouseholds found.      *)
(***************************************************************************)
EXTENDS Integers, FiniteSets

CONSTANTS
    Devices, Homes, NoHome,
    Lists,      \* the ids that lists may have
    KindOf,     \* list -> "group", "scene" or "automation"
    Reqs,       \* requests and firings, as numbers in the order they come
    MaxMoves    \* bound: claims and unclaims of devices

ConstantsAssumption ==
    /\ NoHome \notin Homes /\ Reqs \subseteq Nat \ {0} /\ MaxMoves \in Nat
    /\ KindOf \in [Lists -> {"group", "scene", "automation"}]

VARIABLES
    home,   \* device -> devices.household_id
    list,   \* list -> its row, with the devices it names
    lock,   \* group -> the transaction that holds its row
    req,    \* request -> what it knows and its next step
    moves   \* claims and unclaims so far

vars == <<home, list, lock, req, moves>>

Nobody == 0
Anywhere == Homes \cup {NoHome}

\* An id not given yet. meant is history: the items of the save that wrote the name.
Unborn == [alive |-> FALSE, home |-> NoHome, meant |-> {}, items |-> {}]

\* left: devices still to be commanded; old: member rows deleted but not yet
\* committed; found: the UPDATE met the row. History: the devices that were in
\* the household at some moment since it was found, and those saved or commanded.
Idle == [pc |-> "idle", op |-> "none", list |-> Nobody, home |-> NoHome,
         items |-> {}, left |-> {}, old |-> {}, found |-> FALSE, had |-> {}, used |-> {}]

Kind(r) == KindOf[req[r].list]
Row(r) == list[req[r].list]
At(h) == {d \in Devices : home[d] = h}
Goto(r, pc) == req' = [req EXCEPT ![r].pc = pc]
Done(r) == req' = [req EXCEPT ![r] = [Idle EXCEPT !.pc = "done"]]

TypeOK ==
    /\ home \in [Devices -> Anywhere]
    /\ list \in [Lists -> [alive : BOOLEAN, home : Anywhere, meant : SUBSET Devices,
                           items : SUBSET Devices]]
    /\ lock \in [Lists -> Reqs \cup {Nobody}]
    /\ \A r \in Reqs : req[r].pc \in {"idle", "find", "check", "write", "drop", "insert",
                                      "own", "send", "again", "answer", "done"}
    /\ moves \in 0..MaxMoves

\* Lists that hold devices of their household, and ids that are still free.
Init ==
    /\ home \in [Devices -> Anywhere]
    /\ \E h \in Homes : \E some \in SUBSET At(h) \ {{}} :
         list \in [Lists -> {Unborn, [alive |-> TRUE, home |-> h, meant |-> some, items |-> some]}]
    /\ lock = [l \in Lists |-> Nobody]
    /\ req = [r \in Reqs |-> Idle]
    /\ moves = 0

-----------------------------------------------------------------------------
(* The household.                                                          *)

\* A device is claimed or unclaimed (routes/devices.js).
Move(d) ==
    /\ moves < MaxMoves /\ moves' = moves + 1
    /\ \E h \in IF home[d] = NoHome THEN Homes ELSE {NoHome} :
         /\ home' = [home EXCEPT ![d] = h]
         /\ req' = [r \in Reqs |-> IF h \in Homes /\ req[r].home = h
                                   THEN [req[r] EXCEPT !.had = @ \cup {d}] ELSE req[r]]
    /\ UNCHANGED <<list, lock>>

\* A request, as its body parses; an automation also fires by itself.
Arrive(r) ==
    /\ req[r].pc = "idle" /\ \A q \in Reqs : q < r => req[q].pc # "idle"
    /\ \E l \in Lists, op \in {"create", "save", "delete", "run"}, some \in SUBSET Devices :
         /\ op \in {"create", "save"} \/ some = {}
         /\ some # {} \/ ~(op \in {"create", "save"} /\ KindOf[l] = "automation")
         /\ op = "create" <=> list[l] = Unborn
         /\ op = "create" => \A q \in Reqs : req[q].list # l
         /\ op = "run" => KindOf[l] # "group"
         /\ req' = [req EXCEPT ![r] = [Idle EXCEPT !.pc = "find", !.op = op, !.list = l,
                                                   !.items = some]]
    /\ UNCHANGED <<home, list, lock, moves>>

\* Members may do all but edit automations, which fire on nobody's behalf.
MayAct(r, role) ==
    IF Kind(r) # "automation" THEN role # "none"
    ELSE req[r].op = "run" \/ role = "owner"

\* The row's household, or the one to create it in, where the caller has one role
\* or another; a run reads what it will do.
Find(r) ==
    /\ req[r].pc = "find"
    /\ \E role \in {"none", "member", "owner"} :
       IF ~MayAct(r, role) \/ ~(Row(r).alive \/ req[r].op = "create")
       THEN Done(r)
       ELSE \E h \in IF req[r].op = "create" THEN Homes ELSE {Row(r).home} :
              req' = [req EXCEPT ![r].home = h, ![r].had = At(h),
                        ![r].pc = CASE req[r].op = "delete" -> "write"
                                    [] req[r].op = "run" -> "own"
                                    [] OTHER -> "check",
                        ![r].left = IF req[r].op = "run" THEN Row(r).items ELSE {}]
    /\ UNCHANGED <<home, list, lock, moves>>

-----------------------------------------------------------------------------
(* Saving and deleting.                                                    *)

\* Mutant: the devices are not checked.
CheckNoDevices(r) ==
    /\ req[r].pc = "check" /\ Goto(r, "write")
    /\ UNCHANGED <<home, list, lock, moves>>

\* foreignDevice, validateDevicesInHousehold: all of them are the household's.
CheckDevices(r) ==
    /\ req[r].pc = "check"
    /\ IF req[r].items \subseteq At(req[r].home) THEN Goto(r, "write") ELSE Done(r)
    /\ UNCHANGED <<home, list, lock, moves>>

\* A row with its items, in one statement or one transaction that nobody waits for.
Saved(r) == [alive |-> TRUE, home |-> req[r].home, meant |-> req[r].items, items |-> req[r].items]

Stores(r) ==
    /\ list' = [list EXCEPT ![req[r].list] = Saved(r)]
    /\ req' = [req EXCEPT ![r].pc = "answer", ![r].used = req[r].items]

\* A new row; the UPDATE of a scene or an automation, if its row is still there.
Write(r) ==
    /\ req[r].pc = "write"
    /\ req[r].op = "create" \/ (req[r].op = "save" /\ Kind(r) # "group")
    /\ IF req[r].op = "create" \/ Row(r).alive THEN Stores(r) ELSE Done(r) /\ UNCHANGED list
    /\ UNCHANGED <<home, lock, moves>>

\* Mutant: the members are replaced without the UPDATE of the group's name first.
LockGroupNot(r) ==
    /\ req[r].pc = "write" /\ req[r].op = "save" /\ Kind(r) = "group"
    /\ req' = [req EXCEPT ![r].pc = "drop", ![r].found = Row(r).alive]
    /\ UNCHANGED <<home, list, lock, moves>>

\* UPDATE groups: it waits for whoever holds the row, and holds it until COMMIT.
LockGroup(r) ==
    /\ req[r].pc = "write" /\ req[r].op = "save" /\ Kind(r) = "group"
    /\ lock[req[r].list] = Nobody
    /\ lock' = IF Row(r).alive THEN [lock EXCEPT ![req[r].list] = r] ELSE lock
    /\ req' = [req EXCEPT ![r].pc = "drop", ![r].found = Row(r).alive]
    /\ UNCHANGED <<home, list, moves>>

\* DELETE FROM group_members: the rows committed by now.
DropMembers(r) ==
    /\ req[r].pc = "drop"
    /\ req' = [req EXCEPT ![r].pc = "insert", ![r].old = Row(r).items]
    /\ UNCHANGED <<home, list, lock, moves>>

Unlock(r) == lock' = [l \in Lists |-> IF lock[l] = r THEN Nobody ELSE lock[l]]

\* The INSERTs and COMMIT. Members of a group that is gone, or members that are
\* there, violate a key: ROLLBACK.
InsertMembers(r) ==
    LET kept == Row(r).items \ req[r].old IN
    /\ req[r].pc = "insert"
    /\ IF Row(r).alive /\ req[r].found /\ req[r].items \cap kept = {}
       THEN /\ list' = [list EXCEPT ![req[r].list].meant = req[r].items,
                                    ![req[r].list].items = kept \cup req[r].items]
            /\ req' = [req EXCEPT ![r].pc = "answer", ![r].used = req[r].items]
       ELSE Done(r) /\ UNCHANGED list
    /\ Unlock(r)
    /\ UNCHANGED <<home, moves>>

\* DELETE of the row, with its members; it waits for a transaction that holds it.
DeleteList(r) ==
    /\ req[r].pc = "write" /\ req[r].op = "delete" /\ lock[req[r].list] = Nobody
    /\ list' = [list EXCEPT ![req[r].list].alive = FALSE, ![req[r].list].items = {},
                            ![req[r].list].meant = {}]
    /\ Done(r)
    /\ UNCHANGED <<home, lock, moves>>

\* The answer; nothing of the request is left.
Answer(r) == req[r].pc = "answer" /\ Done(r) /\ UNCHANGED <<home, list, lock, moves>>

-----------------------------------------------------------------------------
(* Running.                                                                *)

\* A scene looks for all of its devices at once.
CheckScene(r) ==
    /\ req[r].pc = "own" /\ Kind(r) = "scene"
    /\ req' = [req EXCEPT ![r].pc = "send", ![r].left = @ \cap At(req[r].home)]
    /\ UNCHANGED <<home, list, lock, moves>>

\* actuate, for one of them; what becomes of it matters to no other.
SendSceneAction(r) ==
    /\ req[r].pc = "send" /\ Kind(r) = "scene"
    /\ \/ \E d \in req[r].left :
            req' = [req EXCEPT ![r].left = @ \ {d}, ![r].used = @ \cup {d}]
       \/ req[r].left = {} /\ Done(r)
    /\ UNCHANGED <<home, list, lock, moves>>

\* isDeviceInHousehold, for each action in turn: it is skipped or goes on.
CheckAction(r) ==
    /\ req[r].pc = "own" /\ Kind(r) = "automation"
    /\ \/ req[r].left = {} /\ Done(r)
       \/ \E d \in req[r].left :
            req' = [req EXCEPT ![r].left = @ \ {d}, ![r].old = IF d \in At(req[r].home) THEN {d} ELSE {},
                      ![r].pc = IF d \in At(req[r].home) THEN "send" ELSE "own"]
    /\ UNCHANGED <<home, list, lock, moves>>

\* The command goes out; if it fails, once more after a pause, with no new look.
SendAction(r) ==
    /\ req[r].pc \in {"send", "again"} /\ Kind(r) = "automation"
    /\ \E pc \in IF req[r].pc = "send" THEN {"own", "again"} ELSE {"own"} :
         req' = [req EXCEPT ![r].pc = pc, ![r].used = @ \cup req[r].old]
    /\ UNCHANGED <<home, list, lock, moves>>

-----------------------------------------------------------------------------

Save(r) == CheckDevices(r) \/ Write(r) \/ LockGroup(r) \/ DropMembers(r) \/ InsertMembers(r)
           \/ DeleteList(r) \/ Answer(r)

Run(r) == CheckScene(r) \/ SendSceneAction(r) \/ CheckAction(r) \/ SendAction(r)

Next ==
    \/ \E d \in Devices : Move(d)
    \/ \E r \in Reqs : Arrive(r)
    \/ \E r \in Reqs : Find(r)
    \/ \E r \in Reqs : Save(r)
    \/ \E r \in Reqs : Run(r)

Spec == Init /\ [][Next]_vars

-----------------------------------------------------------------------------

\* groups.js: "Update replaces the full member list". However saves of a group,
\* its deletion and new saves cross, the members one finds are exactly those of
\* the one save that also wrote its name.
GroupFromOneSave ==
    \A l \in Lists : list[l].items = list[l].meant

\* engine.js: "skip rather than relay to a device this automation's household no
\* longer owns". Whatever is saved or commanded was the household's at some
\* moment of that very request, however devices change hands between the steps.
OnlyOwnDevices ==
    \A r \in Reqs : req[r].used \subseteq req[r].had

=============================================================================
