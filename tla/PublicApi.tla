----------------------------- MODULE PublicApi -----------------------------
(***************************************************************************)
(* API keys, the hook URLs made under them, and the two ways they command  *)
(* a switch: /v1/switches with a key, /v1/hook with the token in the URL.  *)
(*                                                                         *)
(* Every request is a handler whose steps are its queries: between two of  *)
(* them other requests run, members leave, devices move, an administrator  *)
(* disables an account.  A statement that counts and then inserts sees the *)
(* rows committed when it began.                                           *)
(***************************************************************************)
EXTENDS Naturals, FiniteSets

CONSTANTS
    Users, Homes, Devices,
    NoHome,     \* the household of an unclaimed device
    Keys,       \* the ids of keys, 1..n in the order they are made
    Hooks,      \* the ids of hooks, likewise
    Reqs,       \* 1..n: places for the requests under way
    Kinds,      \* the kinds of request made: ConstantsAssumption
    Commands,   \* the commands sent: a subset of {"on", "off", "toggle"}
    KeyCap,     \* MAX_API_KEYS_PER_USER
    HookCap,    \* MAX_HOOKS_PER_KEY
    Members,    \* the first members, a set of <<user, home>>
    Made        \* the keys that exist already

ConstantsAssumption ==
    /\ Kinds \subseteq {"createKey", "revokeKey", "adminRevoke", "createHook", "revokeHook",
                        "useKey", "useHook"}
    /\ Devices # {} /\ NoHome \notin Homes
    /\ KeyCap \in Nat \ {0} /\ HookCap \in Nat \ {0}
    /\ Members \subseteq Users \X Homes /\ Reqs \subseteq Nat
    /\ IsFiniteSet(Keys) /\ Made \subseteq Keys /\ Cardinality(Made) <= KeyCap
    /\ IsFiniteSet(Hooks) /\ Commands \subseteq {"on", "off", "toggle"}

VARIABLES
    keys,       \* the rows of api_keys
    hooks,      \* the rows of switch_hooks
    members,    \* household_members
    home,       \* devices.household_id
    disabled,   \* the users an administrator has disabled
    relay,      \* the relay of each device
    cache,      \* cached_channel_state
    pc,         \* the next step of each request
    op,         \* what it asks for
    seen,       \* what it has read
    had,        \* history: the rights held since the request arrived
    overlapped  \* history: two requests have been under way together

vars == <<keys, hooks, members, home, disabled, relay, cache, pc, op, seen, had,
          overlapped>>
tables == <<keys, hooks, members, home, disabled>>
states == <<relay, cache>>
requests == <<pc, op, seen>>

Ops ==
    [kind : {"createKey"}, user : Users]
    \union [kind : {"revokeKey"}, user : Users, key : Keys]
    \union [kind : {"adminRevoke"}, key : Keys]
    \union [kind : {"createHook"}, user : Users, key : Keys, device : Devices]
    \union [kind : {"revokeHook"}, user : Users, hook : Hooks]
    \union [kind : {"useKey"}, key : Keys, device : Devices, command : Commands]
    \union [kind : {"useHook"}, hook : Hooks, command : Commands]

Steps == {"idle", "count", "insert", "lock", "commit", "homes", "key", "switch",
          "revoke", "auth", "lookup", "send"}
States == {"on", "off"}
NoKey == [state |-> "none"]
NoHook == [state |-> "none"]
KeyRows == {NoKey} \union [state : {"active", "revoked"}, owner : Users]
HookRows == {NoHook} \union [state : {"active", "revoked"}, key : Keys, device : Devices]

Active(rows) == {i \in DOMAIN rows : rows[i].state = "active"}
KeysOf(u) == {k \in Active(keys) : keys[k].owner = u}
HooksOf(k) == {h \in Active(hooks) : hooks[h].key = k}

\* The id a new row gets: the first unused one.
Fresh(rows, i) == rows[i].state = "none" /\ \A j \in DOMAIN rows : j < i => rows[j].state # "none"

NoOp == [kind |-> "none"]
NothingSeen == [count |-> 0, hooks |-> {}, homes |-> {}, home |-> NoHome,
                device |-> CHOOSE d \in Devices : TRUE, state |-> "unknown"]
NothingHad == [cred |-> FALSE, homes |-> {}, all |-> FALSE]

Init ==
    /\ \E u \in Users :
          keys = [k \in Keys |-> IF k \in Made THEN [state |-> "active", owner |-> u]
                                ELSE NoKey]
    /\ hooks = [h \in Hooks |-> NoHook]
    /\ members = Members
    /\ home \in [Devices -> Homes]
    /\ disabled = {}
    /\ relay = [d \in Devices |-> "off"]
    /\ cache = relay
    /\ pc = [r \in Reqs |-> "idle"]
    /\ op = [r \in Reqs |-> NoOp]
    /\ seen = [r \in Reqs |-> NothingSeen]
    /\ had = [r \in Reqs |-> NothingHad]
    /\ overlapped = FALSE

Under(r) == pc[r] # "idle"

-----------------------------------------------------------------------------
(* The rights a credential gives *)

KeyOf(r) == IF op[r].kind = "useHook" THEN hooks[op[r].hook].key ELSE op[r].key
KeyGood(k) == keys[k].state = "active" /\ keys[k].owner \notin disabled
HomesOf(u) == {h \in Homes : <<u, h>> \in members}

HookGood(h) ==
    /\ hooks[h].state = "active"
    /\ KeyGood(hooks[h].key)
    /\ home[hooks[h].device] \in HomesOf(keys[hooks[h].key].owner)

\* What the credential of request r gives at this moment.
Holds(r) ==
    CASE op[r].kind = "useKey" /\ keys[op[r].key].state # "none" ->
            [cred |-> KeyGood(op[r].key), homes |-> HomesOf(keys[op[r].key].owner),
             all |-> FALSE]
      [] op[r].kind = "createHook" ->
            [cred |-> keys[op[r].key].state = "active", homes |-> HomesOf(op[r].user),
             all |-> FALSE]
      [] op[r].kind = "useHook" /\ hooks[op[r].hook].state # "none" ->
            [cred |-> FALSE, homes |-> {}, all |-> HookGood(op[r].hook)]
      [] OTHER -> NothingHad

\* History: what was held at some moment since the request arrived.
Track ==
    /\ had' = [r \in Reqs |->
                  IF ~Under(r)' THEN NothingHad
                  ELSE [cred |-> had[r].cred \/ Holds(r)'.cred,
                        homes |-> had[r].homes \union Holds(r)'.homes,
                        all |-> had[r].all \/ Holds(r)'.all]]
    /\ overlapped' = (overlapped \/ \E r, q \in Reqs : r # q /\ Under(r)' /\ Under(q)')

-----------------------------------------------------------------------------
(* Requests *)

FirstStep(kind) ==
    CASE kind = "createKey" -> "count"
      [] kind \in {"revokeKey", "adminRevoke"} -> "lock"
      [] kind = "createHook" -> "homes"
      [] kind = "revokeHook" -> "revoke"
      [] kind = "useKey" -> "auth"
      [] kind = "useHook" -> "lookup"

Known(o) ==
    /\ "key" \in DOMAIN o => keys[o.key].state # "none"
    /\ "hook" \in DOMAIN o => hooks[o.hook].state # "none"

\* A request arrives and takes the first free place; it names a key or a hook
\* that was made at some time.
Arrive(r, o) ==
    /\ pc[r] = "idle" /\ \A q \in Reqs : q < r => pc[q] # "idle"
    /\ o.kind \in Kinds
    /\ Known(o)
    /\ pc' = [pc EXCEPT ![r] = FirstStep(o.kind)]
    /\ op' = [op EXCEPT ![r] = o]
    /\ UNCHANGED <<seen, tables, states>>

Goto(r, step) == pc' = [pc EXCEPT ![r] = step] /\ UNCHANGED op
Answer(r) ==
    /\ pc' = [pc EXCEPT ![r] = "idle"]
    /\ op' = [op EXCEPT ![r] = NoOp]
    /\ seen' = [seen EXCEPT ![r] = NothingSeen]

\* POST /api-keys: the sub-select of the INSERT counts, then the row is made.
CountKeys(r) ==
    /\ pc[r] = "count"
    /\ op[r].kind = "createKey"
    /\ seen' = [seen EXCEPT ![r].count = Cardinality(KeysOf(op[r].user))]
    /\ Goto(r, "insert")
    /\ UNCHANGED <<tables, states>>

\* Mutant: the cap is taken for the largest count that still allows a key.
InsertKeyPast(r) ==
    /\ pc[r] = "insert"
    /\ op[r].kind = "createKey"
    /\ IF seen[r].count <= KeyCap
       THEN \E k \in Keys :
               /\ Fresh(keys, k)
               /\ keys' = [keys EXCEPT ![k] = [state |-> "active", owner |-> op[r].user]]
       ELSE UNCHANGED keys
    /\ Answer(r)
    /\ UNCHANGED <<hooks, members, home, disabled, states>>

InsertKey(r) ==
    /\ pc[r] = "insert"
    /\ op[r].kind = "createKey"
    /\ IF seen[r].count < KeyCap
       THEN \E k \in Keys :
               /\ Fresh(keys, k)
               /\ keys' = [keys EXCEPT ![k] = [state |-> "active", owner |-> op[r].user]]
       ELSE UNCHANGED keys
    /\ Answer(r)
    /\ UNCHANGED <<hooks, members, home, disabled, states>>

\* An administrator may revoke anyone's key.
MayRevoke(r) ==
    /\ keys[op[r].key].state = "active"
    /\ op[r].kind = "adminRevoke" \/ keys[op[r].key].owner = op[r].user

\* revokeApiKeyWithHooks: the first UPDATE locks the row of the key, or
\* waits for the transaction that holds it; the second finds the hooks.
LockKey(r) ==
    /\ pc[r] = "lock"
    /\ \A q \in Reqs : pc[q] = "commit" => op[q].key # op[r].key
    /\ IF MayRevoke(r)
       THEN /\ seen' = [seen EXCEPT ![r].hooks = HooksOf(op[r].key)]
            /\ Goto(r, "commit")
       ELSE Answer(r)
    /\ UNCHANGED <<tables, states>>

CommitRevoke(r) ==
    /\ pc[r] = "commit"
    /\ keys' = [keys EXCEPT ![op[r].key].state = "revoked"]
    /\ hooks' = [h \in Hooks |-> IF h \in seen[r].hooks
                                 THEN [hooks[h] EXCEPT !.state = "revoked"] ELSE hooks[h]]
    /\ Answer(r)
    /\ UNCHANGED <<members, home, disabled, states>>

\* attachHouseholds, for /hooks and for /v1.
ReadHomes(r) ==
    /\ pc[r] = "homes"
    /\ LET user == IF op[r].kind = "useKey" THEN keys[op[r].key].owner ELSE op[r].user
       IN seen' = [seen EXCEPT ![r].homes = HomesOf(user)]
    /\ Goto(r, IF op[r].kind = "createHook" THEN "key" ELSE "switch")
    /\ UNCHANGED <<tables, states>>

\* POST /hooks: the key must be the caller's and active.
ReadKey(r) ==
    /\ pc[r] = "key"
    /\ IF keys[op[r].key].state = "active" /\ keys[op[r].key].owner = op[r].user
       THEN Goto(r, "switch") /\ UNCHANGED seen
       ELSE Answer(r)
    /\ UNCHANGED <<tables, states>>

DeviceOf(r) == IF op[r].kind = "useHook" THEN seen[r].device ELSE op[r].device

\* getSwitch: the device must be in one of the households that were read.
GetSwitch(r) ==
    /\ pc[r] = "switch"
    /\ IF home[DeviceOf(r)] \in seen[r].homes
       THEN /\ seen' = [seen EXCEPT ![r].home = home[DeviceOf(r)],
                                    ![r].state = cache[DeviceOf(r)]]
            /\ Goto(r, IF op[r].kind = "createHook" THEN "count" ELSE "send")
       ELSE Answer(r)
    /\ UNCHANGED <<tables, states>>

CountHooks(r) ==
    /\ pc[r] = "count"
    /\ op[r].kind = "createHook"
    /\ seen' = [seen EXCEPT ![r].count = Cardinality(HooksOf(op[r].key))]
    /\ Goto(r, "insert")
    /\ UNCHANGED <<tables, states>>

InsertHook(r) ==
    /\ pc[r] = "insert"
    /\ op[r].kind = "createHook"
    /\ IF seen[r].count < HookCap
       THEN \E h \in Hooks :
               /\ Fresh(hooks, h)
               /\ hooks' = [hooks EXCEPT ![h] = [state |-> "active", key |-> op[r].key,
                                                 device |-> op[r].device]]
       ELSE UNCHANGED hooks
    /\ Answer(r)
    /\ UNCHANGED <<keys, members, home, disabled, states>>

\* DELETE /hooks/:id waits for a revocation of its key that holds the row.
RevokeHook(r) ==
    /\ pc[r] = "revoke"
    /\ \A q \in Reqs : pc[q] = "commit" => op[r].hook \notin seen[q].hooks
    /\ hooks' = IF hooks[op[r].hook].state = "active"
                   /\ keys[hooks[op[r].hook].key].owner = op[r].user
                THEN [hooks EXCEPT ![op[r].hook].state = "revoked"] ELSE hooks
    /\ Answer(r)
    /\ UNCHANGED <<keys, members, home, disabled, states>>

\* requireApiKey.
Authenticate(r) ==
    /\ pc[r] = "auth"
    /\ IF KeyGood(op[r].key) THEN Goto(r, "homes") /\ UNCHANGED seen ELSE Answer(r)
    /\ UNCHANGED <<tables, states>>

\* Mutant: the hook's own row is asked, not the key's.
LookupHookOnly(r) ==
    /\ pc[r] = "lookup"
    /\ LET h == hooks[op[r].hook]
           owner == keys[h.key].owner
       IN IF h.state = "active" /\ owner \notin disabled /\ home[h.device] \in HomesOf(owner)
          THEN /\ seen' = [seen EXCEPT ![r].homes = {home[h.device]}, ![r].device = h.device]
               /\ Goto(r, "switch")
          ELSE Answer(r)
    /\ UNCHANGED <<tables, states>>

\* lookupHook: one query over hook, key, user, device and membership.
LookupHook(r) ==
    /\ pc[r] = "lookup"
    /\ LET h == hooks[op[r].hook]
       IN IF HookGood(op[r].hook)
          THEN /\ seen' = [seen EXCEPT ![r].homes = {home[h.device]}, ![r].device = h.device]
               /\ Goto(r, "switch")
          ELSE Answer(r)
    /\ UNCHANGED <<tables, states>>

ToggleTarget(state) == IF state = "on" THEN "off" ELSE "on"
Target(r) == IF op[r].command = "toggle" THEN ToggleTarget(seen[r].state) ELSE op[r].command

\* actuate: the device switches and confirms.  Offline, locked or too early
\* after an OFF, it does not, and the caller gets an error.
Actuate(r) ==
    /\ pc[r] = "send"
    /\ relay' = [relay EXCEPT ![DeviceOf(r)] = Target(r)]
    /\ Answer(r)
    /\ UNCHANGED <<tables, cache>>

ActuateFails(r) ==
    /\ pc[r] = "send"
    /\ Answer(r)
    /\ UNCHANGED <<tables, states>>

-----------------------------------------------------------------------------
(* What else happens meanwhile *)

\* The state_changed of the device is recorded.
Echo(d) ==
    /\ cache[d] # relay[d]
    /\ cache' = [cache EXCEPT ![d] = relay[d]]
    /\ UNCHANGED <<tables, relay, requests>>

Join(u, h) ==
    /\ <<u, h>> \notin members
    /\ members' = members \union {<<u, h>>}
    /\ UNCHANGED <<keys, hooks, home, disabled, states, requests>>

Leave(u, h) ==
    /\ <<u, h>> \in members
    /\ members' = members \ {<<u, h>>}
    /\ UNCHANGED <<keys, hooks, home, disabled, states, requests>>

\* A device is unclaimed, or claimed for a household.
Move(d, h) ==
    /\ (h = NoHome) # (home[d] = NoHome)
    /\ home' = [home EXCEPT ![d] = h]
    /\ UNCHANGED <<keys, hooks, members, disabled, states, requests>>

Disable(u) ==
    /\ u \notin disabled
    /\ disabled' = disabled \union {u}
    /\ UNCHANGED <<keys, hooks, members, home, states, requests>>

Enable(u) ==
    /\ u \in disabled
    /\ disabled' = disabled \ {u}
    /\ UNCHANGED <<keys, hooks, members, home, states, requests>>

Handle(r) ==
    \/ CountKeys(r) \/ InsertKey(r) \/ LockKey(r) \/ CommitRevoke(r)
    \/ ReadHomes(r) \/ ReadKey(r) \/ GetSwitch(r) \/ CountHooks(r) \/ InsertHook(r)
    \/ RevokeHook(r) \/ Authenticate(r) \/ LookupHook(r) \/ Actuate(r) \/ ActuateFails(r)

Environment ==
    \/ \E d \in Devices : Echo(d) \/ \E h \in Homes \union {NoHome} : Move(d, h)
    \/ \E u \in Users : Disable(u) \/ Enable(u)
    \/ \E u \in Users, h \in Homes : Join(u, h) \/ Leave(u, h)

Next ==
    \/ \E r \in Reqs, o \in Ops : Arrive(r, o) /\ Track
    \/ \E r \in Reqs : Handle(r) /\ Track
    \/ Environment /\ Track

Spec == Init /\ [][Next]_vars

-----------------------------------------------------------------------------
(* Properties *)

\* A revocation under way has its key to itself, and the key is active.
TypeOK ==
    /\ keys \in [Keys -> KeyRows]
    /\ hooks \in [Hooks -> HookRows]
    /\ members \in SUBSET (Users \X Homes)
    /\ home \in [Devices -> Homes \union {NoHome}]
    /\ disabled \in SUBSET Users
    /\ relay \in [Devices -> States]
    /\ cache \in [Devices -> States \union {"unknown"}]
    /\ pc \in [Reqs -> Steps]
    /\ \A r \in Reqs : op[r] \in IF Under(r) THEN Ops ELSE {NoOp}
    /\ seen \in [Reqs -> [count : Nat, hooks : SUBSET Hooks, homes : SUBSET Homes,
                          home : Homes \union {NoHome}, device : Devices,
                          state : States \union {"unknown"}]]
    /\ had \in [Reqs -> [cred : BOOLEAN, homes : SUBSET Homes, all : BOOLEAN]]
    /\ overlapped \in BOOLEAN
    /\ \A r \in Reqs : pc[r] = "commit" => keys[op[r].key].state = "active"

Sends(r) == pc[r] = "send"

\* A hook commands its switch only if, at one moment since the request came
\* in, hook and key were active, the owner enabled and a member of the
\* device's household: also a hook made while its key was being revoked,
\* whose own row stays active, is dead.
HookCommandAllowed ==
    \A r \in Reqs : Sends(r) /\ op[r].kind = "useHook" => had[r].all

\* A key commands a switch only if since the request came in it was good and
\* its owner was in the household the device was found in.
KeyCommandAllowed ==
    \A r \in Reqs : Sends(r) /\ op[r].kind = "useKey" =>
        had[r].cred /\ seen[r].home \in had[r].homes

\* A hook is made only under a key, and for a device, that its maker had
\* since the request came in.
HookMadeAllowed ==
    \A r \in Reqs : pc[r] = "insert" /\ op[r].kind = "createHook" =>
        had[r].cred /\ seen[r].home \in had[r].homes

\* No command is sent and no hook made without the rights for it, whatever was
\* revoked, moved or disabled between the queries of the request.
RightsHeld == HookCommandAllowed /\ KeyCommandAllowed /\ HookMadeAllowed

\* While no two requests have overlapped, a user has at most KeyCap keys.
CapWhenAlone ==
    ~overlapped => \A u \in Users : Cardinality(KeysOf(u)) <= KeyCap

\* "Conditional insert keeps the cap check and the insert in one statement":
\* a user has at most KeyCap active keys.
KeysWithinCap == \A u \in Users : Cardinality(KeysOf(u)) <= KeyCap

\* "Toggle a switch": a toggle that the device confirms leaves the relay in
\* the other state, when no request has overlapped another.
ToggleFlips ==
    [][\A r \in Reqs :
          Actuate(r) /\ op[r].command = "toggle" /\ ~overlapped
          => relay'[DeviceOf(r)] # relay[DeviceOf(r)]]_vars
=============================================================================
