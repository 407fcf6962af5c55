---------------------------- MODULE DeviceOwnership ----------------------------
(***************************************************************************)
(* One row of the backend's devices table: which household owns the device *)
(* and which cloud secret it is trusted by.  Connections of the device     *)
(* authenticate against it one statement at a time (ws/deviceServer.js,    *)
(* authenticateDevice), while claims, unclaims, the admin's operations and *)
(* account deletions (routes/devices.js, routes/admin.js,                  *)
(* auth/deleteAccount.js) change it.  A transaction that holds the row     *)
(* FOR UPDATE is one step; a SELECT followed by a statement on its own is  *)
(* two.                                                                    *)
(***************************************************************************)
CONSTANTS
    Households,   \* households that may own the device
    Secrets,      \* cloud secrets (their hashes)
    Attempts,     \* authentication attempts of device connections
    Removals,     \* DELETE /devices/:deviceId requests
    NoHousehold,  \* household_id IS NULL
    NullSecret    \* cloud_secret_hash IS NULL

ASSUME NullsAssumption == NoHousehold \notin Households /\ NullSecret \notin Secrets

VARIABLES
    exists,     \* the devices row is there
    household,  \* its household_id
    secret,     \* its cloud_secret_hash
    pc,         \* attempt -> the next statement of authenticateDevice
    presented,  \* attempt -> secret of the auth frame
    removal,    \* removal -> progress of the request
    held        \* history: attempt -> secrets the row had since it began

row == <<exists, household, secret>>
vars == <<exists, household, secret, pc, presented, removal, held>>

Running == {"select", "insert", "adopt", "repair", "revalidate", "mark"}

TypeOK ==
    /\ exists \in BOOLEAN
    /\ household \in Households \cup {NoHousehold}
    /\ secret \in Secrets \cup {NullSecret}
    /\ pc \in [Attempts -> Running \cup {"idle", "accepted", "rejected"}]
    /\ presented \in [Attempts -> Secrets \cup {NullSecret}]
    /\ removal \in [Removals -> {"idle", "checked", "done"}]
    /\ held \in [Attempts -> SUBSET (Secrets \cup {NullSecret})]

Init ==
    /\ exists = FALSE /\ household = NoHousehold /\ secret = NullSecret
    /\ pc = [a \in Attempts |-> "idle"]
    /\ presented = [a \in Attempts |-> NullSecret]
    /\ removal = [r \in Removals |-> "idle"]
    /\ held = [a \in Attempts |-> {}]

\* The row gets a secret, which every attempt under way has then seen it hold.
SetSecret(s) ==
    /\ secret' = s
    /\ held' = [a \in Attempts |-> IF pc[a] \in Running THEN held[a] \cup {s} ELSE held[a]]

Step(a, from, to) == pc[a] = from /\ pc' = [pc EXCEPT ![a] = to]

-----------------------------------------------------------------------------
(* authenticateDevice.                                                     *)

AuthFrame(a, s) ==
    /\ Step(a, "idle", "select")
    /\ presented' = [presented EXCEPT ![a] = s]
    /\ held' = [held EXCEPT ![a] = IF exists THEN {secret} ELSE {}]
    /\ UNCHANGED <<row, removal>>

\* The unlocked SELECT, and the statement the row it finds calls for.
SelectRow(a) ==
    /\ \/ ~exists /\ Step(a, "select", "insert")
       \/ exists /\ secret = NullSecret /\ Step(a, "select", "adopt")
       \/ exists /\ secret = presented[a] /\ Step(a, "select", "mark")
       \/ /\ exists /\ secret \notin {NullSecret, presented[a]}
          /\ Step(a, "select", IF household = NoHousehold THEN "repair" ELSE "rejected")
    /\ UNCHANGED <<row, presented, removal, held>>

\* INSERT ... ON CONFLICT DO NOTHING.
InsertRow(a) ==
    /\ \/ /\ ~exists /\ Step(a, "insert", "accepted")
          /\ exists' = TRUE /\ SetSecret(presented[a])
       \/ exists /\ Step(a, "insert", "revalidate") /\ UNCHANGED <<exists, secret, held>>
    /\ UNCHANGED <<household, presented, removal>>

\* UPDATE ... WHERE cloud_secret_hash IS NULL.
AdoptSecret(a) ==
    /\ \/ secret = NullSecret /\ Step(a, "adopt", "accepted") /\ SetSecret(presented[a])
       \/ secret # NullSecret /\ Step(a, "adopt", "revalidate") /\ UNCHANGED <<secret, held>>
    /\ UNCHANGED <<exists, household, presented, removal>>

\* Mutant: the UPDATE trusts the SELECT and has no household_id IS NULL.
RepairUnguarded(a) ==
    /\ Step(a, "repair", "accepted") /\ SetSecret(presented[a])
    /\ UNCHANGED <<exists, household, presented, removal>>

\* UPDATE ... WHERE household_id IS NULL.
RepairUnclaimed(a) ==
    /\ \/ household = NoHousehold /\ Step(a, "repair", "accepted") /\ SetSecret(presented[a])
       \/ household # NoHousehold /\ Step(a, "repair", "revalidate") /\ UNCHANGED <<secret, held>>
    /\ UNCHANGED <<exists, household, presented, removal>>

\* Mutant: the loser of a race is let in without a look at what won.
RevalidateUnchecked(a) ==
    /\ Step(a, "revalidate", "mark")
    /\ UNCHANGED <<row, presented, removal, held>>

Revalidate(a) ==
    /\ Step(a, "revalidate", IF secret = presented[a] THEN "mark" ELSE "rejected")
    /\ UNCHANGED <<row, presented, removal, held>>

\* The UPDATE by device_id alone, after a SELECT that matched.
MarkExistingDeviceOnline(a) ==
    /\ Step(a, "mark", "accepted")
    /\ UNCHANGED <<row, presented, removal, held>>

-----------------------------------------------------------------------------
(* Claims, removals and the admin's operations.                            *)

\* POST /devices/claim, when it does not end in 401 or 409. Without a row the
\* transaction INSERTs one; if another did so first it fails and changes nothing.
Claim(h, s) ==
    /\ exists => household \in {NoHousehold, h} /\ secret \in {NullSecret, s}
    /\ exists' = TRUE /\ household' = h
    /\ SetSecret(s)
    /\ UNCHANGED <<pc, presented, removal>>

\* DELETE /devices/:deviceId: the household is read and the caller's role in
\* it checked ...
CheckRemoval(r) ==
    /\ removal[r] = "idle" /\ household # NoHousehold
    /\ removal' = [removal EXCEPT ![r] = "checked"]
    /\ UNCHANGED <<row, pc, presented, held>>

\* ... and the row is then updated by device_id alone.
Unclaim(r) ==
    /\ removal[r] = "checked"
    /\ removal' = [removal EXCEPT ![r] = "done"]
    /\ household' = NoHousehold
    /\ UNCHANGED <<exists, secret, pc, presented, held>>

\* POST /admin/devices/:id/unclaim, and deleteUserAccount of a household's
\* only member. (These and Reassign also disable the device's schedules, which
\* no other operation here reads.)
AdminUnclaim ==
    /\ household # NoHousehold
    /\ household' = NoHousehold
    /\ UNCHANGED <<exists, secret, pc, presented, removal, held>>

\* POST /admin/devices/:id/reassign.
Reassign(h) ==
    /\ exists /\ household # h
    /\ household' = h
    /\ UNCHANGED <<exists, secret, pc, presented, removal, held>>

\* POST /admin/devices/:id/reset-secret.
ResetSecret ==
    /\ exists /\ SetSecret(NullSecret)
    /\ UNCHANGED <<exists, household, pc, presented, removal>>

-----------------------------------------------------------------------------

Authenticate(a) ==
    \/ \E s \in Secrets : AuthFrame(a, s)
    \/ SelectRow(a)
    \/ InsertRow(a)
    \/ AdoptSecret(a)
    \/ RepairUnclaimed(a)
    \/ Revalidate(a)
    \/ MarkExistingDeviceOnline(a)

Administer ==
    \/ \E h \in Households, s \in Secrets : Claim(h, s)
    \/ \E r \in Removals : CheckRemoval(r) \/ Unclaim(r)
    \/ AdminUnclaim
    \/ \E h \in Households : Reassign(h)
    \/ ResetSecret

Next == (\E a \in Attempts : Authenticate(a)) \/ Administer

Spec == Init /\ [][Next]_vars

-----------------------------------------------------------------------------

\* "A claim that lands concurrently is never overwritten": whatever statements
\* of authentication attempts are in flight, the secret of a claimed device
\* changes only by an admin's reset, or from one that was reset.
ClaimedSecretKept ==
    [][household # NoHousehold =>
         secret' = secret \/ secret = NullSecret \/ secret' = NullSecret]_vars

\* Authentication, several statements long, is never laxer than one that looks
\* at the row at a single moment: a connection is let in only with a secret
\* that the row held at some moment between its auth frame and the answer.
AcceptedSecretWasHeld ==
    \A a \in Attempts : pc[a] = "accepted" => presented[a] \in held[a]

=============================================================================
