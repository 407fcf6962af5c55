------------------------------ MODULE MCAccounts ------------------------------
(***************************************************************************)
(* The requests about people (Accounts), about who owns a device and what  *)
(* it is trusted by (DeviceOwnership), those made with API keys and hooks  *)
(* (PublicApi), and those about groups, scenes and automations             *)
(* (SavedLists).  Each goes by what the others decide, but every query     *)
(* reads that afresh, so each module lets the rest change as it pleases,   *)
(* and the four are checked side by side: part says which of them moves in *)
(* a behaviour; the others stay as they began.                             *)
(*                                                                         *)
(* Three users: the first is an admin whose household the second shares,   *)
(* the second an admin whose account is disabled, the third has yet to     *)
(* sign up or shares a household too.  Two households, two secrets, two    *)
(* connections and one removal of a device: enough for a claim, a repair   *)
(* and a reset to cross two authentications under way.  One user with one  *)
(* key, room for a second key and for one hook, and two requests.  One list*)
(* of each kind over two devices, one of which changes hands, and two      *)
(* requests for them.                                                      *)
(***************************************************************************)
EXTENDS DeviceOwnership, TLC

CONSTANTS
    Parts,      \* the parts that are checked
    Users, Newcomers, Guests, Admins, Disabled, Requests,     \* Accounts
    Homes, NoHome,                                            \* PublicApi, SavedLists
    Callers, Switches, Places, Kinds, Commands, KeyIds, HookIds,
    KeyCap, HookCap, Members, Made,                           \* PublicApi
    Devices, Lists, KindOf, Reqs, MaxMoves                    \* SavedLists

Symmetry == Permutations(Devices)

MCUsers == {1, 2, 3}
MCGuests == (1 :> {2}) @@ (2 :> {}) @@ (3 :> {})
MCMembers == {<<1, "home">>}
MCKindOf == (1 :> "group") @@ (2 :> "scene") @@ (3 :> "automation")
MCCrowd == (1 :> {2, 3}) @@ (2 :> {}) @@ (3 :> {})

VARIABLES
    part,
    \* Accounts
    unborn, users, admin, disabled, homes, members, owners, invites, req,
    \* PublicApi
    keys, hooks, living, home, barred, relay, cache, apiPc, op, seen, had, overlapped,
    \* SavedLists
    place, list, lock, listReq, moves

peopleVars == <<unborn, users, admin, disabled, homes, members, owners, invites, req>>
apiVars == <<keys, hooks, living, home, barred, relay, cache, apiPc, op, seen, had,
             overlapped>>

listVars == <<place, list, lock, listReq, moves>>

A == INSTANCE Accounts
P == INSTANCE PublicApi WITH
         Users <- Callers, Devices <- Switches, Reqs <- Places, Keys <- KeyIds, Hooks <- HookIds,
         members <- living, disabled <- barred, pc <- apiPc
L == INSTANCE SavedLists WITH home <- place, req <- listReq

ASSUME PartsAssumption == A!StartAssumption /\ P!ConstantsAssumption /\ L!ConstantsAssumption

Nothing == "nothing"

\* A part that does not move has no state, or begins in one way only.
MCInit ==
    /\ part \in Parts /\ Init /\ A!Init
    /\ \/ part = "keys" /\ P!Init
       \/ /\ part # "keys"
          /\ keys = Nothing /\ hooks = Nothing /\ living = Nothing
          /\ home = Nothing /\ barred = Nothing /\ relay = Nothing
          /\ cache = Nothing /\ apiPc = Nothing /\ op = Nothing /\ seen = Nothing
          /\ had = Nothing /\ overlapped = Nothing
    /\ \/ part = "lists" /\ L!Init
       \/ /\ part # "lists"
          /\ place = Nothing /\ list = Nothing /\ lock = Nothing
          /\ listReq = Nothing /\ moves = Nothing

MCNext ==
    \/ part = "people" /\ A!Next /\ UNCHANGED <<part, vars, apiVars, listVars>>
    \/ part = "devices" /\ Next /\ UNCHANGED <<part, peopleVars, apiVars, listVars>>
    \/ part = "keys" /\ P!Next /\ UNCHANGED <<part, vars, peopleVars, listVars>>
    \/ part = "lists" /\ L!Next /\ UNCHANGED <<part, vars, peopleVars, apiVars>>

MCSpec == MCInit /\ [][MCNext]_<<part, vars, peopleVars, apiVars, listVars>>

-----------------------------------------------------------------------------
\* The properties of the parts that are instances; each is stated where it is
\* defined.  A household goes only together with everybody who lives in it.
HomeOutlivesMembers == A!HomeOutlivesMembers

\* Admins stay unless the request that removes one could not see the others go.
AdminLostOnlyUnseen == A!AdminLostOnlyUnseen

\* Transactions that lock admins wait for one another in one order.
AdminsWaitInOrder == A!AdminsWaitInOrder

\* What the source says and the code does not keep.
OwnerKept == A!OwnerKept

\* No command is sent and no hook made without the rights for it.
RightsHeld == part = "keys" => P!RightsHeld

\* The cap on keys holds while no two requests overlap.
CapWhenAlone == part = "keys" => P!CapWhenAlone

\* A group is what one save made it; a run keeps to its household's devices.
GroupFromOneSave == part = "lists" => L!GroupFromOneSave
OnlyOwnDevices == part = "lists" => L!OnlyOwnDevices

\* What the source says and the code does not keep.
KeysWithinCap == part = "keys" => P!KeysWithinCap
ToggleFlips == P!ToggleFlips
=============================================================================
