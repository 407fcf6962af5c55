SPECIFICATION MCSpec
CONSTANTS
    Households = {"h1", "h2"}
    Secrets = {"s1", "s2"}
    Attempts = {"a1", "a2"}
    Removals = {"r1"}
    NoHousehold = "none"
    NullSecret = "null"
    Users <- MCUsers
    Newcomers = {3}
    Guests <- MCGuests
    Admins = {1, 2}
    Disabled = {2}
    Requests = {1, 2, 3}
    Parts = {"people", "devices", "keys", "lists"}
    Homes = {"home"}
    NoHome = "none"
    Callers = {1}
    Switches = {"device"}
    Places = {1, 2}
    KeyCap = 1
    HookCap = 1
    Members <- MCMembers
    Devices = {d1, d2}
    Lists = {1, 2, 3}
    KindOf <- MCKindOf
    Reqs = {1, 2}
    MaxMoves = 1
    Kinds = {"createKey", "revokeKey", "adminRevoke", "createHook", "revokeHook", "useKey", "useHook"}
    Commands = {"off"}
    KeyIds = {1, 2}
    HookIds = {1}
    Made = {1}
SYMMETRY Symmetry
INVARIANTS
    AdminsWaitInOrder
    AcceptedSecretWasHeld
    RightsHeld
    CapWhenAlone
    GroupFromOneSave
    OnlyOwnDevices
PROPERTIES
    HomeOutlivesMembers
    AdminLostOnlyUnseen
    ClaimedSecretKept
CHECK_DEADLOCK FALSE
