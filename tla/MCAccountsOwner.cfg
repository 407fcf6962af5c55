SPECIFICATION MCSpec
CONSTANTS
    Households = {"h1", "h2"}
    Secrets = {"s1", "s2"}
    Attempts = {"a1", "a2"}
    Removals = {"r1"}
    NoHousehold = "none"
    NullSecret = "null"
    Users <- MCUsers
    Newcomers = {}
    Guests <- MCCrowd
    Admins = {1, 2}
    Disabled = {}
    Requests = {1, 2}
    Parts = {"people"}
    Homes = {"home"}
    NoHome = "none"
    Callers = {1}
    Switches = {"device"}
    Places = {1, 2}
    KeyCap = 1
    HookCap = 1
    Members <- MCMembers
    Devices = {d1, d2}
    Lists = {1, 2, 3}
    KindOf <- MCKindOf
    Reqs = {1, 2}
    MaxMoves = 1
    Kinds = {"createKey"}
    Commands = {"off"}
    KeyIds = {1}
    HookIds = {}
    Made = {1}
INVARIANT OwnerKept
CHECK_DEADLOCK FALSE
