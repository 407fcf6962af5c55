SPECIFICATION MCSpec
CONSTANTS
    Channels = 1
    MaxConns = 3
    MaxChanges = 1
    Parts = {"session"}
    Bodies <- MCBodies
    HwChannels = {0}
    HwReqs = {1, 2}
    HwConns = {3, 4}
    Claimed = TRUE
    MaxHours = 11
    DayHours = 5
    TimeZones <- MCZones
    MaxDays = 2
    MaxEvents = 3
    Schedules = {s1, s2}
    MaxWrites = 2
    MaxClicks = 2
    MaxMinutes = 2
    DayMinutes = 2
    Grace = 1
    Duration = 1
    Ticks = {t1, t2}
    MaxEdits = 2
    Outlets = {1, 2}
    Automations = {"blink", "follow"}
    Trigger <- BlinkTrigger
    Actions <- BlinkActions
    MaxDepth = 5
    Interlock = FALSE
    AppCommands = {u1}
    AppChanges <- MCChanges
    Slots = {e1, e2}
    MaxFaults = 1
INVARIANTS OfflineWhenUnregistered CacheFollowsRelays
PROPERTY RegistryKept
CHECK_DEADLOCK FALSE
