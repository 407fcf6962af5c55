SPECIFICATION FairSpec
CONSTANTS
    a1 = a1
    a2 = a2
    u1 = u1
    s1 = s1
    s2 = s2
    Channels <- MCChannels
    Automations <- MCAutomations
    Trigger <- KeepOnTrigger
    Actions <- KeepOnActions
    MaxDepth = 5
    Interlock = TRUE
    AppCommands <- MCCommands
    AppChanges <- MCChanges
    Slots <- MCSlots
    MaxMishaps = 1
PROPERTY CascadeEnds
CHECK_DEADLOCK FALSE
