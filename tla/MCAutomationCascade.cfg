SPECIFICATION FairSpec
CONSTANTS
    a1 = a1
    a2 = a2
    u1 = u1
    s1 = s1
    s2 = s2
    Channels <- MCChannels
    Automations <- MCAutomations
    Trigger <- BlinkTrigger
    Actions <- BlinkActions
    MaxDepth = 5
    Interlock = FALSE
    AppCommands <- MCCommands
    AppChanges <- MCChanges
    Slots <- MCSlots
    MaxMishaps = 2
PROPERTY CascadeEnds
CHECK_DEADLOCK FALSE
