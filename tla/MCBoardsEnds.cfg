SPECIFICATION MCFairSpec
CONSTANTS
    c1 = c1
    c2 = c2
    Channels <- MCChannels
    HasInput <- MCHasInput
    Pushes <- MCPushes
    Parts = {"esp32"}
    Count = 2
    InchingAtBoot = {{0}}
    MaxCalls = 2
    MaxMisses = 0
PROPERTY InchingEnds
