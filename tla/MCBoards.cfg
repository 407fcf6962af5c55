SPECIFICATION MCSpec
CONSTANTS
    c1 = c1
    c2 = c2
    Channels <- MCChannels
    HasInput <- MCHasInput
    Pushes <- MCPushes
    Parts = {"esp8266", "esp32"}
    Count = 2
    InchingAtBoot = {{0}}
    MaxCalls = 2
    MaxMisses = 1
INVARIANTS
    InterlockHolds
    CleanIsRestorable
    InchingTimed
    InterlockAlone
    ReportedAlone
PROPERTY
    NoPhantomPress
