SPECIFICATION Spec
CONSTANTS
    c1 = c1
    c2 = c2
    Channels <- MCChannels
    NoList = NoList
    Clicks = {1}
    MaxChanges = 2
    MaxDrops = 1
INVARIANTS NothingMissed
PROPERTIES PollingCatchesUp
CHECK_DEADLOCK FALSE
