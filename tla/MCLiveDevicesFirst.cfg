SPECIFICATION Spec
CONSTANTS
    c1 = c1
    c2 = c2
    Channels <- MCChannels
    NoList = NoList
    Clicks = {}
    MaxChanges = 2
    MaxDrops = 1
INVARIANTS FirstListMissesNothing
CHECK_DEADLOCK FALSE
