SPECIFICATION Spec
CONSTANTS
    home = home
    other = other
    None = None
    Networks <- MCNetworks
    MaxRequests = 3
    MaxRestarts = 2
INVARIANTS KeepsWorkingNetwork TestKeepsHotspot
PROPERTIES HotspotGoesOff
