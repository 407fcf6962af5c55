SPECIFICATION FairSpec
CONSTANTS
    c1 = c1
    c2 = c2
    Commands <- MCCommands
    MaxOn = 2
    MinOff = 2
    Cooldown = 1
    MaxMishaps = 2
    MaxReports = 2
PROPERTIES MaxOnEnforced MinOffKept
