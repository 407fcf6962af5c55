SPECIFICATION FairSpec
CONSTANTS
    d1 = d1
    s1 = s1
    s2 = s2
    r1 = r1
    r2 = r2
    NoSocket = NoSocket
    Devices <- MCDevices
    Sockets <- MCSockets
    DeviceOf <- MCDeviceOf
    Reqs <- MCReqs
    TargetOf <- MCTargetOf
    Guarded <- MCGuarded
PROPERTY SilentDeviceUnregistered
CHECK_DEADLOCK FALSE
