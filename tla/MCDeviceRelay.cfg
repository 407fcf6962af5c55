SPECIFICATION FairSpec
CONSTANTS
    d1 = d1
    s1 = s1
    s2 = s2
    r1 = r1
    r2 = r2
    NoSocket = NoSocket
    Devices <- MCDevices
    Sockets <- MCSockets
    DeviceOf <- MCDeviceOf
    Reqs <- MCReqs
    TargetOf <- MCTargetOf
    Guarded <- MCGuarded
INVARIANTS NoWaitOnClosedSocket OneLiveConnection
PROPERTIES PromiseSettles SilentConnectionCloses PromiseKept
CHECK_DEADLOCK FALSE
