CONSTANTS
    k1 = k1
    k2 = k2
    s1 = s1
    s2 = s2
    here = here
    there = there
    Keys <- MCKeys
    Sessions <- MCSessions
    DirOf <- MCDirOf
    Data = {d1, d2}
    Cap = 1
    MaxFires = 2
    MaxLoads = 2
    MaxRegister = 2
    Faults = {}

SPECIFICATION MonitorSpec


    

PROPERTIES
    DeliveredOnce
    NoSilentLoss
    StoppedStays
    WakeServed

CHECK_DEADLOCK FALSE
