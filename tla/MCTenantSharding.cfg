SPECIFICATION FairSpec
CONSTANTS
    Agents = {"aid1", "aid2"}
    Roots = {"t1", "t2"}
    Versions = {1, 2}
    Owner <- RingOwner
    Report = 1
    DownTime = 2
    MaxDownTime = 3
    Deadlock = 3
    Day = 5
    ServePeriod = 1
    MaxFaults = 2
INVARIANT
    SettledInTime
PROPERTIES
    EventuallySettled
CHECK_DEADLOCK FALSE
