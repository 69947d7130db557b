SPECIFICATION FairSpec
CONSTANTS
    bd = bd
    subnet = subnet
    Objs = {bd, subnet}
    Vals = {v1, stuck, bad}
    Stuck = {stuck}
    Critical = {bad}
    Absent = Absent
    Covers <- PrefixNames
    ResetLimit = 2
    PurgeLimit = 4
    Quick = 1
    Again = 2
    MaxChanges = 2
    MaxFaults = 1
INVARIANTS
    BacklogBounded
PROPERTIES
    EventuallyInSync
    Surrenders
CHECK_DEADLOCK FALSE
