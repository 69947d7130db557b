SPECIFICATION FairSpec
CONSTANTS
    Wait = 1
    MaxChanges = 2
    MaxFaults = 1
INVARIANTS
    NothingForgotten
PROPERTIES
    WantedIsPushed
    EmptiedIsRemoved
