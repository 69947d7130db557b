SPECIFICATION ConversionSpec
CONSTANTS
    Classes <- MCItems
    Twins <- MCItems
    MaxSet = 1
    MaxChain = 3
    MaxShuffled = 8
CHECK_DEADLOCK FALSE
INVARIANTS
    NothingInvented
