SPECIFICATION ConversionSpec
CONSTANTS
    Classes <- MCClasses
    Twins <- MCTwins
    MaxSet = 3
    MaxChain = 3
    MaxShuffled = 8
CHECK_DEADLOCK FALSE
INVARIANTS
    NothingInvented
    Stable
    RoundTrip
    ChainConnected
