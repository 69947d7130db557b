SPECIFICATION FairSpec
CONSTANTS
    Families <- AllFamilies
    Flipped <- MCFlipped
    Forces = {FALSE}
    Raced <- MCRaced
INVARIANT
    SpreadAsWalked
PROPERTIES
    CascadeExact
    ErrorCovers
    RetrySpreads
    ZombiesGone
