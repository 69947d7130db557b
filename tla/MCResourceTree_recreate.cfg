SPECIFICATION ResourceSpec
CONSTANTS
    Families <- AllFamilies
    Flipped <- MCFlipped
    Forces = {FALSE}
    Raced <- MCRaced
INVARIANT
    RecreateComplete
