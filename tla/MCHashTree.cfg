SPECIFICATION RoundSpec
CONSTANTS
    Keys <- ChainKeys
    Anc <- TupleAnc
    Attrs = {1, 2}
    DummyHash = DummyHash
    Trees = {"desired", "current"}
INVARIANTS
    RoundTypeOK
    TreesWellFormed
    NoBarrenDummies
    DiffExact
    DiffConverges
