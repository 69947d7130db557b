SPECIFICATION Spec
CONSTANTS
    c1 = c1
    c2 = c2
    Clients <- MCClients
    Related <- MCRelated
    MaxRows = 2
    MaxEpoch <- MCMaxEpoch
    MaxGiven = 1
SYMMETRY Symmetric
CHECK_DEADLOCK FALSE
INVARIANTS
    GoneAfterDelete
