SPECIFICATION Spec
CONSTANTS
    L3Outs <- MCL3Outs
    Existing <- MCExisting
    Nets <- MCNets
    Vrfs <- MCVrfs
    Bds <- MCBds
    Cidrs = {"c1"}
    Gateways <- MCGateways
    Contracts <- MCContracts
    AppProfile = "ap"
    EpgName <- MCEpgName
INVARIANTS
    NothingLeft
    Complete
    ShadowsInUse
    ShadowsAgree
