SPECIFICATION RingSpec
CONSTANTS
    Instances = {"one", "two"}
    Nodes = {"a", "b", "c", "d"}
    Weights = {1, 3}
    Vnodes = 1
    Replicas = 2
    HashSpace = 26
    StarHash <- Apart
    RingKeys = {1, 3, 5, 6, 9, 15, 17, 25}
    KeyHash <- EachGap
INVARIANTS
    Reproducible
    EnoughReplicas
PROPERTIES
    FewKeysMove
