SPECIFICATION Spec
CONSTANTS
    a1 = a1
    a2 = a2
    a3 = a3
    Agents = {a1, a2, a3}
    first = first
    second = second
    Urls <- TwoUrls
    NoOne = NoOne
    Settings <- Crews

INVARIANT MappingTracked
