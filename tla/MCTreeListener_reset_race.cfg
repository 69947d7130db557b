SPECIFICATION Spec
CONSTANTS
    epg = epg
    rule = rule
    twin = twin
    v1 = v1
    hidden = hidden
    c1 = c1
    c2 = c2
    a1 = a1
    a2 = a2
    Objs = {epg, rule, twin}
    SGRules = {rule, twin}
    NameOf <- OneName
    Vals = {v1, hidden}
    Hidden = {hidden}
    Clients = {c1, c2}
    Agents = {a1, a2}
    Settings <- ResetRace
    Absent = Absent
INVARIANTS
    ConfigTreeValid
CHECK_DEADLOCK FALSE
