SPECIFICATION Spec
CONSTANTS
    d1 = d1
    d2 = d2
    a1 = a1
    a2 = a2
    u1 = u1
    t1 = t1
    t2 = t2
    h1 = h1
    h2 = h2
    None = None
    Downloads = {d1}
    Admins = {a1, a2}
    Users = {u1}
    Tokens = {t1}
    Owner <- OneOwner
    Hosts = {h1}
    Configs <- OnOff
    MaxHops = 2
    FileLimit = 2
    MaxSize = 2
    DailyLimit = 2
SYMMETRY Symmetry
INVARIANTS
    BlockEnforced
    WithdrawnStops
