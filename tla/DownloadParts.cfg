SPECIFICATION FairSpec
CONSTANTS
    d1 = d1
    d2 = d2
    a1 = a1
    a2 = a2
    u1 = u1
    t1 = t1
    t2 = t2
    h1 = h1
    h2 = h2
    None = None
    Downloads = {d1, d2}
    Admins = {}
    Users = {u1}
    Tokens = {t1}
    Owner <- OneOwner
    Hosts = {h1}
    Configs <- FixedConfig
    MaxHops = 1
    FileLimit = 2
    MaxSize = 2
    DailyLimit = 3
INVARIANTS
    BudgetHeld
    CleanEndIsComplete
PROPERTIES
    PermitReleased
