SPECIFICATION AdminSpec
CONSTANTS
    i1 = i1
    i2 = i2
    a1 = a1
    a2 = a2
    n1 = n1
    n2 = n2
    k1 = k1
    k2 = k2
    s1 = s1
    w1 = w1
    root = root
    Handlers <- MCHandlers
    Addrs = {a1, a2}
    Nets = {n1, n2}
    Hooks = {w1}
    Secrets = {s1}
    Blank = Blank
    Names = {root, other}
    Forms <- MCForms
    Files <- MCFiles
    Env = {}
    NoEdit = NoEdit
    Tokens = {t1}
    Keys <- MCKeys
    Challenges = {c1}
    None = None
    FailureLimit = 2
INVARIANTS CredentialsBelongToAdmin LockedIffLimit InForceAgrees
PROPERTY StoredThenInForce
SYMMETRY MCSymmetry
