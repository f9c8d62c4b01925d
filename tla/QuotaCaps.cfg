SPECIFICATION Spec
CONSTANTS
    u1 = u1
    g1 = g1
    g2 = g2
    r1 = r1
    r2 = r2
    r3 = r3
    Anonymous = Anonymous
    NoGroup = NoGroup
    NoLimit = NoLimit
    Global = Global
    Requests = {r1, r2, r3}
    Users = {u1}
    Groups = {g1}
    R = 2
    LastMonth = 1
    Caps <- MCCaps
    GroupCaps = {4, NoLimit}
    Configs <- LimitConfigs
    Profiles <- LimitProfiles
    Chunks = {3}
    MaxBody = 3
    MaxCharged = 3
SYMMETRY Symmetry
INVARIANTS
    AdmissionBound
    StatusMatchesAdmission
PROPERTIES
    LedgerKept
