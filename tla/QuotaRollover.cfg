SPECIFICATION FairSpec
CONSTANTS
    u1 = u1
    g1 = g1
    g2 = g2
    r1 = r1
    r2 = r2
    r3 = r3
    Anonymous = Anonymous
    NoGroup = NoGroup
    NoLimit = NoLimit
    Global = Global
    Requests = {r1, r2}
    Users = {u1}
    Groups = {g1, g2}
    R = 2
    LastMonth = 2
    Caps <- MCCaps
    GroupCaps = {NoLimit}
    Configs <- MCConfigs
    Profiles <- MCProfiles
    Chunks = {3}
    MaxBody = 3
    MaxCharged = 0
INVARIANTS
    ReservationsBalanced
    BilledOnce
PROPERTIES
    CancelledIsSettled
