SPECIFICATION Spec
CONSTANTS
    r1 = r1
    r2 = r2
    k1 = k1
    k2 = k2
    k3 = k3
    None = None
    Requests = {r1}
    Keys = {k1, k2, k3}
    Variants = {1}
    MaxVersion = 1
    Configs <- TwoLimits
    ClientEtags = {0}
    MaxTorn = 1
SYMMETRY Symmetry
INVARIANTS
    WithinLimit
PROPERTIES
    EvictsOldest
