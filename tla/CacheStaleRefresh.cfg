SPECIFICATION Spec
CONSTANTS
    r1 = r1
    r2 = r2
    k1 = k1
    k2 = k2
    k3 = k3
    None = None
    Requests = {r1, r2}
    Keys = {k1}
    Variants = {1}
    MaxVersion = 2
    Configs <- SmallLimit
    ClientEtags = {0}
    MaxTorn = 1
INVARIANTS
    PairsAgree
