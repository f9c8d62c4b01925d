SPECIFICATION AcmeFairSpec
CONSTANTS
    t1 = t1
    d1 = d1
    d2 = d2
    None = None
    Triggers = {t1}
    Domains = {d1, d2}
    MaxIssue = 3
    MaxCrashes = 1
INVARIANTS
    ChallengesCleared
PROPERTIES
    NeverOlder
    PairServed
