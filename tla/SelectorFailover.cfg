SPECIFICATION Spec
CONSTANTS
    r1 = r1
    r2 = r2
    e1 = e1
    e2 = e2
    e3 = e3
    None = None
    Requests = {r1, r2}
    Endpoints = {e1, e2, e3}
    Configs <- MCConfigs
    Latencies = {20000, 1500000}
    MaxEndpoints = 2
    MaxFailures = 2
SYMMETRY Symmetry
INVARIANTS
    FailureIsTotal
PROPERTIES
    HealthyFirst
