SPECIFICATION Spec
CONSTANTS
    d1 = d1
    d2 = d2
    d3 = d3
    r1 = r1
    r2 = r2
    Domains = {d1, d2}
    Requests = {r1, r2}
    MaxCycles = 2
    NoTask = NoTask
    Env = {}
PROPERTIES
    NoRescanBeforeApproval
CHECK_DEADLOCK FALSE
