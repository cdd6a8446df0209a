\* Two keys, four calls a minute, bursts of two.
CONSTANTS
    a = a
    b = b
    Key = {a, b}
    RateLimitRPM = 4
    QuotaRPM = {0}
    QuotaBurst = {0, 3}
    Delay = {4, 15}
    MaxTime = 30
    MaxBoots = 1
SPECIFICATION Spec
SYMMETRY Symmetry
CHECK_DEADLOCK FALSE
INVARIANTS TypeOK WindowBound RefusalsAreFree
