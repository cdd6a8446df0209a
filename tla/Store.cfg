\* Two operations of any kind side by side, one revocation of the token.
CONSTANTS
    c1 = c1
    c2 = c2
    Callers = {c1, c2}
    None = None
    Attempts = 2
    Profiles <- MCProfiles
    Operations <- MCOperations
    MaxRevocations = 1
SPECIFICATION FairSpec
INVARIANTS TypeOK OneRowEach AcknowledgedStays
PROPERTIES LoneCallEnds
CHECK_DEADLOCK FALSE
