\* Three requests of a session whose context changes; PocketBase; every store
\* call may fail.
CONSTANTS
    q1 = q1
    q2 = q2
    q3 = q3
    k1 = k1
    b1 = b1
    b2 = b2
    s1 = s1
    p1 = p1
    p2 = p2
    NoKey = NoKey
    NoItem = NoItem
    Request = {q1, q2, q3}
    Key = {k1}
    Payload = {b1}
    Session = {s1}
    Preparation = {p1, p2}
    MaxVersion = 1
    Durable = TRUE
    Contextual = TRUE
    Faults = {"read", "write"}
SPECIFICATION Spec
SYMMETRY Symmetry
CHECK_DEADLOCK FALSE
INVARIANTS TypeOK ReplayFaithful ConflictJustified OnlyOverlapUnbindsKey
PROPERTIES NoStaleOverwrite
