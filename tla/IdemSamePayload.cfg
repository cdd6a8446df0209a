\* A client repeats its request in a session with memory; in-process store.
CONSTANTS
    q1 = q1
    q2 = q2
    q3 = q3
    k1 = k1
    b1 = b1
    b2 = b2
    s1 = s1
    p1 = p1
    p2 = p2
    NoKey = NoKey
    NoItem = NoItem
    Request = {q1, q2}
    Key = {k1}
    Payload = {b1, b2}
    Session = {s1}
    Preparation = {p1}
    MaxVersion = 1
    Durable = FALSE
    Contextual = TRUE
    Faults = {}
SPECIFICATION Spec
CHECK_DEADLOCK FALSE
INVARIANTS ConflictMeansOtherPayload
