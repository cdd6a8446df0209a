\* Two turns, PocketBase, no fault.
CONSTANTS
    t1 = t1
    t2 = t2
    t3 = t3
    s1 = s1
    s2 = s2
    c1 = c1
    c2 = c2
    NoConcept = NoConcept
    NoRow = NoRow
    Turn = {t1, t2}
    Session = {s1, s2}
    Concept = {c1, c2}
    Texts <- AllTexts
    Stores = {"pocketbase"}
    Limit = 9
    ContextLimit = 1
    Attempts = 2
    Faults = FALSE
SPECIFICATION Spec
SYMMETRY Symmetry
CHECK_DEADLOCK FALSE
INVARIANTS Continuity
