\* Three turns of two sessions; both stores; PocketBase may fail.
CONSTANTS
    t1 = t1
    t2 = t2
    t3 = t3
    s1 = s1
    s2 = s2
    c1 = c1
    c2 = c2
    NoConcept = NoConcept
    NoRow = NoRow
    Turn = {t1, t2, t3}
    Session = {s1, s2}
    Concept = {c1, c2}
    Texts <- FewWords
    Stores = {"memory", "pocketbase"}
    Limit = 2
    ContextLimit = 1
    Attempts = 2
    Faults = TRUE
SPECIFICATION Spec
SYMMETRY Symmetry
CHECK_DEADLOCK FALSE
INVARIANTS TypeOK OwnSessionOnly DuplicatesOverlap OnlyTheseForget
