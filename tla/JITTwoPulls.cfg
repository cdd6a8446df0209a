\* The same model can be pulled twice at once.
CONSTANTS
    code = code
    old = old
    older = older
    p1 = p1
    p2 = p2
    r1 = r1
    r2 = r2
    Loop = Loop
    NoModel = NoModel
    Model = {code, old}
    Ideal = {code}
    Default = code
    Fallback = code
    Blocked = {code}
    Puller = {p1, p2}
    Request = {r1}
    MaxModels = 9
    High = 9
    Target = 9
    StatsAnswers = {TRUE}
    MapCount = 4
    MaxEnv = 0
SPECIFICATION Spec
INVARIANT AtMostOnePull
