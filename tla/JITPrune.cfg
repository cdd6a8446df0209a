\* Two reconcilers prune a host whose stats endpoint answers.
CONSTANTS
    code = code
    old = old
    older = older
    p1 = p1
    p2 = p2
    r1 = r1
    r2 = r2
    Loop = Loop
    NoModel = NoModel
    Model = {code, old, older}
    Ideal = {code}
    Default = code
    Fallback = code
    Blocked = {code, old}
    Puller = {p1}
    Request = {r1}
    MaxModels = 1
    High = 2
    Target = 1
    StatsAnswers = {TRUE}
    MapCount = 4
    MaxEnv = 0
SPECIFICATION Spec
INVARIANT OvershootBounded
