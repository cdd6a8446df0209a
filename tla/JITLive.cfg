\* Pruning spares protected models; marks are released and the snapshot converges.
CONSTANTS
    code = code
    old = old
    older = older
    p1 = p1
    p2 = p2
    r1 = r1
    r2 = r2
    Loop = Loop
    NoModel = NoModel
    Model = {code, old}
    Ideal = {code}
    Default = code
    Fallback = code
    Blocked = {old}
    Puller = {p1}
    Request = {r1}
    MaxModels = 1
    High = 1
    Target = 1
    StatsAnswers = {TRUE, FALSE}
    MapCount = 3
    MaxEnv = 0
SPECIFICATION FairSpec
INVARIANTS TypeOK
PROPERTIES ProtectedKept MarkReleased SnapshotConverges
