\* One run of each mode, asked for with no size, a small one and one too large;
\* all short texts in chunks of any size, then up to two iterations of tools, twice.
CONSTANTS
    Modes = {"none", "tot", "mcts", "multi_agent", "decompose"}
    Scores <- MCScores
    MinScore = 55
    PoolTopK = 2
    SynthTopK = 2
    PayloadSize = 1
    Wants = {0, 1, 9}
    Voices <- MCVoices
    DefaultBranches = 3
    MaxBranches = 4
    Actions = {1, 2, 3}
    DefaultRollouts = 3
    MaxRollouts = 5
    MaxDepth = 3
    Window = 3
    MinGain = 1
    Workers <- MCWorkers
    DefaultAgents = 4
    DefaultRounds = 4
    TokenBudget = 3
    Tokens = {1, 2}
    NearGap = 5
    MaxSubtasks = 3
    SubtaskBudget = 3
    Costs = {2, 3}
    Plans <- MCPlans
    RetryMax = 1
    Inputs <- MCInputs
    AskedSizes = {0, 1, 2}
    AskedLimits = {0, 1, 9}
    DefaultChunkSize = 3
    MaxDocuments = 2
    MaxChunksPerDoc = 3
    ToolNames = {"web_search", "vector_retrieve", "http_request", "unknown"}
    MaxIterations = 2
    MaxToolCalls = 2
    MaxFailures = 2
SPECIFICATION Spec
INVARIANTS TypeOK BestReachesSynthesis CallsBounded BudgetKept TreeAddsUp AnchorsCounted
           ChunksCover ExchangeBounded ToolRepeats AnsweredInOrder
PROPERTIES IdleForEver ImplementsDeliberation
CHECK_DEADLOCK FALSE
