\* Every mode and fail-open chain, two passes of reflection, a supervision.
SPECIFICATION FairSpec
CONSTANTS
    llama = llama
    mistral = mistral
    gpt = gpt
    none = none
    auto = auto
    Model = {llama, mistral, gpt}
    NoModel = none
    Routed = auto
    Allowed = {llama, mistral}
    Primary = llama
    Fallback = mistral
    AutoRoute = TRUE
    Offered = {"tot", "mcts", "multi_agent", "decompose"}
    FailOpen = {"mcts", "multi_agent", "decompose"}
    MaxPasses = 2
    Chain = TRUE
    Risk <- MCRisk
    Violations = {0, 1, 2}
    WarnThreshold = 1
    RejectThreshold = 2
    StoreFaults = TRUE
INVARIANTS TypeOK AllowedOnly StagedFallback RevisionsHelp
PROPERTIES ImplementsTurn EveryTurnEnds
