\* Requests, commands and assessments of every kind, one at a time, on Pacific;
\* or two processes that set policies, without default.json.
SPECIFICATION VerdictsSpec
CONSTANTS
    ActiveChain = 1672
    MaxInner <- MCMaxInner
    Requests <- MCRequests
    Overrides <- MCOverrides
    EnvPreset = "standard"
    ExecutionAvailable = FALSE
    Contracts <- MCContracts
    Commands <- MCCommands
    BaseFacts <- MCBaseFacts
    ShopFacts <- MCShopFacts
    RpcChains <- MCRpcChains
    Assessments <- MCAssessments
    PolicyProcs = {"mcp", "api"}
    PolicyAgents = {"a1"}
    PolicyShipped = FALSE
    AskedLimits = {0, 4}
    MaxPolicyCalls = 3
    MaxPolicyTroubles = 1
INVARIANTS
    FailedReadNeverRelaxes
    DenylistedIsBlocked
    TightenedNeverSofterUnlessDecimal
    IntentNeverSofterUnlessDrifted
    UnvettedNeverAllowed
    ProceedsOnEvidence
    EnginesAgree
    RaisedOnlyBySavingUnlessShared
