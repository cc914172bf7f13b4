\* A call that changes the policy of an agent for which no file is found.
SPECIFICATION VerdictsSpec
CONSTANTS
    ActiveChain = 1672
    MaxInner <- MCMaxInner
    Requests <- MCRequests
    Overrides <- MCOverrides
    EnvPreset = "standard"
    ExecutionAvailable = FALSE
    Contracts <- MCContracts
    Commands <- MCCommands
    BaseFacts <- MCBaseFacts
    ShopFacts <- MCShopFacts
    RpcChains <- MCRpcChains
    Assessments <- MCAssessments
    PolicyProcs = {"mcp", "api"}
    PolicyAgents = {"a1"}
    PolicyShipped = FALSE
    AskedLimits = {0, 4}
    MaxPolicyCalls = 3
    MaxPolicyTroubles = 1
INVARIANT RaisedOnlyBySaving
