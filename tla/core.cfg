\* Searcher-mode lifecycle: concurrent ingress, the bundler tick, the chain.
CONSTANTS
    s1 = s1  s2 = s2  f1 = f1  p1 = p1  c1 = c1  c2 = c2  t1 = t1  t2 = t2
    Zero = Zero
    NoOp = NoOp
    Ops <- OpsCore
    Entities <- MCEntities
    Clients <- MCClients2
    Targets <- MCTargets
    Staked = {}
    SameSenderMempoolCount = 2
    SameUnstakedEntityMempoolCount = 2
    ThrottledEntityMempoolCount = 1
    MinInclusionRateDenominator = 1
    ThrottlingSlack = 1
    BanSlack = 2
    MaxRequests = 4
    MaxBatch = 0
    MaxBatchGasLimit = 5
    HostMayCrash = TRUE
SPECIFICATION Spec
INVARIANTS
    TypeOK
    ReputationNeverOvercounts
    IncludedWereSeen
