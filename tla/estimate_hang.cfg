\* Searcher-mode lifecycle; see README.md for the question this run asks.
CONSTANTS
    s1 = s1  s2 = s2  f1 = f1  p1 = p1  c1 = c1  c2 = c2  t1 = t1  t2 = t2
    Zero = Zero
    NoOp = NoOp
    Ops <- OpsDistinct
    Entities <- MCEntities
    Clients <- MCClients1
    Targets <- MCTargets
    Staked = {}
    SameSenderMempoolCount = 1
    SameUnstakedEntityMempoolCount = 2
    ThrottledEntityMempoolCount = 4
    MinInclusionRateDenominator = 10
    ThrottlingSlack = 10
    BanSlack = 50
    MaxRequests = 2
    MaxBatch = 0
    MaxBatchGasLimit = 10
    HostMayCrash = FALSE
SPECIFICATION Spec
PROPERTY
    TickReturns
