\* MaintainGasLimit, the basefee projection and PVG estimation over bounded inputs.
CONSTANTS
    GasOps <- MCGasOps
    MaxOps = 4
    MaxBatchGasLimit <- MCLimit
    BaseFees <- SmallBaseFees
    BlocksInTheFuture = 6
    Plugins <- MCPlugins
    BufferFactors = {0, 10}
    L1Component <- MCL1
    L1Fee <- MCL1
    HeadBaseFee = 1
    EstimateOps <- MCEstimateOps
    GasFills <- MCGasFills
    Signatures <- MCSignatures
SPECIFICATION Spec
\* Both loops terminate: a final state has no successor.
CHECK_DEADLOCK FALSE
INVARIANTS
    TypeOK
    KeepsLongestPrefixUnderLimit
    ProjectionCoversTargets
    EstimateThenSendAccepted
