\* Validation of one op over every combination of at most two abnormal answers.
CONSTANTS
    Sender = Sender
    Factory = Factory
    Paymaster = Paymaster
    Zero = Zero
    SenderCreator = SenderCreator
    c1 = c1
    Contracts = {c1}
    Infos <- MCInfos
    StorageOutcomes <- MCStorageOutcomes
    CallKinds <- MCCallKinds
    PmLens = {0, 10, 20}
    Deposits = {0, 1}
    MaxPrefund = 1
    MaxCalls = 2
    MaxFaults = 2
SPECIFICATION Spec
\* A returned validation is a final state.
CHECK_DEADLOCK FALSE
INVARIANT NoValueTransferAccepted
