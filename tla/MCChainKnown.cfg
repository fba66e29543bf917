\* A crash between WriteBlock and SaveHeadBlockNum.
CONSTANTS
    MaxBlocks = 2
    MaxInputs = 1
    MaxAmount = 1
    GenesisAmounts <- TwoOutputs
    BlocksPerTx = 2
    MaxCrashes = 1
    MaxKvErrors = 0
    MaxFailed = 0
SPECIFICATION Spec
INVARIANT KnownMeansFinalized
CHECK_DEADLOCK FALSE
