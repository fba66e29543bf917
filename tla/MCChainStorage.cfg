\* Three blocks, a crash, a restore or two crashes, and a failed KV write or payment.
CONSTANTS
    MaxBlocks = 3
    MaxInputs = 1
    MaxAmount = 1
    GenesisAmounts <- TwoOutputs
    BlocksPerTx = 2
    MaxCrashes = 2
    MaxKvErrors = 1
    MaxFailed = 1
ACTION_CONSTRAINTS OneAhead OneKindOfFailure
SPECIFICATION FairSpec
INVARIANTS TypeOK UtxoFollowsChain NoHoles
PROPERTIES HeadMovesByOne WorkEnds
CHECK_DEADLOCK FALSE
