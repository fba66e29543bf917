\* Shows an elector reward that the ledger does not give.
CONSTANTS
    Nodes = {v1}
    Stakers = {e1}
    BlackHole = BlackHole
    NoNode = NoNode
    NoTx = NoTx
    Diversions <- NoDiversions
    StakeUnit = 2
    SlotsLimit = 2
    Word = 32
    MaxSlotsPerTx = 2
    MaxCoinsPerTx = 2
    MaxDeposit = 2
    MaxReserve = 0
    ElectorsReward = 3
    MaxCumulative = 6
CONSTRAINT Explored
ACTION_CONSTRAINTS RestartAfterError NoForging
SPECIFICATION Spec
INVARIANT RewardsFollowLedger
CHECK_DEADLOCK FALSE
