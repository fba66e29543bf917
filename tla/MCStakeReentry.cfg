\* Shows an active validator among the fully unstaked ones.
CONSTANTS
    Nodes = {v1}
    Stakers = {e1}
    BlackHole = BlackHole
    NoNode = NoNode
    NoTx = NoTx
    Diversions <- NoDiversions
    StakeUnit = 2
    SlotsLimit = 2
    Word = 32
    MaxSlotsPerTx = 1
    MaxCoinsPerTx = 1
    MaxDeposit = 1
    MaxReserve = 0
    ElectorsReward = 3
    MaxCumulative = 6
CONSTRAINT Explored
ACTION_CONSTRAINTS RestartAfterError NoForging
SPECIFICATION Spec
INVARIANT FullyUnstakedHaveLeft
CHECK_DEADLOCK FALSE
