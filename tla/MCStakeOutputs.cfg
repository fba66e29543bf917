\* Shows rows of a completed block that the pool does not know.
CONSTANTS
    Nodes = {v1, v2}
    Stakers = {e1}
    BlackHole = BlackHole
    NoNode = NoNode
    NoTx = NoTx
    Diversions <- FromElector
    StakeUnit = 2
    SlotsLimit = 2
    Word = 32
    MaxSlotsPerTx = 1
    MaxCoinsPerTx = 2
    MaxDeposit = 2
    MaxReserve = 0
    ElectorsReward = 3
    MaxCumulative = 6
CONSTRAINT Explored
ACTION_CONSTRAINTS RestartAfterError NoForging
SPECIFICATION Spec
INVARIANT RowsAreStaked
CHECK_DEADLOCK FALSE
