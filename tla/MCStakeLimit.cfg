\* A validator and an elector whose stake outputs may be on any node, while the forger reserves slots.
CONSTANTS
    Nodes = {v1}
    Stakers = {e1}
    BlackHole = BlackHole
    NoNode = NoNode
    NoTx = NoTx
    Diversions <- SomeDiversions
    StakeUnit = 2
    SlotsLimit = 2
    Word = 32
    MaxSlotsPerTx = 1
    MaxCoinsPerTx = 1
    MaxDeposit = 2
    MaxReserve = 2
    ElectorsReward = 3
    MaxCumulative = 4
CONSTRAINT Explored
ACTION_CONSTRAINTS OneDiversion RestartAfterError
SPECIFICATION Spec
INVARIANTS TypeOK SlotsAddUp FilledWithinLimit ReservationsFit
CHECK_DEADLOCK FALSE
