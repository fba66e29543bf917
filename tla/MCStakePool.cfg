\* Two electors of a validator with up to three slots.
CONSTANTS
    Nodes = {v1}
    Stakers = {e1, e2}
    BlackHole = BlackHole
    NoNode = NoNode
    NoTx = NoTx
    Diversions <- NoDiversions
    StakeUnit = 2
    SlotsLimit = 3
    Word = 32
    MaxSlotsPerTx = 2
    MaxCoinsPerTx = 2
    MaxDeposit = 2
    MaxReserve = 0
    ElectorsReward = 3
    MaxCumulative = 10
SYMMETRY StakerSymmetry
CONSTRAINT Explored
ACTION_CONSTRAINTS RestartAfterError NoForging
SPECIFICATION Spec
INVARIANTS OwnStakeAgrees ElectorStakeAgrees RewardsBounded
PROPERTY ValidatorIsFound
CHECK_DEADLOCK FALSE
