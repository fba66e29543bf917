-------------------------- MODULE MCStakeLedger ---------------------------
(* Instances of StakeLedger for TLC. *)
EXTENDS StakeLedger, TLC

CONSTANT MaxCumulative      \* bound: explored growth of CumulativeStake

\* Transactions that move stake elsewhere.
NoCoins == [f \in Address |-> 0]
CoinsOf(f, n) == [NoCoins EXCEPT ![f] = n]
Stake(from, on, to, out) ==
    [from |-> from, at |-> NoNode, slots |-> 0, coins |-> NoCoins, on |-> on, to |-> to, out |-> out]
Unstake(from, at, slots, coins, on, to, out) ==
    [from |-> from, at |-> at, slots |-> slots, coins |-> coins, on |-> on, to |-> to, out |-> out]

NoDiversions == {}

\* The rest of a validator's unstake, put on a node.
ToNode == {Unstake(v, BlackHole, n, NoCoins, w, v, 1) : v, w \in Nodes, n \in 1 .. 2}
\* The rest of an elector's unstake, put on BlackHole or on another node.
FromElector == {Unstake(e, v, 0, CoinsOf(e, 2), x, e, 1) :
                   e \in Stakers, v \in Nodes, x \in Nodes \cup {BlackHole}}
\* A stake made out to somebody else, and what they do with it.
ToOther == {Stake(v, BlackHole, t, StakeUnit) : v \in Nodes, t \in Address}
           \cup {Stake(e, v, t, 1) : e \in Stakers, v \in Nodes, t \in Nodes}
FromOther == {Unstake(t, BlackHole, 1, NoCoins, NoNode, t, 0) : t \in Stakers}
             \cup {Unstake(t, v, 0, CoinsOf(e, 1), NoNode, t, 0) : t, v \in Nodes, e \in Stakers}

SomeDiversions == {d \in ToNode \cup FromElector \cup ToOther \cup FromOther :
                      d.at = d.on => d.from # d.to}

\* Partial unstakes let CumulativeStake grow without end, and so do FinalizeStakings
\* the slots one forging takes; states past the bounds, or in which an amount has
\* wrapped around, are checked and not expanded.
Explored ==
    /\ \A v \in Address :
          /\ CumulativeStake[v] <= MaxCumulative
          /\ ownDeposit[v] <= SlotsLimit
          /\ \A e \in Address : Electors[v][e] <= MaxDeposit /\ unstakedSnapshot[v][e] <= MaxDeposit
    /\ fgr.taken <= SlotsLimit

\* After an error the pool no longer mirrors the ledger and the properties claim
\* nothing until the node restarts: only the restart and blocks in which
\* validators unstake (and may be missing from the pool) are explored.
RestartAfterError ==
    failure # "none" /\ failure' # "none" =>
        /\ sysTx' = NoStake /\ elTx' = NoMoves
        /\ \A v \in Nodes : ownTx'[v] <= 0

\* The runs about the pool and the ledger leave the forger out.
NoForging == fgr'.pc = "idle"

\* The slots are not exceeded and the system returns nothing.
UnstakesOnly == NoForging /\ failure' # "slots" /\ sysTx' = NoStake

\* Once a diversion is in the chain, blocks hold one transaction; blocks are forged
\* as long as there are only validators.
OneDiversion ==
    /\ diverted' => ownTx' = [v \in Nodes |-> 0] /\ elTx' = NoMoves
    /\ fgr'.pc # "idle" => deposit' = NoDeposit /\ ~diverted'

StakerSymmetry == Permutations(Stakers)
=============================================================================
