# Verification of the RDO node

TLA+ models of the parts of this node whose correctness depends on the order of
steps: what a block does to the staking pool and to the two databases, and what
happens when a node stops in the middle; and how the transaction pool fares between
the goroutines that use it. TLC checks small instances, TLAPS proves the staking
invariants and those of the stored chain for every value of the constants.

## The system

| part | source | where |
|---|---|---|
| staking pool | `blockchain/consensus/staking/pool.go` | `StakePool`, `StakeLedger` |
| chain storage: SQL rows, KV blocks, repair | `blockchain/core/rdochain`, `blockchain/db` | `ChainStorage` |
| core service, block finalization | `blockchain/core/service.go` | `StakeLedger`, `ChainStorage` |
| block and transaction validation | `blockchain/consensus/attestation` | guards of both |
| forger | `blockchain/consensus/forger` | reservations and system unstakes in `StakeLedger`, block building in `TxPool` |
| transaction pool, attestation service | `blockchain/core/attestation`, `utils/async` | `TxPool` |
| validator service: seeds, proposals, votes | `validator`, `blockchain/consensus/backend` | planned |
| network synchronization | `blockchain/sync` | planned |
| slots, feeds, registry, p2p, RPC, keys, generated code | see `PROJECT.json` | not modelled |

A forger takes transactions from the pool, reserves slots for the stakes among
them, adds rewards, system unstakes and the fee, and proposes the block.
Validators vote on it. Every node finalizes it: `ValidateBlock`, the SQL
transaction, three KV transactions, then the transaction pool, then the staking
pool. The KV store holds the chain and is the reference, SQL is repaired from it at
the start; the staking pool is in memory and is rebuilt from SQL rows at the start.

`PROJECT.json` lists every part, the line behind every definition, and the hazards:
the places in the code where an order of events matters that a test would hardly
produce. A hazard names the properties that fail when it bites; the others say in a
note what is modelled and why no property covers it (several of the transaction
pool's are excused by its history variable `stale`, see below).

## StakePool and StakeLedger

`StakePool` is `pool.go`: one variable per field and one operator per method.
Amounts are `uint64` and wrap at `Word`. A Go map is a total function with 0 for a
missing key, which is exact because stored amounts are positive.

`StakeLedger` drives it as the node does. `ownDeposit[t]` and `deposit[v][f][t]` are
the unspent stake rows in SQL, on BlackHole by recipient, on a node by sender and
recipient. `FinalizeBlock` commits a block to them and queues its transactions;
`BeginStaking` is the critical section in which `FinalizeStaking` drops the
reservations; `ProcessValidatorStake` ... `ProcessSystemUnstake` are its loop, one
transaction per step, and `Fail` is its early return. `Restart` may come at any
moment, also in the middle of a batch, and `LoadValidator`/`LoadElector` are `Init`,
which reads rows in any order and in any pieces, because the query has no `ORDER BY`.

The forger runs in the goroutine of the validator service with nothing between it and
`FinalizeStaking`: `BeginForging`, then for every stake on BlackHole the four steps of
`ReserveSlots` (`CanValidatorStake` under `mu`, `ReadFilled` and `ReadReserved` under no
lock, `AddReserved` under `mu`), then `EndForging`, which keeps the reservations. The
blocks themselves are those of the network: nothing says that their stakes fit into
this node's slots, because the node that forged them may have had another pool.

Transactions of the shape the node's own generator gives them keep stake on one node
and with its owner; a block holds any number of them, one per sender. The validator
accepts more: `validateUnstakeTx` does not look at the node of an unstake's stake
output, and no check compares the recipient of a stake with its sender. These
transactions are `Diversions`; a block holds at most one. The pool credits senders and
`Init` credits recipients on BlackHole, and `processUnstakeTx` subtracts a stake output
on another node without adding it there, so with a diversion in the chain the pool and
the rows may differ. The properties about their agreement say `~diverted`;
`stake_outputs` shows the difference, and the properties about slots are checked and
proved with diversions.

History variables: `cutShort` (a batch was abandoned), `reentered` (a node became a
validator again while the system still owed its electors their coins), `known`,
`diverted`, and `fgr.overtaken` (a `FinalizeStaking` changed the slots while the block
was being forged).

| run | shows |
|---|---|
| `stake_pool` | one node with three slots, two electors: own stake and elector stake agree with the rows, a validator's unstake finds its entry, the reward divisor is positive and shares never exceed the electors' part |
| `stake_limit` | with diversions and with the forger: types, the slot sum, the slot limit, and that reservations of one block fit unless a `FinalizeStaking` runs during its forging |
| `stake_reentry` | violation: `GetFullyUnstaked` lists electors of an active validator |
| `stake_cut_short` | violation: `FinalizeStaking` leaves a committed block half applied |
| `stake_dilution` | violation: after a partial validator unstake, running and restarted nodes expect different rewards |
| `stake_outputs` | violation: a stake output of an unstake is in the ledger and not in the pool |

Bounds. Three slots with two per transaction give partial unstakes next to a slot that
stays; an elector with two coins can unstake half; two electors make the order within a
batch matter. Two slots and reservations of one or two make the limit bite in
`stake_limit`, where one node and one elector are enough for every kind of diversion
(`SomeDiversions`); after a diversion blocks hold one transaction, and blocks are forged
while there are only validators. `Word = 32` is above every honest sum, so a wrap is a
wrap. `MaxCumulative` stops the growth of `CumulativeStake` (itself the subject of
`stake_dilution`), and after an error only what leads back to a restart is explored: the
properties of agreement claim nothing in between. Deadlock is not checked in these runs
because `Restart` is always possible.

## ChainStorage

`utxo` is the table of rows; `stored`, `kvHead`, `rewards`, `fees` are KV keys;
`head` is in memory; `pc` is the next step of the node. `ProcessBlock`,
`WriteBlock`, `SaveHeadBlockNum` and `UpdateAmountStats` are the four transactions
of `FinalizeBlock`, in that order. `KvError` is a failed one, with the immediate
`SyncData` that follows. `BeginSync`, `SyncBatch`, `EndSync` are `SyncData`, one SQL
transaction of `blocksPerTx` blocks at a time; `CheckBalance` decides at the start
whether the node serves. `Crash` may come between any two steps and `RestoreSQL`
stands for an operator who puts SQL back to a backup. `failedTx` are blocks whose
payment was marked failed and which `ValidateBlock` accepts nevertheless.

| run | shows |
|---|---|
| `chain_storage` | a serving node has exactly the unspent outputs of its head; the KV chain has no holes; the saved head moves by one; finalizing and repairing come to an end |
| `chain_sync` | violation: after a crash between SQL and KV, `SyncData` does not restore spent rows |
| `chain_known` | violation: after a crash between two KV writes a block is known and never finalized |

Bounds. Three blocks, two Genesis outputs and one input per block let a block spend
an old output, a fresh one, or nothing; two blocks per repair transaction put a
commit in the middle of a repair; two crashes allow one during the repair of the
first. A failed KV write and a failed payment are not explored in one behaviour. The
network is one block ahead of the node at most, since only block `head + 1` is
accepted. The node may stop for good (`failed`), so deadlock is not checked.

Fairness. Weak fairness of `Working`, the steps a goroutine takes once a block is
accepted or `SyncData` has begun: sequential code that waits for nobody. Nothing is
assumed of accepting a block or of starting a node again. `ValidateBlock` may refuse a
block for good (a reward or a system unstake that does not check), which changes
nothing and is no step here, and the sync service stops at any error but
`ErrKnownBlock`, so that a node which is behind need not catch up. `WorkEnds` is what
holds: no block and no repair hangs, whatever crash or failed write came before and
however far apart the databases are.

## TxPool

The pool of `core/attestation/pool.go` with its users. The listener is the only
caller of `Insert`: lookups under `mu`, `validateTx` under no lock, the maps under
`mu`, the queue under `queueLock`, then the size limit (`PickWorst`, `ForgetWorst`,
`Truncate`), or for a replacement `WaitLock`, `SwapByHash`, `SwapMaps`. The core
service commits a block and runs `Finalize`, which holds `mu` throughout but reads
indices of the queue without `queueLock`. The forger takes the forging lock, sorts
and copies the queue, and adds transactions and collapse transactions. `ReadQueue`
is a client's request, which sorts the queue at any time.

`pending` is a slice: `array` is its backing array and `size` its length, so that a
goroutine that works with an older length sees what the code would see. A
transaction is a record of sender, kind, fee, number and coins; the databases are
the coins spent and the number stored per sender, which stays that of the sender's
first transaction.

The pool has steps that use what they read before another goroutine changed it. The
history variable `stale` is set when one of the pool's own operations does: an insert
finished after its transaction became invalid or its sender got another one, a
transaction found in the maps and not in the queue, a removal by an old index, a
truncation or deletion with an old length. `PoolAgrees` claims nothing after that: it
is about all other interleavings, and the hazards behind `stale` are not its subject.
The forger's use of its copy of the queue sets nothing by itself; `fgr.overtaken` is set
by whoever takes a transaction out of the maps, or has already, while the copy still
holds one of its sender.

| run | shows |
|---|---|
| `tx_pool` | without a stale read: between operations maps and queue agree, one transaction per sender, nothing in the pool is spent; a block being forged, its collapse transactions included, has one transaction per sender as long as the forger was not overtaken |
| `tx_finalize` | violation: a finalized transaction stays in the pool |
| `tx_forge` | violation: a forged block holds a transaction that has left the maps and a collapse transaction with the same inputs |

Bounds. Two payments of one sender with one coin (the second is cheaper, which is
what `txLess` lets replace the first), a stake of another sender, a collapse for
each, a system unstake; the size limit is reached with two transactions in the maps.
A block is forged when the queue holds something and nothing of an earlier block is
left in the pool; a block with the system unstake holds nothing else, and the block with
one of the two collapses is always lost. States after a stale read are not
expanded in `tx_pool`, and a forger that was overtaken finishes its block at its next
step: the properties claim nothing there, and `tx_forge` explores what may follow. The forger may be idle for good, so
deadlock is not checked. A sender is never empty (`Insert` returns with `mu` held
then, see the hazards).

## What is proved

Three modules, each extending the one before, prove for all sets of nodes and stakers,
every limit, price and word size, and all diversions, from the assumptions named in the
modules (positive price and word, node and staker addresses disjoint, deposits below the
word):

* `StakeLedgerTypes`: `TypeCorrect`, `SlotsNeverExceeded` and `ReservationsHold`, the run
  properties `TypeOK`, `FilledWithinLimit` and `ReservationsFit`. They hold with
  diversions, with batches that fail and with the forger between any two steps. The
  inductive invariant (`SlotInv` beside the types) says what the forger knows after
  each step of `ReserveSlots`: as long as it is not overtaken the filled slots it
  read can only have become fewer, and what it has taken is reserved.
* `StakeLedgerAgreement`: the inductive invariant `AInv` and that the commits, errors
  and a validator's own stakes keep it.
* `StakeLedgerProofs`: the other steps; `Invariance`, and from it `OwnStakeCorrect`,
  `ElectorStakeCorrect` and `UnstakingValidatorIsFound`, the run properties
  `OwnStakeAgrees`, `ElectorStakeAgrees` and `ValidatorIsFound`.

The agreement properties speak of moments between blocks, so they are not inductive.
`AInv` says what is true in the middle of a batch or of a reload, without a diversion:
what the pool holds, plus what is still to be processed, plus rows still to be read, is
what the ledger holds (`OwnBalance`, `ElectorBalance`); a node's three records of its
stake agree (`OwnPool`); an elector is on one side only (`OneSide`); a batch and a
reload never overlap (`OneAtATime`); and only nodes and electors have rows, their own
(`Plain`). There is one lemma per action. The exemption of `reentered` nodes stays: what
happens to them is the subject of `stake_reentry`.

`ChainStorageProofs` proves `ChainHasNoHoles` and `SavedHeadMovesByOne` (the run
properties `NoHoles` and `HeadMovesByOne`) for every chain, number of crashes, failed
writes and restores, and batch size. `NoHoles` alone is not inductive: it needs where
the two heads are at every step of a finalization (`HeadsAgree`), above all that a
block being written is not stored yet, hence that the saved head is the one in
memory; and that a repair continues with the check or with normal work
(`RepairTyped`). Every step outside of a finalization is one case (`Elsewhere`).

Only model-checked: `SlotsAddUp` and `RewardsBounded` (sums over sets, which need
induction over data), `UtxoFollowsChain` (sums of amounts in `CheckBalance`), everything
about `TxPool`, and liveness.

## Plan

1. Voting: seeds, leader, proposal, attestations, the threshold of
   `consensus/consensus.go`, messages lost, late or duplicated.
2. Network synchronization: range requests, block queue, restart of a sync.
3. Start of a node: `ChainStorage` and `StakeLedger` composed, with the staking pool
   loaded while the repair runs.
4. `TxPool`: the count of stakes and its limit.
5. Proofs: the agreement of the transaction pool's maps; an abstract chain that
   `ChainStorage` implements.

## Not modelled

Cryptography, encodings, hashes and SQL text are taken as correct. The event feed and
the clock are vendored libraries. RPC, gateway, metrics, generator and generated code
change no state that the properties speak of. Wall-clock time appears only as
"eventually".
