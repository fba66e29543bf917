--------------------------- MODULE ChainStorage ----------------------------
(***************************************************************************)
(* How a node keeps its two databases together.                            *)
(*                                                                         *)
(* A finalized block is first applied to SQL, which holds the unspent      *)
(* outputs (OutputManager.ProcessBlock), then written to the key-value     *)
(* store in three transactions: the block, the head number, the reward and *)
(* fee totals (BlockChain.SaveBlock); the head in memory moves last.  A    *)
(* crash may fall between any two of these, and a KV write may fail.       *)
(* SyncData repairs SQL from the KV head; at the start CheckBalance then   *)
(* decides whether the node comes up.                                      *)
(*                                                                         *)
(* The network agrees on one chain; a block is what the databases keep of  *)
(* it: the outputs it spends, the fee it burns and the reward it mints.    *)
(***************************************************************************)
EXTENDS Integers, Sequences, FiniteSetsExt

CONSTANTS
    MaxBlocks,          \* bound: length of the chain
    MaxInputs,          \* bound: outputs spent by one block
    MaxAmount,          \* bound: fee and reward of one block
    GenesisAmounts,     \* sequence: amounts of the Genesis outputs
    BlocksPerTx,        \* blocksPerTx: blocks repaired per SQL transaction
    MaxCrashes,         \* bound: crashes, and SQL restores
    MaxKvErrors,        \* bound: failed KV writes
    MaxFailed           \* bound: blocks with a transaction marked failed

ASSUME ChainStorageAssumption ==
    /\ MaxBlocks \in Nat /\ MaxInputs \in Nat /\ MaxAmount \in Nat
    /\ GenesisAmounts \in Seq(Nat \ {0})
    /\ BlocksPerTx \in Nat \ {0}
    /\ MaxCrashes \in Nat /\ MaxKvErrors \in Nat /\ MaxFailed \in Nat

VARIABLES
    chain,          \* the network's blocks 1, 2, ...
    utxo,           \* SQL: the rows, committed
    stored,         \* KV: numbers of the blocks written
    failedTx,       \* KV: those whose payment is stored with status TxFailed
    kvHead,         \* KV: lastBlockKey
    rewards, fees,  \* KV: statsKey
    head,           \* memory: bc.headBlockNum
    pc,             \* what the node is doing
    repair,         \* SyncData: min, max, next block and what follows
    crashes, kvErrors,
    dirty           \* history: a KV write failed since the start

kvVars == <<stored, failedTx, kvHead, rewards, fees>>
faultVars == <<crashes, kvErrors, dirty>>
vars == <<chain, utxo, kvVars, head, pc, repair, faultVars>>

\* A row of the outputs table.
Output(block, index, amount) == [block |-> block, index |-> index, amount |-> amount]
Total(outputs) == MapThenSumSet(LAMBDA o : o.amount, outputs)

GenesisOutputs == {Output(0, i, GenesisAmounts[i]) : i \in DOMAIN GenesisAmounts}

\* Rows a block adds: what its transactions pay on, and the reward.  Fee
\* outputs are never stored.
OutputsOf(n) ==
    IF n = 0 THEN GenesisOutputs
    ELSE LET b == chain[n]
             paid == Total(b.spends) - b.fee
         IN  {o \in {Output(n, 1, paid), Output(n, 2, b.reward)} : o.amount > 0}

SpentBy(n) == IF n = 0 THEN {} ELSE chain[n].spends

Created(blocks) == UNION {OutputsOf(n) : n \in blocks}
Spent(blocks) == UNION {SpentBy(n) : n \in blocks}

\* The unspent outputs after block n of the chain.
Unspent(n) == Created(0 .. n) \ Spent(0 .. n)

NoRepair == [min |-> 0, max |-> 0, next |-> 0, clear |-> FALSE, then |-> "check"]
Steps == {"down", "sync", "repair", "check", "failed",
          "ready", "sql", "write", "head", "stats"}

TypeOK ==
    /\ Len(chain) <= MaxBlocks
    /\ \A n \in 1 .. Len(chain) : chain[n].fee \in 0 .. MaxAmount /\ chain[n].reward \in 0 .. MaxAmount
    /\ utxo \subseteq Created(0 .. Len(chain))
    /\ stored \subseteq 1 .. Len(chain)
    /\ failedTx \subseteq 1 .. Len(chain)
    /\ kvHead \in 0 .. Len(chain) /\ head \in 0 .. Len(chain)
    /\ rewards \in Nat /\ fees \in Nat
    /\ pc \in Steps
    /\ repair.next \in 0 .. Len(chain) + 1
    /\ crashes \in 0 .. MaxCrashes /\ kvErrors \in 0 .. MaxKvErrors
    /\ dirty \in BOOLEAN

\* A new database: head 0 is saved and Genesis inserted before SyncData runs.
Init ==
    /\ chain = <<>>
    /\ utxo = {}
    /\ stored = {} /\ failedTx = {} /\ kvHead = 0
    /\ rewards = 0 /\ fees = 0
    /\ head = 0
    /\ pc = "sync"
    /\ repair = NoRepair
    /\ crashes = 0 /\ kvErrors = 0 /\ dirty = FALSE

\* The network: a block spends outputs that are unspent on its chain.
NewBlock(spends, fee, reward) ==
    /\ Len(chain) < MaxBlocks
    /\ Cardinality(spends) <= MaxInputs
    /\ IF spends = {} THEN fee = 0 ELSE fee < Total(spends)
    /\ chain' = Append(chain, [spends |-> spends, fee |-> fee, reward |-> reward])
    /\ UNCHANGED <<utxo, kvVars, head, pc, repair, faultVars>>

-----------------------------------------------------------------------------
(* Finalizing a block.                                                     *)

\* ValidateBlock: not stored under its hash or number, and the one before it is
\* not above the head.  Only block head + 1 passes.  A payment that fails its
\* own checks is marked TxFailed and the block is accepted all the same: the
\* error built for it wraps a nil error.  A block may also be rejected for other
\* reasons (a system unstake or a reward that does not check, an input that
\* repeats), for good: that changes nothing, so it is no step of this module, and
\* nothing below assumes that the next block is ever accepted.
ValidateBlock(n, fails) ==
    /\ pc = "ready"
    /\ n \notin stored
    /\ n > head
    /\ n - 1 <= head
    /\ fails => SpentBy(n) # {} /\ Cardinality(failedTx) < MaxFailed
    /\ failedTx' = IF fails THEN failedTx \cup {n} ELSE failedTx \ {n}
    /\ pc' = "sql"
    /\ UNCHANGED <<chain, utxo, stored, kvHead, rewards, fees, head, repair, faultVars>>

Current == head + 1

\* One SQL transaction: every input is a row, or everything is rolled back.
ProcessBlock ==
    /\ pc = "sql"
    /\ \/ /\ SpentBy(Current) \subseteq utxo
          /\ utxo' = (utxo \ SpentBy(Current)) \cup OutputsOf(Current)
          /\ pc' = "write"
       \/ /\ ~(SpentBy(Current) \subseteq utxo)
          /\ pc' = "ready"
          /\ UNCHANGED utxo
    /\ UNCHANGED <<chain, kvVars, head, repair, faultVars>>

WriteBlock ==
    /\ pc = "write"
    /\ stored' = stored \cup {Current}
    /\ pc' = "head"
    /\ UNCHANGED <<chain, utxo, failedTx, kvHead, rewards, fees, head, repair, faultVars>>

\* Mutant of SaveHeadBlockNum: the head is taken from SQL, where a block without
\* outputs leaves no row.
SaveHeadFromSQL ==
    /\ pc = "head"
    /\ kvHead' = IF utxo = {} THEN 0 ELSE Max({o.block : o \in utxo})
    /\ pc' = "stats"
    /\ UNCHANGED <<chain, utxo, stored, failedTx, rewards, fees, head, repair, faultVars>>

SaveHeadBlockNum ==
    /\ pc = "head"
    /\ kvHead' = Current
    /\ pc' = "stats"
    /\ UNCHANGED <<chain, utxo, stored, failedTx, rewards, fees, head, repair, faultVars>>

\* The totals, and with them committed the head in memory.
UpdateAmountStats ==
    /\ pc = "stats"
    /\ rewards' = rewards + chain[Current].reward
    /\ fees' = fees + chain[Current].fee
    /\ head' = Current
    /\ pc' = "ready"
    /\ UNCHANGED <<chain, utxo, stored, failedTx, kvHead, repair, faultVars>>

-----------------------------------------------------------------------------
(* SyncData: bring SQL to the block the head in memory names.              *)

FindLastBlockNum == IF utxo = {} THEN 0 ELSE Max({o.block : o \in utxo})

\* Where to begin and end; equal numbers still replay the head block.
Repair(then) ==
    LET lastSQL == FindLastBlockNum
        lower == IF lastSQL < head THEN lastSQL ELSE head
    IN  [min |-> lower, max |-> lastSQL + head - lower, next |-> lower,
         clear |-> lastSQL > head, then |-> then]

BeginSync ==
    /\ pc = "sync"
    /\ repair' = Repair(repair.then)
    /\ pc' = "repair"
    /\ UNCHANGED <<chain, utxo, kvVars, head, faultVars>>

\* syncBlock over a set of blocks: payments marked failed are skipped, inputs
\* need not be there, outputs may be, and Genesis rows are replaced.
Replay(rows, blocks) ==
    LET applied == {n \in blocks : n \notin failedTx}
        rewarded == {o \in Created(blocks \cap failedTx) : o.index = 2}
        kept == IF 0 \in blocks THEN {o \in rows : o.block # 0} ELSE rows
    IN  (kept \cup Created(applied) \cup rewarded) \ Spent(applied)

\* Mutant of SyncBatch: the next batch begins with the last block of this one.
SyncBatchRepeats ==
    LET batch == {n \in repair.next .. repair.max : n < repair.next + BlocksPerTx}
        cleared == IF repair.clear THEN batch \ {repair.min} ELSE {}
        rows == {o \in utxo : o.block \notin cleared}
    IN  /\ pc = "repair"
        /\ repair.next <= repair.max
        /\ utxo' = Replay(rows, batch \ cleared)
        /\ repair' = [repair EXCEPT !.next = Max(batch)]
        /\ UNCHANGED <<chain, kvVars, head, pc, faultVars>>

\* Mutant of SyncBatch: the block after a full batch is skipped.
SyncBatchSkips ==
    LET batch == {n \in repair.next .. repair.max : n < repair.next + BlocksPerTx}
        cleared == IF repair.clear THEN batch \ {repair.min} ELSE {}
        rows == {o \in utxo : o.block \notin cleared}
    IN  /\ pc = "repair"
        /\ repair.next <= repair.max
        /\ utxo' = Replay(rows, batch \ cleared)
        /\ repair' = [repair EXCEPT !.next = Max(batch) + 2]
        /\ UNCHANGED <<chain, kvVars, head, pc, faultVars>>

\* One SQL transaction of syncDataInRange.  Above the first block rows are
\* deleted by block number if SQL is ahead, and replayed if it is behind.
SyncBatch ==
    LET batch == {n \in repair.next .. repair.max : n < repair.next + BlocksPerTx}
        cleared == IF repair.clear THEN batch \ {repair.min} ELSE {}
        rows == {o \in utxo : o.block \notin cleared}
    IN  /\ pc = "repair"
        /\ repair.next <= repair.max
        /\ utxo' = Replay(rows, batch \ cleared)
        /\ repair' = [repair EXCEPT !.next = Max(batch) + 1]
        /\ UNCHANGED <<chain, kvVars, head, pc, faultVars>>

EndSync ==
    /\ pc = "repair"
    /\ repair.next > repair.max
    /\ pc' = repair.then
    /\ repair' = NoRepair
    /\ UNCHANGED <<chain, utxo, kvVars, head, faultVars>>

\* A KV transaction of SaveBlock fails: the databases are synced at once, with
\* the head in memory as it was, and the node goes on.
KvError ==
    /\ pc \in {"write", "head", "stats"}
    /\ kvErrors < MaxKvErrors
    /\ kvErrors' = kvErrors + 1
    /\ dirty' = TRUE
    /\ pc' = "sync"
    /\ repair' = [NoRepair EXCEPT !.then = "ready"]
    /\ UNCHANGED <<chain, utxo, kvVars, head, crashes>>

-----------------------------------------------------------------------------
(* Crashes and starts.                                                     *)

BalanceCorrect == Total(GenesisOutputs) + rewards = Total(utxo) + fees

\* Mutant of CheckBalance: the node comes up whatever the sums are.
CheckNothing ==
    /\ pc = "check"
    /\ pc' = "ready"
    /\ UNCHANGED <<chain, utxo, kvVars, head, repair, faultVars>>

\* The end of SyncDatabase: the chain service is ready or reports a failure.
CheckBalance ==
    /\ pc = "check"
    /\ pc' = IF BalanceCorrect THEN "ready" ELSE "failed"
    /\ UNCHANGED <<chain, utxo, kvVars, head, repair, faultVars>>

Crash ==
    /\ pc # "down"
    /\ crashes < MaxCrashes
    /\ crashes' = crashes + 1
    /\ pc' = "down"
    /\ head' = 0
    /\ repair' = NoRepair
    /\ dirty' = FALSE
    /\ UNCHANGED <<chain, utxo, kvVars, kvErrors>>

\* While the node is down its SQL database is put back to an earlier state.
RestoreSQL(n) ==
    /\ pc = "down"
    /\ crashes < MaxCrashes
    /\ crashes' = crashes + 1
    /\ utxo' = Unspent(n)
    /\ UNCHANGED <<chain, kvVars, head, pc, repair, kvErrors, dirty>>

\* Mutant of Start: the head is taken from SQL.
StartFromSQL ==
    /\ pc = "down"
    /\ head' = FindLastBlockNum
    /\ pc' = "sync"
    /\ UNCHANGED <<chain, utxo, kvVars, repair, faultVars>>

\* BlockChain.Init takes the head from the KV store; SyncData follows.
Start ==
    /\ pc = "down"
    /\ head' = kvHead
    /\ pc' = "sync"
    /\ UNCHANGED <<chain, utxo, kvVars, repair, faultVars>>

-----------------------------------------------------------------------------

Finalize ==
    \/ \E n \in 1 .. Len(chain), fails \in BOOLEAN : ValidateBlock(n, fails)
    \/ ProcessBlock \/ WriteBlock \/ SaveHeadBlockNum \/ UpdateAmountStats

Sync == BeginSync \/ SyncBatch \/ EndSync \/ CheckBalance

Next ==
    \/ \E spends \in SUBSET Unspent(Len(chain)), fee, reward \in 0 .. MaxAmount :
          NewBlock(spends, fee, reward)
    \/ Finalize
    \/ Sync
    \/ KvError
    \/ Crash
    \/ \E n \in 0 .. kvHead : RestoreSQL(n)
    \/ Start

Spec == Init /\ [][Next]_vars

\* Once a block is accepted, and once SyncData has begun, the goroutine goes through
\* the steps that remain.  Nothing is assumed of accepting blocks (a service that
\* met an error does not ask for the next one) or of starting a node again.
Working == ProcessBlock \/ WriteBlock \/ SaveHeadBlockNum \/ UpdateAmountStats \/ Sync
FairSpec == Spec /\ WF_vars(Working)

-----------------------------------------------------------------------------
(* Properties.                                                             *)

\* A node that serves requests has exactly the unspent outputs of its head
\* block: whatever crash, SQL restore or failed KV write came before, either
\* SyncData repaired the rows or CheckBalance kept the node from starting.  Not
\* claimed while the node runs on after a failed KV write, nor when a block with
\* a failed payment was accepted.
UtxoFollowsChain == pc = "ready" /\ ~dirty /\ failedTx = {} => utxo = Unspent(head)

\* The chain in the KV store has no holes, and no block is written twice past
\* the head: at most one block is stored above the saved head number.
NoHoles ==
    /\ 1 .. kvHead \subseteq stored
    /\ stored \subseteq 1 .. kvHead + 1

\* The saved head never goes back and never skips a block, through crashes,
\* repairs and repeated deliveries.
HeadMovesByOne == [][kvHead' \in {kvHead, kvHead + 1}]_vars

\* A node never hangs in the middle of a block or of a repair: after any crash, SQL
\* restore or failed KV write, and wherever the two databases then stand to each
\* other, the batches of SyncData come to an end and the node takes blocks, reports
\* a failure or is down.
WorkEnds == pc \notin {"ready", "failed", "down"} ~> pc \in {"ready", "failed", "down"}

-----------------------------------------------------------------------------
(* What comments of the code say and the code does not keep.               *)

\* consensus/interface.go:85: "SyncData syncs data in the KV with data in the
\* SQL."  Rows of a block that SQL has and the KV store lacks are deleted, but
\* the rows that block had spent are not put back (only those created by the
\* head block are): after a crash between the two the node cannot start.
SyncDataSyncs == pc = "check" => utxo = Unspent(head)

\* core/service.go:171: "Block #%d finalized", also logged when ValidateBlock
\* answers "Block already exists in the database" (consensus/errors.go:15).  A
\* crash after WriteBlock leaves the block known and not finalized: it is
\* refused whenever it is offered and the node stays at the block before it.
KnownMeansFinalized == pc = "ready" => \A n \in stored : n <= head
=============================================================================
