------------------------------ MODULE TxPool -------------------------------
(***************************************************************************)
(* The transaction pool (Pool of core/attestation/pool.go) and the three   *)
(* goroutines that change it: the listener, which calls Insert for one     *)
(* transaction after the other; the core service, which commits a block    *)
(* and calls Finalize; and the forger, which locks the pool and builds a   *)
(* block.  Requests of clients sort the queue at any time.                 *)
(*                                                                         *)
(* Every critical section of mu and of queueLock is a step, and so is      *)
(* every read of the pending slice that takes no lock.  Only Finalize      *)
(* holds mu over several of them.                                          *)
(***************************************************************************)
EXTENDS Integers, Sequences, SequencesExt, FiniteSets, TLC

CONSTANTS
    Txs,            \* transactions of clients: records of id, from, kind, fee, num, coins, node
    Collapses,      \* collapse transactions a forger may create
    Returns,        \* system unstakes (ValidatorsUnstakeTxType) a block may contain
    MaxTxCount,     \* maxTxCount
    MaxStakers,     \* MaxNumberOfStakers, less those of the staking pool
    NoTx            \* a missing entry

ASSUME TxPoolAssumption ==
    /\ MaxTxCount \in Nat /\ MaxStakers \in Nat
    /\ \A t \in Txs : t.kind \in {"pay", "stake", "unstake"}
    /\ \A t, u \in Txs \cup Collapses \cup Returns : t.id = u.id => t = u

AllTxs == Txs \cup Collapses \cup Returns
Senders == {t.from : t \in AllTxs}

VARIABLES
    txHashMap,      \* set of transactions
    txSenderMap,    \* sender -> transaction
    stakeTxMap,     \* set of senders
    array, size,    \* pending: the slice is the first size elements of the array
    mu,             \* TRUE while Finalize holds it
    swapLock,       \* TRUE from LockPool to UnlockPool
    forged, dropped,\* transactions with the flag set
    ins,            \* the listener
    fin,            \* the core service
    fgr,            \* the forger
    spent, nonce,   \* the databases: coins spent, number of a sender's first transaction
    stale           \* history: a step used something read before it changed

mapVars == <<txHashMap, txSenderMap, stakeTxMap>>
queueVars == <<array, size>>
flagVars == <<forged, dropped>>
dbVars == <<spent, nonce>>
vars == <<mapVars, queueVars, mu, swapLock, flagVars, ins, fin, fgr, dbVars, stale>>

pending == SubSeq(array, 1, size)
InPending(t) == t \in ToSet(pending)

NotInserting == [pc |-> "idle", tx |-> NoTx, old |-> NoTx, last |-> 0]
NotFinalizing == [pc |-> "idle", todo |-> {}, returns |-> {}, rtx |-> NoTx, index |-> 0]
NotForging == [pc |-> "idle", queue |-> <<>>, block |-> {}, err |-> FALSE, overtaken |-> FALSE,
               tx |-> NoTx, index |-> 0, len |-> 0]

Quiet == ins.pc = "idle" /\ fin.pc = "idle" /\ fgr.pc = "idle"

TypeOK ==
    /\ txHashMap \subseteq Txs \cup Collapses
    /\ txSenderMap \in [Senders -> Txs \cup Collapses \cup {NoTx}]
    /\ stakeTxMap \subseteq Senders
    /\ size \in 0 .. Len(array) /\ ToSet(array) \subseteq Txs
    /\ mu \in BOOLEAN /\ swapLock \in BOOLEAN /\ stale \in BOOLEAN
    /\ forged \subseteq Txs /\ dropped \subseteq Txs
    /\ ins.pc \in {"idle", "validate", "insert", "append", "worst", "forget",
                   "truncate", "panic", "wait", "swapQueue", "swapMaps"}
    /\ fin.pc \in {"idle", "lock", "find", "remove"}
    /\ fgr.pc \in {"idle", "queue", "copy", "loop", "delete", "clean"}

Init ==
    /\ txHashMap = {} /\ txSenderMap = [s \in Senders |-> NoTx] /\ stakeTxMap = {}
    /\ array = <<>> /\ size = 0
    /\ mu = FALSE /\ swapLock = FALSE
    /\ forged = {} /\ dropped = {}
    /\ ins = NotInserting /\ fin = NotFinalizing /\ fgr = NotForging
    /\ spent = {} /\ nonce = [s \in Senders |-> 0]
    /\ stale = FALSE

-----------------------------------------------------------------------------
(* The pending slice.                                                      *)

\* Higher fee first, then the older one; identifiers are in the order of time.
txLess(a, b) == IF a.fee = b.fee THEN a.id < b.id ELSE a.fee > b.fee

Sorted == SortSeq(pending, txLess) \o SubSeq(array, size + 1, Len(array))

\* 0 stands for -1: the transaction is not there.
GetIndex(t) == IF InPending(t) THEN CHOOSE i \in 1 .. size : array[i] = t /\ \A j \in 1 .. i - 1 : array[j] # t
               ELSE 0

\* Elements past the end of the slice stay in the array; they matter to those
\* who keep an older length.
KeepsLength == ins.pc \in {"forget", "truncate"} \/ fgr.pc \in {"copy", "delete"}
Slice(a, n) == /\ array' = IF KeepsLength THEN a ELSE SubSeq(a, 1, n)
               /\ size' = n

SwapElements(i, j) == [array EXCEPT ![i] = array[j], ![j] = array[i]]

\* Mutant of SwapAndRemove: an index that is not found still shortens the slice.
RemoveUnchecked(i) == Slice(array, size - 1)

SwapAndRemove(i) ==
    IF i \in 1 .. size THEN Slice(SwapElements(i, size), size - 1) ELSE UNCHANGED queueVars

\* cleanTransactionMap
cleanTransactionMap(t) ==
    /\ txHashMap' = txHashMap \ {t}
    /\ txSenderMap' = [txSenderMap EXCEPT ![t.from] = NoTx]
    /\ stakeTxMap' = IF t.kind = "stake" THEN stakeTxMap \ {t.from} ELSE stakeTxMap

\* t leaves the maps while the forger still has one of its sender ahead.
Overtake(t) ==
    fgr' = [fgr EXCEPT !.overtaken = @ \/ \E u \in ToSet(fgr.queue) : u.from = t.from]

\* GetQueue of a client's request for the fee or the queue.
ReadQueue ==
    /\ array' = Sorted
    /\ UNCHANGED <<mapVars, size, mu, swapLock, flagVars, ins, fin, fgr, dbVars, stale>>

-----------------------------------------------------------------------------
(* The listener: Insert.  An answer that changes nothing is no step.       *)

\* What the databases say: inputs unspent, the number next to the stored one.
InputsUnspent(t) == t.coins \cap spent = {}
Valid(t) == InputsUnspent(t) /\ t.num = nonce[t.from] + 1

\* The lookups, under mu.  A sender with a transaction in the pool may replace
\* it by one with the same number that comes later in the order of the queue.
Insert(t) ==
    LET old == txSenderMap[t.from] IN
    /\ ins.pc = "idle" /\ ~mu
    /\ t \notin txHashMap
    /\ old # NoTx => old.kind # "collapse" /\ old.num = t.num /\ txLess(old, t)
    /\ ins' = [NotInserting EXCEPT !.pc = "validate", !.tx = t, !.old = old]
    /\ UNCHANGED <<mapVars, queueVars, mu, swapLock, flagVars, fin, fgr, dbVars, stale>>

\* validateTx reads the databases and, for a stake, counts the stakes under mu.
validateTx ==
    LET t == ins.tx
        accepted == Valid(t) /\ (t.kind = "stake" => Cardinality(stakeTxMap) < MaxStakers)
        next == IF ins.old = NoTx THEN "insert" ELSE "wait"
    IN  /\ ins.pc = "validate"
        /\ t.kind = "stake" => ~mu
        /\ ins' = IF accepted THEN [ins EXCEPT !.pc = next] ELSE NotInserting
        /\ UNCHANGED <<mapVars, queueVars, mu, swapLock, flagVars, fin, fgr, dbVars, stale>>

\* The maps, under mu.  The object is new: none of its flags is set, and a
\* dropped object the forger may still hold is another one.
finalizeInsert ==
    LET t == ins.tx IN
    /\ ins.pc = "insert" /\ ~mu
    /\ txHashMap' = txHashMap \cup {t}
    /\ txSenderMap' = [txSenderMap EXCEPT ![t.from] = t]
    /\ stakeTxMap' = IF t.kind = "stake" THEN stakeTxMap \cup {t.from} ELSE stakeTxMap
    /\ forged' = forged \ {t} /\ dropped' = dropped \ {t}
    /\ fgr' = IF t \in dropped THEN [fgr EXCEPT !.queue = SelectSeq(@, LAMBDA u : u # t)] ELSE fgr
    /\ stale' = (stale \/ ~Valid(t) \/ txSenderMap[t.from] # NoTx)
    /\ ins' = [ins EXCEPT !.pc = "append"]
    /\ UNCHANGED <<queueVars, mu, swapLock, fin, dbVars>>

\* The queue, under queueLock, and the count, under no lock.
AppendPending ==
    /\ ins.pc = "append"
    /\ array' = SubSeq(array, 1, size) \o <<ins.tx>> \o SubSeq(array, size + 2, Len(array))
    /\ size' = size + 1
    /\ ins' = IF Cardinality(txHashMap) + 1 = MaxTxCount THEN [ins EXCEPT !.pc = "worst"]
              ELSE NotInserting
    /\ UNCHANGED <<mapVars, mu, swapLock, flagVars, fin, fgr, dbVars, stale>>

\* cleanWorst: the last of the sorted queue.  An empty queue is indexed by -1.
PickWorst ==
    /\ ins.pc = "worst"
    /\ array' = Sorted
    /\ ins' = IF size = 0 THEN [NotInserting EXCEPT !.pc = "panic"]
              ELSE [ins EXCEPT !.pc = "forget", !.tx = Sorted[size], !.last = size - 1]
    /\ stale' = (stale \/ size = 0)
    /\ UNCHANGED <<mapVars, size, mu, swapLock, flagVars, fin, fgr, dbVars>>

ForgetWorst ==
    /\ ins.pc = "forget" /\ ~mu
    /\ txHashMap' = txHashMap \ {ins.tx}
    /\ txSenderMap' = [txSenderMap EXCEPT ![ins.tx.from] = NoTx]
    /\ ins' = [ins EXCEPT !.pc = "truncate"]
    /\ Overtake(ins.tx)
    /\ UNCHANGED <<stakeTxMap, queueVars, mu, swapLock, flagVars, fin, dbVars, stale>>

\* pending[:lastIndex] with the index found before.
Truncate ==
    /\ ins.pc = "truncate"
    /\ stale' = (stale \/ size # ins.last + 1 \/ GetIndex(ins.tx) # size)
    /\ array' = (IF fgr.pc \in {"copy", "delete"} THEN array ELSE SubSeq(array, 1, ins.last))
    /\ size' = ins.last
    /\ dropped' = dropped \cup {ins.tx}
    /\ ins' = NotInserting
    /\ UNCHANGED <<mapVars, mu, swapLock, forged, fin, fgr, dbVars>>

\* swap waits for the forger and gives up when the old one is in its block.
WaitLock ==
    /\ ins.pc = "wait" /\ ~swapLock
    /\ ins' = IF ins.old \in forged THEN NotInserting ELSE [ins EXCEPT !.pc = "swapQueue"]
    /\ UNCHANGED <<mapVars, queueVars, mu, swapLock, flagVars, fin, fgr, dbVars, stale>>

SwapByHash ==
    /\ ins.pc = "swapQueue"
    /\ IF InPending(ins.old)
       THEN /\ array' = [array EXCEPT ![GetIndex(ins.old)] = ins.tx]
            /\ ins' = [ins EXCEPT !.pc = "swapMaps"]
       ELSE /\ ins' = NotInserting
            /\ UNCHANGED array
    /\ UNCHANGED <<mapVars, size, mu, swapLock, flagVars, fin, fgr, dbVars, stale>>

\* Mutant of SwapMaps: the replaced transaction stays in txHashMap.
SwapKeepsOld ==
    /\ ins.pc = "swapMaps" /\ ~mu
    /\ txHashMap' = txHashMap \cup {ins.tx}
    /\ txSenderMap' = [txSenderMap EXCEPT ![ins.tx.from] = ins.tx]
    /\ ins' = NotInserting
    /\ UNCHANGED <<stakeTxMap, queueVars, mu, swapLock, flagVars, fin, fgr, dbVars, stale>>

\* The entry for the new stake is set first and that for the old one deleted.
SwapMaps ==
    LET t == ins.tx
        added == IF t.kind = "stake" THEN stakeTxMap \cup {t.from} ELSE stakeTxMap
    IN  /\ ins.pc = "swapMaps" /\ ~mu
        /\ stakeTxMap' = IF ins.old.kind = "stake" THEN added \ {ins.old.from} ELSE added
        /\ txHashMap' = (txHashMap \ {ins.old}) \cup {t}
        /\ txSenderMap' = [txSenderMap EXCEPT ![t.from] = t]
        /\ forged' = forged \ {t} /\ dropped' = dropped \ {t}
        /\ stale' = (stale \/ ~Valid(t) \/ txSenderMap[t.from] # ins.old)
        /\ ins' = NotInserting
        /\ UNCHANGED <<queueVars, mu, swapLock, fin, fgr, dbVars>>

-----------------------------------------------------------------------------
(* The core service: a block is committed, then leaves the pool.           *)

\* The number stored for a sender is that of its first transaction, for good;
\* system transactions leave it alone.
AccountState(block) ==
    LET first(s) == {t \in block \cap Txs : t.from = s /\ nonce[s] = 0}
    IN  [s \in Senders |-> IF first(s) = {} THEN nonce[s] ELSE (CHOOSE t \in first(s) : TRUE).num]

\* checkBlockBalance
InputsDiffer(block) == \A t, u \in block : t # u => t.coins \cap u.coins = {}

\* Any block the network agrees on: one transaction of a client per sender.
CommitBlock(block) ==
    /\ fin.pc = "idle"
    /\ InputsDiffer(block)
    /\ \A t \in block : InputsUnspent(t) /\ (t \in Txs => Valid(t))
    /\ \A t, u \in block : t # u => t.from # u.from
    /\ spent' = spent \cup UNION {t.coins : t \in block}
    /\ nonce' = AccountState(block)
    /\ fin' = [NotFinalizing EXCEPT !.pc = "lock", !.todo = block, !.returns = block \cap Returns]
    /\ UNCHANGED <<mapVars, queueVars, mu, swapLock, flagVars, ins, fgr, stale>>

\* Finalize takes mu for all that follows.
FinalizeLock ==
    /\ fin.pc = "lock" /\ ~mu
    /\ mu' = TRUE
    /\ fin' = [fin EXCEPT !.pc = "find"]
    /\ UNCHANGED <<mapVars, queueVars, swapLock, flagVars, ins, fgr, dbVars, stale>>

\* The transaction itself, or whatever its sender has in the pool; the index is
\* read without queueLock.  One that is in the maps and not in the queue is left.
findPoolTransaction(t) ==
    LET poolTx == IF t \in txHashMap THEN t ELSE txSenderMap[t.from]
        index == IF poolTx = NoTx THEN 0 ELSE GetIndex(poolTx)
        undefined == poolTx = NoTx \/ (index = 0 /\ poolTx.kind # "collapse")
    IN  /\ fin.pc = "find" /\ t \in fin.todo
        /\ fin' = [fin EXCEPT !.todo = @ \ {t}, !.pc = IF undefined THEN "find" ELSE "remove",
                              !.rtx = IF undefined THEN NoTx ELSE poolTx, !.index = index]
        /\ stale' = (stale \/ (undefined /\ poolTx # NoTx))
        /\ UNCHANGED <<mapVars, queueVars, mu, swapLock, flagVars, ins, fgr, dbVars>>

\* cleanUpSystemUnstake: a stake or unstake of the elector on the same node.
findProblematicStakeTx(t) ==
    LET poolTx == txSenderMap[t.from]
        found == poolTx # NoTx /\ poolTx.kind \in {"stake", "unstake"} /\ poolTx.node = t.node
    IN  /\ fin.pc = "find" /\ fin.todo = {} /\ t \in fin.returns
        /\ fin' = IF found
                  THEN [fin EXCEPT !.returns = @ \ {t}, !.pc = "remove", !.rtx = poolTx,
                                   !.index = GetIndex(poolTx)]
                  ELSE [fin EXCEPT !.returns = @ \ {t}]
        /\ UNCHANGED <<mapVars, queueVars, mu, swapLock, flagVars, ins, fgr, dbVars, stale>>

\* Under queueLock, with the index found before.
RemovePending ==
    /\ fin.pc = "remove"
    /\ SwapAndRemove(fin.index)
    /\ cleanTransactionMap(fin.rtx)
    /\ stale' = (stale \/ GetIndex(fin.rtx) # fin.index)
    /\ fin' = [fin EXCEPT !.pc = "find", !.rtx = NoTx, !.index = 0]
    /\ Overtake(fin.rtx)
    /\ UNCHANGED <<mu, swapLock, flagVars, ins, dbVars>>

FinalizeUnlock ==
    /\ fin.pc = "find" /\ fin.todo = {} /\ fin.returns = {}
    /\ mu' = FALSE
    /\ fin' = NotFinalizing
    /\ UNCHANGED <<mapVars, queueVars, swapLock, flagVars, ins, fgr, dbVars, stale>>

\* A block that ValidateBlock refuses.
ClearForged(block) ==
    /\ fin.pc = "idle" /\ ~mu
    /\ forged' = forged \ (block \cap txHashMap)
    /\ UNCHANGED <<mapVars, queueVars, mu, swapLock, dropped, ins, fin, fgr, dbVars, stale>>

-----------------------------------------------------------------------------
(* The forger: ForgeBlock.                                                 *)

LockPool ==
    /\ fgr.pc = "idle" /\ ~swapLock
    /\ swapLock' = TRUE
    /\ fgr' = [NotForging EXCEPT !.pc = "queue"]
    /\ UNCHANGED <<mapVars, queueVars, mu, flagVars, ins, fin, dbVars, stale>>

\* GetQueue returns the slice itself ...
GetQueue ==
    /\ fgr.pc = "queue"
    /\ array' = Sorted
    /\ fgr' = [fgr EXCEPT !.pc = "copy", !.len = size]
    /\ UNCHANGED <<mapVars, size, mu, swapLock, flagVars, ins, fin, dbVars, stale>>

\* ... and the forger copies its elements under no lock: some may have left the
\* slice, or the maps, since.
CopyQueue ==
    LET queue == SubSeq(array, 1, fgr.len)
        left == \E t \in ToSet(queue) : ~InPending(t) \/ txSenderMap[t.from] \notin Txs
    IN  /\ fgr.pc = "copy"
        /\ fgr' = [fgr EXCEPT !.pc = "loop", !.queue = queue, !.len = 0, !.overtaken = left]
        /\ UNCHANGED <<mapVars, queueVars, mu, swapLock, flagVars, ins, fin, dbVars, stale>>

\* A new transaction for an address with many outputs that sends nothing in this
\* block so far.
createCollapseTx(c) ==
    /\ InputsUnspent(c)
    /\ c \notin txHashMap
    /\ \A t \in fgr.block : t.from # c.from

\* Mutant of InsertCollapseTx: the addresses are not looked up.
InsertCollapseUnchecked(cs) ==
    /\ fgr.pc = "loop" /\ ~mu
    /\ \A c \in ToSet(cs) : createCollapseTx(c)
    /\ txHashMap' = txHashMap \cup ToSet(cs)
    /\ txSenderMap' = [s \in Senders |-> IF \E c \in ToSet(cs) : c.from = s
                                         THEN CHOOSE c \in ToSet(cs) : c.from = s
                                         ELSE txSenderMap[s]]
    /\ fgr' = [fgr EXCEPT !.block = @ \cup ToSet(cs)]
    /\ UNCHANGED <<stakeTxMap, queueVars, mu, swapLock, flagVars, ins, fin, dbVars, stale>>

\* The first address with a transaction in the pool ends the loop; those before it
\* stay in the maps, and the block gets none of them.
InsertCollapseTx(cs) ==
    LET free(i) == \A j \in 1 .. i : txSenderMap[cs[j].from] = NoTx
        inserted == {cs[i] : i \in {k \in DOMAIN cs : free(k)}}
    IN  /\ fgr.pc = "loop" /\ ~mu
        /\ \A c \in ToSet(cs) : createCollapseTx(c)
        /\ inserted # {}
        /\ txHashMap' = txHashMap \cup inserted
        /\ txSenderMap' = [s \in Senders |-> IF \E c \in inserted : c.from = s
                                             THEN CHOOSE c \in inserted : c.from = s
                                             ELSE txSenderMap[s]]
        /\ fgr' = IF inserted = ToSet(cs) THEN [fgr EXCEPT !.block = @ \cup inserted] ELSE fgr
        /\ UNCHANGED <<stakeTxMap, queueVars, mu, swapLock, flagVars, ins, fin, dbVars, stale>>

\* Once a stake finds no slot err stays set: the stakes after it go the same way.
Refused(t, noSlot) == t.kind = "stake" /\ (fgr.err \/ noSlot)

\* The next transaction of the copy joins the block, unless it was dropped.  It is
\* not looked up again: the sender may have nothing in the pool any more, or a
\* block may have been finalized since.
ForgeTx(noSlot) ==
    LET t == Head(fgr.queue) IN
    /\ fgr.pc = "loop" /\ fgr.queue # <<>>
    /\ ~Refused(t, noSlot)
    /\ \/ /\ t \in dropped
          /\ fgr' = [fgr EXCEPT !.queue = Tail(@)]
          /\ UNCHANGED forged
       \/ /\ t \notin dropped
          /\ fgr' = [fgr EXCEPT !.queue = Tail(@), !.block = @ \cup {t}]
          /\ forged' = forged \cup {t}
    /\ UNCHANGED <<mapVars, queueVars, mu, swapLock, dropped, ins, fin, dbVars, stale>>

\* DeleteTransaction looks for it under no lock; if it is gone ForgeBlock fails.
RefuseStake(noSlot) ==
    LET t == Head(fgr.queue) IN
    /\ fgr.pc = "loop" /\ fgr.queue # <<>>
    /\ Refused(t, noSlot) /\ t \notin dropped
    /\ \/ /\ InPending(t)
          /\ fgr' = [fgr EXCEPT !.pc = "delete", !.queue = Tail(@), !.err = TRUE,
                                !.tx = t, !.index = GetIndex(t), !.len = size]
          /\ UNCHANGED swapLock
       \/ /\ ~InPending(t)
          /\ fgr' = NotForging
          /\ swapLock' = FALSE
    /\ UNCHANGED <<mapVars, queueVars, mu, flagVars, ins, fin, dbVars, stale>>

\* ... writes the shorter slice, whatever was appended or removed since ...
DeletePending ==
    /\ fgr.pc = "delete"
    /\ array' = SwapElements(fgr.index, fgr.len)
    /\ size' = fgr.len - 1
    /\ stale' = (stale \/ size # fgr.len \/ GetIndex(fgr.tx) # fgr.index)
    /\ fgr' = [fgr EXCEPT !.pc = "clean", !.index = 0, !.len = 0]
    /\ UNCHANGED <<mapVars, mu, swapLock, flagVars, ins, fin, dbVars>>

\* ... and cleans the maps under mu.
DeleteFromMaps ==
    /\ fgr.pc = "clean" /\ ~mu
    /\ cleanTransactionMap(fgr.tx)
    /\ fgr' = [fgr EXCEPT !.pc = "loop", !.tx = NoTx]
    /\ UNCHANGED <<queueVars, mu, swapLock, flagVars, ins, fin, dbVars, stale>>

\* The block is full or the queue at its end; UnlockPool.
FinishBlock ==
    /\ fgr.pc = "loop"
    /\ swapLock' = FALSE
    /\ fgr' = NotForging
    /\ UNCHANGED <<mapVars, queueVars, mu, flagVars, ins, fin, dbVars, stale>>

-----------------------------------------------------------------------------

Listener == validateTx \/ finalizeInsert \/ AppendPending \/ PickWorst \/ ForgetWorst
            \/ Truncate \/ SwapByHash \/ SwapMaps

Finalizer == \/ FinalizeLock \/ RemovePending \/ FinalizeUnlock
             \/ \E t \in fin.todo : findPoolTransaction(t)
             \/ \E t \in fin.returns : findProblematicStakeTx(t)

Forger == \/ GetQueue \/ CopyQueue \/ DeletePending \/ DeleteFromMaps \/ FinishBlock
          \/ \E noSlot \in BOOLEAN : ForgeTx(noSlot) \/ RefuseStake(noSlot)

Next ==
    \/ \E t \in Txs : Insert(t)
    \/ Listener \/ WaitLock
    \/ \E block \in SUBSET AllTxs : CommitBlock(block)
    \/ \E block \in SUBSET forged : ClearForged(block)
    \/ Finalizer
    \/ LockPool \/ Forger
    \/ \E cs \in UNION {[1 .. n -> Collapses] : n \in 1 .. 2} : IsInjective(cs) /\ InsertCollapseTx(cs)
    \/ ReadQueue

Spec == Init /\ [][Next]_vars

-----------------------------------------------------------------------------
(* Properties.                                                             *)

\* Between operations the three records of the pool say the same, nobody has two
\* transactions in it, and every one of them can still be put into a block --
\* unless some step used what it had read before another goroutine changed it.
PoolAgrees ==
    Quiet /\ ~stale =>
        /\ ToSet(pending) = txHashMap \cap Txs
        /\ Cardinality(txHashMap \cap Txs) = size
        /\ \A t \in txHashMap : txSenderMap[t.from] = t /\ InputsUnspent(t)
        /\ \A s \in Senders : txSenderMap[s] # NoTx => txSenderMap[s] \in txHashMap

\* A block being forged has one transaction per sender, its collapse transactions
\* included, while transactions arrive and are swapped (LockPool only stops swaps
\* that have not begun): as long as no sender whose transaction is still to be
\* added loses its entry in the pool, and no other step used what it had read
\* before it changed.  ForgeTx looks nothing up, so InsertCollapseTx has to.
NoDoubleSpendInBlock ==
    ~stale /\ ~fgr.overtaken => \A t, u \in fgr.block : t # u => t.from # u.from

-----------------------------------------------------------------------------
(* What comments of the code say and the code does not keep.               *)

\* interface.go:108: "LockPool locks pool operations", and the block forged under it
\* is one without a double input (block_validator.go:26).  cleanWorst and Finalize
\* do not wait for that lock: a transaction that has left the maps and is not yet
\* dropped joins the block although a collapse transaction took its inputs.
ForgedInputsDiffer == InputsDiffer(fgr.block)

\* interface.go:99: "Finalize remove from pool given transactions."  One that is
\* between the maps and the queue stays, and so may one whose index has changed.
FinalizeRemoves ==
    [][fin.pc = "find" /\ fin'.pc = "idle" =>
          \A t \in txHashMap' \cap Txs : InputsUnspent(t)]_vars
=============================================================================
