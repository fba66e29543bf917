----------------------------- MODULE MCTxPool ------------------------------
(* Instances of TxPool for TLC.                                            *)
EXTENDS TxPool

Tx(id, from, kind, fee, num, coins, node) ==
    [id |-> id, from |-> from, kind |-> kind, fee |-> fee, num |-> num,
     coins |-> coins, node |-> node]

\* Two payments with one coin, the second cheaper.
PayHigh == Tx(1, "a", "pay", 2, 1, {"a1"}, "none")
PayLow == Tx(2, "a", "pay", 1, 1, {"a1"}, "none")
\* A stake of b, transactions that merge what each has, and the return of what b
\* has staked before.
Stake == Tx(3, "b", "stake", 2, 1, {"b1"}, "n")
CollapseB == Tx(4, "b", "collapse", 0, 0, {"b1"}, "none")
CollapseA == Tx(5, "a", "collapse", 0, 0, {"a1"}, "none")
ReturnB == Tx(6, "b", "return", 0, 0, {"b2"}, "n")

PoolTxs == {PayHigh, PayLow, Stake}
PoolCollapses == {CollapseB, CollapseA}
PoolReturns == {ReturnB}

\* The properties claim nothing after a stale read.
UntilStale == ~stale

\* Nothing is claimed of the rest of a block that was overtaken either.
UntilOvertaken == fgr.overtaken /\ fgr.pc = "loop" => fgr'.pc = "idle"

\* A block is forged when the queue holds something and nothing of an earlier block
\* is left in the pool.
ForgeOnce == fgr.pc = "idle" /\ fgr'.pc # "idle" => forged = {} /\ txHashMap \subseteq Txs /\ size > 0

\* A block with nothing for the pool changes nothing in it, and one that returns
\* stake holds nothing else for it.
NoEmptyBlock == fin.pc = "idle" /\ fin'.pc # "idle" => fin'.todo # {}
ReturnAlone == ReturnB \in fin'.todo => fin'.todo = {ReturnB}

\* The block with the merge of a's outputs is always lost: that transaction only
\* ever stays behind in the maps.
MergeLost == CollapseA \notin fin'.todo
=============================================================================
