--------------------------- MODULE MCChainStorage --------------------------
(* Instance of ChainStorage for TLC.                                       *)
EXTENDS ChainStorage

\* Two Genesis outputs, so that a block can spend an old one or a fresh one.
TwoOutputs == <<1, 2>>

\* The network gets one block ahead of the node and waits: only block head + 1
\* is ever accepted, so blocks further ahead would wait too.
OneAhead == Len(chain') > Len(chain) => pc = "ready" /\ Len(chain) = head

\* A failed payment and a failed KV write are not explored together.
OneKindOfFailure == kvErrors' + Cardinality(failedTx') <= 1
=============================================================================
