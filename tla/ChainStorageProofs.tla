------------------------ MODULE ChainStorageProofs -------------------------
(***************************************************************************)
(* The chain in the KV store, for every chain, every number of crashes and *)
(* failed writes, and every size of a repair transaction.                  *)
(***************************************************************************)
EXTENDS ChainStorage, TLAPS

\* Head numbers and block numbers.
HeadsTyped == head \in Nat /\ kvHead \in Nat /\ stored \subseteq Nat

\* Where the two heads are while a block is being finalized.  Outside of that the
\* saved head is the one in memory, or one above it when the last of the three KV
\* writes failed; a stopped node has no head in memory.
HeadsAgree ==
    /\ pc # "down" => kvHead \in {head, head + 1}
    /\ pc \in {"sql", "write"} => Current \notin stored
    /\ pc = "head" => kvHead = head /\ Current \in stored
    /\ pc = "stats" => kvHead = Current

IInv == HeadsTyped /\ NoHoles /\ HeadsAgree

-----------------------------------------------------------------------------

\* The empty database.
LEMMA InitInv == Init => IInv
  BY DEF Init, IInv, HeadsTyped, NoHoles, HeadsAgree, Current, NoRepair

\* A block that ValidateBlock accepts is the one after both heads.
LEMMA ValidateBlockInv ==
    ASSUME IInv, NEW n \in 1 .. Len(chain), NEW fails \in BOOLEAN, ValidateBlock(n, fails)
    PROVE  IInv'
<1>1. n = head + 1 /\ n \notin stored
  BY DEF ValidateBlock, IInv, HeadsTyped
<1>2. pc' = "sql" /\ UNCHANGED <<head, kvHead, stored>>
  BY DEF ValidateBlock
<1>3. kvHead \in {head, head + 1}
  BY DEF ValidateBlock, IInv, HeadsAgree
<1> QED
  BY <1>1, <1>2, <1>3 DEF IInv, HeadsTyped, NoHoles, HeadsAgree, Current

\* The SQL transaction changes neither head.
LEMMA ProcessBlockInv == IInv /\ ProcessBlock => IInv'
<1> SUFFICES ASSUME IInv, ProcessBlock PROVE IInv'
  OBVIOUS
<1>1. /\ pc = "sql" /\ pc' \in {"write", "ready"}
      /\ UNCHANGED <<head, kvHead, stored>>
  BY DEF ProcessBlock, kvVars
<1> QED
  BY <1>1 DEF IInv, HeadsTyped, NoHoles, HeadsAgree, Current

\* Before the block is written the saved head is the one in memory: otherwise
\* the block would be stored already.
LEMMA WriteBlockInv == IInv /\ WriteBlock => IInv'
<1> SUFFICES ASSUME IInv, WriteBlock PROVE IInv'
  OBVIOUS
<1>1. /\ pc = "write" /\ pc' = "head" /\ stored' = stored \cup {head + 1}
      /\ UNCHANGED <<head, kvHead>>
  BY DEF WriteBlock, Current
<1>2. kvHead = head
  BY <1>1 DEF IInv, HeadsTyped, NoHoles, HeadsAgree, Current
<1> QED
  BY <1>1, <1>2 DEF IInv, HeadsTyped, NoHoles, HeadsAgree, Current

\* The saved head moves to the block that has just been written.
LEMMA SaveHeadBlockNumInv == IInv /\ SaveHeadBlockNum => IInv' /\ kvHead' = kvHead + 1
<1> SUFFICES ASSUME IInv, SaveHeadBlockNum PROVE IInv' /\ kvHead' = kvHead + 1
  OBVIOUS
<1>1. /\ pc = "head" /\ pc' = "stats" /\ kvHead' = head + 1
      /\ UNCHANGED <<head, stored>>
  BY DEF SaveHeadBlockNum, Current
<1>2. kvHead = head /\ head + 1 \in stored
  BY <1>1 DEF IInv, HeadsAgree, Current
<1> QED
  BY <1>1, <1>2 DEF IInv, HeadsTyped, NoHoles, HeadsAgree, Current

\* The head in memory follows.
LEMMA UpdateAmountStatsInv == IInv /\ UpdateAmountStats => IInv'
<1> SUFFICES ASSUME IInv, UpdateAmountStats PROVE IInv'
  OBVIOUS
<1>1. /\ pc = "stats" /\ pc' = "ready" /\ head' = head + 1
      /\ UNCHANGED <<kvHead, stored>>
  BY DEF UpdateAmountStats, Current
<1> QED
  BY <1>1 DEF IInv, HeadsTyped, NoHoles, HeadsAgree, Current

\* A step that leaves the KV store alone, and ends outside of a finalization with
\* the head in memory unchanged, forgotten or read from the store.
Elsewhere ==
    /\ UNCHANGED <<kvHead, stored>>
    /\ pc' \notin {"sql", "write", "head", "stats"}
    /\ \/ pc' = "down" /\ head' \in Nat
       \/ pc # "down" /\ head' = head
       \/ head' = kvHead

\* Such a step preserves the invariant.
LEMMA ElsewhereInv == IInv /\ Elsewhere => IInv'
  BY DEF Elsewhere, IInv, HeadsTyped, NoHoles, HeadsAgree, Current

\* What a repair continues with.
RepairTyped == repair.then \in {"check", "ready"}

\* A repair ends in the check at the start, or in normal work.
LEMMA RepairSteps ==
    ASSUME RepairTyped, [Next]_vars
    PROVE  RepairTyped'
<1> USE DEF RepairTyped, NoRepair
<1>1. CASE UNCHANGED repair
  BY <1>1
<1>2. CASE BeginSync
  BY <1>2 DEF BeginSync, Repair
<1>3. CASE SyncBatch
  BY <1>3 DEF SyncBatch
<1>4. CASE EndSync
  BY <1>4 DEF EndSync
<1>5. CASE KvError
  BY <1>5 DEF KvError
<1>6. CASE Crash
  BY <1>6 DEF Crash
<1> QED
  BY <1>1, <1>2, <1>3, <1>4, <1>5, <1>6
  DEF Next, Finalize, Sync, vars, NewBlock, ValidateBlock, ProcessBlock, WriteBlock,
      SaveHeadBlockNum, UpdateAmountStats, CheckBalance, RestoreSQL, Start

-----------------------------------------------------------------------------

\* Every step preserves the invariant, and moves the saved head by at most one.
LEMMA NextInv ==
    ASSUME IInv, RepairTyped, [Next]_vars
    PROVE  IInv' /\ kvHead' \in {kvHead, kvHead + 1}
<1>1. CASE UNCHANGED <<head, kvHead, stored, pc>>
  BY <1>1 DEF IInv, HeadsTyped, NoHoles, HeadsAgree, Current
<1>2. CASE Finalize
  <2>1. ASSUME NEW n \in 1 .. Len(chain), NEW fails \in BOOLEAN, ValidateBlock(n, fails)
        PROVE  IInv' /\ kvHead' = kvHead
    BY <2>1, ValidateBlockInv DEF ValidateBlock
  <2>2. CASE ProcessBlock
    BY <2>2, ProcessBlockInv DEF ProcessBlock, kvVars
  <2>3. CASE WriteBlock
    BY <2>3, WriteBlockInv DEF WriteBlock
  <2>4. CASE SaveHeadBlockNum
    BY <2>4, SaveHeadBlockNumInv
  <2>5. CASE UpdateAmountStats
    BY <2>5, UpdateAmountStatsInv DEF UpdateAmountStats
  <2> QED
    BY <1>2, <2>1, <2>2, <2>3, <2>4, <2>5 DEF Finalize
<1>3. CASE BeginSync \/ EndSync \/ CheckBalance \/ KvError \/ Crash \/ Start
  <2>1. Elsewhere
    BY <1>3 DEF Elsewhere, BeginSync, EndSync, CheckBalance, KvError, Crash, Start,
                kvVars, RepairTyped
  <2> QED
    BY <2>1, ElsewhereInv DEF Elsewhere
<1>4. CASE SyncBatch
  BY <1>1, <1>4 DEF SyncBatch, kvVars
<1>5. ASSUME NEW n \in 0 .. kvHead, RestoreSQL(n)
      PROVE  UNCHANGED <<head, kvHead, stored, pc>>
  BY <1>5 DEF RestoreSQL, kvVars
<1>6. ASSUME NEW spends \in SUBSET Unspent(Len(chain)),
             NEW fee \in 0 .. MaxAmount, NEW reward \in 0 .. MaxAmount,
             NewBlock(spends, fee, reward)
      PROVE  UNCHANGED <<head, kvHead, stored, pc>>
  BY <1>6 DEF NewBlock, kvVars
<1> QED
  BY <1>1, <1>2, <1>3, <1>4, <1>5, <1>6 DEF Next, Sync, vars, kvVars

\* The invariant holds in every reachable state.
THEOREM ChainInvariance == Spec => [](IInv /\ RepairTyped)
<1>1. Init => IInv /\ RepairTyped
  BY InitInv DEF Init, RepairTyped, NoRepair
<1>2. IInv /\ RepairTyped /\ [Next]_vars => (IInv /\ RepairTyped)'
  BY NextInv, RepairSteps
<1> QED
  BY <1>1, <1>2, PTL DEF Spec

\* Through any crashes, failed KV writes, SQL restores and repairs of any batch
\* size, SaveBlock leaves a chain without holes in the KV store, with at most one
\* block above the saved head.
THEOREM ChainHasNoHoles == Spec => []NoHoles
<1>1. IInv => NoHoles
  BY DEF IInv
<1> QED
  BY <1>1, ChainInvariance, PTL

\* The head number that SaveHeadBlockNum saves never goes back and never skips a
\* block.
THEOREM SavedHeadMovesByOne == Spec => HeadMovesByOne
<1>1. IInv /\ RepairTyped /\ [Next]_vars => [kvHead' \in {kvHead, kvHead + 1}]_vars
  BY NextInv
<1> QED
  BY <1>1, ChainInvariance, PTL DEF Spec, HeadMovesByOne
=============================================================================
