------------------------- MODULE StakeLedgerTypes --------------------------
(***************************************************************************)
(* Proofs that the staking pool keeps its types and its slots within the   *)
(* limit, whatever blocks contain and however the forger interleaves, for  *)
(* every set of nodes and stakers, every slot price and limit.             *)
(***************************************************************************)
EXTENDS StakeLedger, TLAPS

(* The inductive invariant.                                                *)

\* Every amount of a validator's coins that is handed to the pool fits uint64.
OwnFits ==
    /\ \A t \in Address : ownDeposit[t] * StakeUnit < Word /\ ownRows[t] * StakeUnit < Word
    /\ \A v \in Nodes : ownTx[v] * StakeUnit < Word /\ (-ownTx[v]) * StakeUnit < Word

\* So do the amounts of a diversion, which stakes on a node if it spends nothing.
DiversionFits ==
    diversion # NoTx =>
        /\ Spends(diversion) \in Uint /\ diversion.out \in Uint
        /\ diversion.at = NoNode => diversion.on \in Address \cup {BlackHole}

\* What the forger has read and reserved is good as long as no FinalizeStaking has
\* run: slots may have been given up since, and none filled.
ReservedInv ==
    fgr.pc # "idle" /\ ~fgr.overtaken =>
        /\ fgr.taken <= slotsReserved
        /\ slotsFilled + fgr.taken <= SlotsLimit
        /\ fgr.pc = "reserved" => slotsFilled <= fgr.slots
        /\ fgr.pc = "add" => slotsFilled + slotsReserved + fgr.count <= SlotsLimit

SlotInv ==
    /\ slotsFilled <= SlotsLimit
    /\ fgr.pc # "idle" => NoRows
    /\ ReservedInv

TInv == TypeOK /\ OwnFits /\ DiversionFits

-----------------------------------------------------------------------------
(* Arithmetic.                                                             *)

\* slotsCount undoes the multiplication by the slot price.
LEMMA SlotsOfPrice ==
    ASSUME NEW k \in Nat
    PROVE  slotsCount(k * StakeUnit) = k
BY StakePoolAssumption, SMTT(30) DEF slotsCount

\* An amount is worth a natural number of slots.
LEMMA SlotsNatural ==
    ASSUME NEW a \in Nat
    PROVE  slotsCount(a) \in Nat
BY StakePoolAssumption, SMTT(30) DEF slotsCount

\* The price of slots is a natural number, grows with them and is additive.
LEMMA PriceMonotone ==
    ASSUME NEW j \in Nat, NEW k \in Nat, j <= k
    PROVE  /\ j * StakeUnit \in Nat
           /\ j * StakeUnit <= k * StakeUnit
           /\ (k - j) * StakeUnit = k * StakeUnit - j * StakeUnit
BY StakePoolAssumption

\* uint64 addition and subtraction stay in range, and are the integers' own
\* when the result is.
LEMMA WordArithmetic ==
    ASSUME NEW a \in Uint, NEW b \in Uint
    PROVE  /\ Add(a, b) \in Uint
           /\ Sub(a, b) \in Uint
           /\ a + b < Word => Add(a, b) = a + b
           /\ b <= a => Sub(a, b) = a - b
BY StakePoolAssumption DEF Add, Sub, Uint

\* The price of k slots, when it is a uint64, is an amount worth k slots.
LEMMA PriceIsAmount ==
    ASSUME NEW k \in Nat, k * StakeUnit < Word
    PROVE  k * StakeUnit \in Uint /\ slotsCount(k * StakeUnit) = k
BY SlotsOfPrice, PriceMonotone, StakePoolAssumption DEF Uint

\* Fewer slots cost no more.
LEMMA PartFits ==
    ASSUME NEW j \in Nat, NEW k \in Nat, j <= k, k * StakeUnit < Word
    PROVE  j * StakeUnit < Word
<1>1. j * StakeUnit \in Nat /\ k * StakeUnit \in Nat /\ j * StakeUnit <= k * StakeUnit
  BY PriceMonotone
<1> QED
  BY <1>1, StakePoolAssumption

\* Nothing costs nothing.
LEMMA NoneFits == 0 * StakeUnit < Word /\ (-0) * StakeUnit < Word
BY StakePoolAssumption

\* The empty tables have every type they are used at.
LEMMA EmptyTyped ==
    /\ NoStake \in StakeMap /\ NoStake \in [Address -> [Address -> 0 .. MaxDeposit]]
    /\ NoMoves \in MoveMap /\ NoDeposit \in DepositMap
    /\ NoSlots \in [Address -> Nat] /\ NoSlots \in [Address -> Int]
    /\ NoSlots \in [Address -> Uint]
    /\ [v \in Nodes |-> 0] \in [Nodes -> Int]
<1>1. 0 \in Uint /\ 0 \in 0 .. MaxDeposit /\ 0 \in -MaxDeposit .. MaxDeposit
  BY StakePoolAssumption, StakeLedgerAssumption DEF Uint
<1> QED
  BY <1>1 DEF NoStake, NoSlots, NoMoves, NoDeposit, StakeMap, DepositMap, MoveMap

\* Changing one entry of a table changes nothing else.
LEMMA OneEntry ==
    ASSUME NEW A, NEW B, NEW T, NEW f \in [A -> [B -> T]],
           NEW v \in A, NEW e \in B, NEW x \in T
    PROVE  LET g == [f EXCEPT ![v][e] = x]
           IN  /\ g \in [A -> [B -> T]]
               /\ g[v][e] = x
               /\ \A w \in A, d \in B : w # v \/ d # e => g[w][d] = f[w][d]
BY Zenon

-----------------------------------------------------------------------------
(* What the pool's methods do to the pool.                                 *)

\* registerValidatorStake keeps the pool well typed and within its slot limit.
LEMMA RegisterTyped ==
    ASSUME PoolTypeOK, NEW v \in Address,
           NEW amount \in Uint, registerValidatorStake(v, amount)
    PROVE  PoolTypeOK' /\ slotsFilled' <= SlotsLimit /\ slotsReserved' = slotsReserved
<1> DEFINE k == slotsCount(amount)
<1>1. /\ Add(CumulativeStake[v], amount) \in Uint
      /\ Add(SelfStake[v], amount) \in Uint
  BY WordArithmetic, Zenon DEF PoolTypeOK
<1>2. k \in Nat
  BY SlotsNatural, StakePoolAssumption DEF Uint
<1>3. slotsFilled + k <= SlotsLimit
  BY <1>2, StakePoolAssumption DEF registerValidatorStake, SlotsFit, getEmptySlots, PoolTypeOK
<1> QED
  BY <1>1, <1>2, <1>3 DEF registerValidatorStake, PoolTypeOK, StakeMap

\* cancelValidatorStake, full or partial, keeps the pool well typed and fills no
\* slots.
LEMMA CancelTyped ==
    ASSUME PoolTypeOK, NEW v \in Address,
           NEW amount \in Uint, cancelValidatorStake(v, amount)
    PROVE  PoolTypeOK' /\ slotsFilled' <= slotsFilled /\ slotsReserved' = slotsReserved
<1> DEFINE k == slotsCount(amount)
<1>1. Sub(SelfStake[v], amount) \in Uint /\ 0 \in Uint
  BY WordArithmetic, StakePoolAssumption DEF PoolTypeOK, Uint
<1>2. k \in Nat
  BY SlotsNatural, StakePoolAssumption DEF Uint
<1>3. CASE SlotsFilled[v] = k /\ FullUnstake(v)
  BY <1>1, <1>2, <1>3 DEF cancelValidatorStake, FullUnstake, MarkFullUnstake, PoolTypeOK, StakeMap
<1>4. CASE SlotsFilled[v] # k /\ PartialUnstake(v, amount)
  BY <1>1, <1>2, <1>4 DEF cancelValidatorStake, PartialUnstake, PoolTypeOK, StakeMap
<1> QED
  BY <1>3, <1>4, Zenon DEF cancelValidatorStake

\* The three methods that move an elector's coins keep the pool well typed and
\* leave validators and slots alone.
LEMMA ElectorTyped ==
    ASSUME PoolTypeOK, NEW v \in Address, NEW e \in Address, NEW amount \in Uint,
           \/ registerElectorStake(e, v, amount)
           \/ cancelElectorStake(e, v, amount)
           \/ processSystemUnstakeTx(e, v, amount)
    PROVE  /\ PoolTypeOK'
           /\ UNCHANGED <<validators, SlotsFilled, SelfStake, slotsFilled, slotsReserved>>
<1> DEFINE c == CumulativeStake[v]
           n == Electors[v][e]
           u == unstakedSnapshot[v][e]
<1>1. c \in Uint /\ n \in Uint /\ u \in Uint
  BY Zenon DEF PoolTypeOK, StakeMap
<1>2. /\ Add(c, amount) \in Uint /\ Add(n, amount) \in Uint /\ Add(u, amount) \in Uint
      /\ Sub(c, amount) \in Uint /\ Sub(n, amount) \in Uint /\ Sub(u, amount) \in Uint
  BY <1>1, WordArithmetic, Zenon
<1>3. (IF u > amount THEN u - amount ELSE 0) \in Uint
  BY <1>1, StakePoolAssumption DEF Uint
<1>4. ASSUME NEW x \in Uint
      PROVE  /\ [Electors EXCEPT ![v][e] = x] \in StakeMap
             /\ [unstakedSnapshot EXCEPT ![v][e] = x] \in StakeMap
             /\ [CumulativeStake EXCEPT ![v] = x] \in [Address -> Uint]
  BY OneEntry, Zenon DEF PoolTypeOK, StakeMap
<1>5. CASE registerElectorStake(e, v, amount)
  <2>1. CASE v \notin validators
    BY <1>2, <1>4, <1>5, <2>1, Zenon DEF registerElectorStake, SystemUnstakeElector, PoolTypeOK
  <2>2. CASE v \in validators
    BY <1>2, <1>4, <1>5, <2>2 DEF registerElectorStake, PoolTypeOK
  <2> QED
    BY <2>1, <2>2, Zenon
<1>6. CASE cancelElectorStake(e, v, amount)
  BY <1>2, <1>3, <1>4, <1>6, Zenon DEF cancelElectorStake, PoolTypeOK
<1>7. CASE processSystemUnstakeTx(e, v, amount)
  BY <1>2, <1>4, <1>7, Zenon DEF processSystemUnstakeTx, stakeVars, PoolTypeOK
<1> QED
  BY <1>5, <1>6, <1>7, Zenon

-----------------------------------------------------------------------------
(* Amounts that a state hands to the pool.                                 *)

\* Those of a validator's transaction or rows ...
LEMMA OwnAmounts ==
    ASSUME TInv
    PROVE  /\ \A v \in Nodes : /\ ownTx[v] > 0 => ownTx[v] * StakeUnit \in Uint
                               /\ ownTx[v] < 0 => (-ownTx[v]) * StakeUnit \in Uint
           /\ \A t \in Address, k \in Nat : k <= ownRows[t] => k * StakeUnit \in Uint
<1>1. ASSUME NEW v \in Nodes, ownTx[v] > 0 PROVE ownTx[v] * StakeUnit \in Uint
  BY <1>1, PriceIsAmount DEF TInv, OwnFits, TypeOK
<1>2. ASSUME NEW v \in Nodes, ownTx[v] < 0 PROVE (-ownTx[v]) * StakeUnit \in Uint
  <2>1. -ownTx[v] \in Nat /\ (-ownTx[v]) * StakeUnit < Word
    BY <1>2 DEF TInv, OwnFits, TypeOK
  <2> QED
    BY <2>1, PriceIsAmount, Zenon
<1>3. ASSUME NEW t \in Address, NEW k \in Nat, k <= ownRows[t] PROVE k * StakeUnit \in Uint
  <2>1. ownRows[t] \in Nat /\ ownRows[t] * StakeUnit < Word
    BY Zenon DEF TInv, OwnFits, TypeOK
  <2>2. k * StakeUnit < Word
    BY <1>3, <2>1, PartFits, Zenon
  <2> QED
    BY <2>2, PriceIsAmount, Zenon
<1> QED
  BY <1>1, <1>2, <1>3, Zenon

\* ... and of an elector's.
LEMMA ElectorAmounts ==
    ASSUME TypeOK
    PROVE  /\ \A v \in Nodes, e \in Stakers : /\ elTx[v][e] > 0 => elTx[v][e] \in Uint
                                              /\ elTx[v][e] < 0 => -elTx[v][e] \in Uint
           /\ \A v, e \in Address : sysTx[v][e] \in Uint
           /\ \A v, f, t \in Address : deposit[v][f][t] \in Uint /\ rows[v][f][t] \in Uint
           /\ 1 .. MaxDeposit \subseteq Uint
<1>1. /\ \A v \in Nodes, e \in Stakers : elTx[v][e] \in -MaxDeposit .. MaxDeposit
      /\ \A v, e \in Address : sysTx[v][e] \in 0 .. MaxDeposit
      /\ \A v, f, t \in Address : deposit[v][f][t] \in 0 .. MaxDeposit
      /\ \A v, f, t \in Address : rows[v][f][t] \in 0 .. MaxDeposit
  BY DEF TypeOK, MoveMap, DepositMap
<1> QED
  BY <1>1, StakePoolAssumption, StakeLedgerAssumption DEF Uint

-----------------------------------------------------------------------------
(* Types and amounts: the initial state and the commits.                   *)

\* NewPool and an empty ledger.
LEMMA InitTyped == Init => TInv /\ SlotInv
<1> SUFFICES ASSUME Init PROVE TInv /\ SlotInv
  BY Zenon
<1>1. PoolTypeOK
  BY EmptyTyped DEF Init, NewPool, NoSlots, PoolTypeOK
<1>2. fgr \in ForgerType
  BY DEF Init, NotForging, ForgerType
<1>3. TypeOK
  BY <1>1, <1>2, EmptyTyped, Zenon DEF Init, NoBatch, NoOwnTx, NoRows, TypeOK, Reasons
<1>4. OwnFits
  <2>1. /\ \A t \in Address : ownDeposit[t] = 0 /\ ownRows[t] = 0
        /\ \A v \in Nodes : ownTx[v] = 0
    BY Zenon DEF Init, NoBatch, NoOwnTx, NoRows, NoSlots
  <2> QED
    BY <2>1, NoneFits, Zenon DEF OwnFits
<1>5. DiversionFits
  BY Zenon DEF Init, NoBatch, DiversionFits
<1>6. SlotInv
  BY StakePoolAssumption DEF Init, NewPool, NotForging, SlotInv, ReservedInv
<1> QED
  BY <1>3, <1>4, <1>5, <1>6, Zenon DEF TInv

\* The rows to one address after a block: an address spends its own only, and in
\* one transaction.
LEMMA OwnAfterTyped ==
    ASSUME TypeOK, NEW own \in [Nodes -> Int], NEW d \in Diversions \cup {NoTx},
           ValidOwn(own),
           d # NoTx => ValidDiversion(d) /\ (d.from \in Nodes => own[d.from] = 0),
           NEW t \in Address
    PROVE  /\ OwnAfter(own, d)[t] \in Nat
           /\ t \in Nodes => own[t] <= OwnAfter(own, d)[t] /\ -own[t] <= ownDeposit[t]
<1> DEFINE mine == IF t \in Nodes THEN own[t] ELSE 0
<1>1. /\ OwnAfter(own, d)[t] = ownDeposit[t] + mine + OwnMoved(d, t)
      /\ ownDeposit[t] \in Nat /\ mine \in Int /\ ownDeposit[t] + mine \in Nat
      /\ t \in Nodes => own[t] = mine
  BY DEF OwnAfter, ValidOwn, TypeOK
<1>2. CASE d = NoTx
  <2>1. OwnMoved(d, t) = 0
    BY <1>2, Zenon DEF OwnMoved
  <2> HIDE DEF mine
  <2> QED
    BY <1>1, <2>1
<1>3. CASE d # NoTx
  <2>1. d \in DiversionType /\ ValidDiversion(d)
    BY <1>3, StakeLedgerAssumption, Zenon
  <2>2. d.slots \in Nat /\ d.out \in Nat /\ slotsCount(d.out) \in Nat
    BY <2>1, SlotsNatural, Zenon DEF DiversionType
  <2> DEFINE got == IF d.on = BlackHole /\ d.to = t THEN slotsCount(d.out) ELSE 0
             spent == IF d.at = BlackHole /\ d.from = t THEN d.slots ELSE 0
  <2>3. OwnMoved(d, t) = got - spent /\ got \in Nat /\ spent \in Nat
    BY <1>3, <2>2, Zenon DEF OwnMoved
  <2>4. spent # 0 => mine = 0 /\ spent <= ownDeposit[t]
    BY <1>3, <2>1, <2>2 DEF ValidDiversion
  <2> HIDE DEF got, spent, mine
  <2> QED
    BY <1>1, <2>3, <2>4
<1> QED
  BY <1>2, <1>3, Zenon

\* A committed block keeps the types of the rows it writes and queues.
LEMMA FinalizeBlockTyped ==
    ASSUME TInv, NEW own \in [Nodes -> SlotMoves],
           NEW el \in [Nodes -> [Stakers -> CoinMoves]],
           NEW d \in Diversions \cup {NoTx}, FinalizeBlock(own, el, d)
    PROVE  TInv'
<1>1. own \in [Nodes -> Int] /\ \A v \in Nodes, e \in Stakers : el[v][e] \in Int
  BY StakeLedgerAssumption DEF SlotMoves, CoinMoves
<1>2. PoolTypeOK'
  BY Zenon DEF FinalizeBlock, TInv, TypeOK, PoolTypeOK, poolVars, stakeVars
<1>3. \A t \in Address : /\ OwnAfter(own, d)[t] \in Nat
                         /\ t \in Nodes => own[t] <= OwnAfter(own, d)[t] /\ -own[t] <= ownDeposit[t]
  BY <1>1, OwnAfterTyped, Zenon DEF FinalizeBlock, TInv
<1>4. ownDeposit' \in [Address -> Nat]
  BY <1>3, Zenon DEF FinalizeBlock, OwnAfter
<1>5. elTx' \in MoveMap
  <2>1. ASSUME NEW v \in Nodes, NEW e \in Stakers
        PROVE  el[v][e] \in -MaxDeposit .. MaxDeposit
    <3>1. deposit[v][e][e] \in 0 .. MaxDeposit /\ deposit[v][e][e] + el[v][e] \in 0 .. MaxDeposit
      BY DEF FinalizeBlock, ValidElectors, TInv, TypeOK, DepositMap, Address
    <3> QED
      BY <1>1, <3>1, StakeLedgerAssumption
  <2> QED
    BY <2>1, Zenon DEF FinalizeBlock, MoveMap
<1>6. TypeOK'
  BY <1>1, <1>2, <1>4, <1>5, Zenon DEF FinalizeBlock, TInv, TypeOK, rowVars
<1>7. OwnFits'
  <2>1. \A t \in Address : ownDeposit'[t] * StakeUnit < Word /\ ownRows'[t] * StakeUnit < Word
    BY Zenon DEF FinalizeBlock, TInv, OwnFits, rowVars
  <2>2. ASSUME NEW v \in Nodes
        PROVE  own[v] * StakeUnit < Word /\ (-own[v]) * StakeUnit < Word
    <3>1. /\ own[v] \in Int /\ own[v] <= ownDeposit'[v] /\ -own[v] <= ownDeposit[v]
          /\ ownDeposit'[v] \in Nat /\ ownDeposit[v] \in Nat
          /\ ownDeposit'[v] * StakeUnit < Word /\ ownDeposit[v] * StakeUnit < Word
      BY <1>1, <1>3, <1>4, <2>1, Zenon DEF FinalizeBlock, TInv, OwnFits, TypeOK, Address
    <3>2. CASE own[v] >= 0
      <4>1. own[v] \in Nat /\ own[v] * StakeUnit < Word
        BY <3>1, <3>2, PartFits
      <4>2. (-own[v]) * StakeUnit <= 0 /\ (-own[v]) * StakeUnit \in Int
        BY <3>1, <3>2, StakePoolAssumption
      <4> QED
        BY <4>1, <4>2, StakePoolAssumption
    <3>3. CASE own[v] < 0
      <4>1. -own[v] \in Nat /\ (-own[v]) * StakeUnit < Word
        BY <3>1, <3>3, PartFits
      <4>2. own[v] * StakeUnit <= 0 /\ own[v] * StakeUnit \in Int
        BY <3>1, <3>3, StakePoolAssumption
      <4> QED
        BY <4>1, <4>2, StakePoolAssumption
    <3> QED
      BY <3>1, <3>2, <3>3
  <2> QED
    BY <2>1, <2>2, Zenon DEF FinalizeBlock, OwnFits
<1>8. DiversionFits'
  <2>1. ASSUME d # NoTx
        PROVE  /\ Spends(d) \in Uint /\ d.out \in Uint
               /\ d.at = NoNode => d.on \in Address \cup {BlackHole}
    BY <2>1, Zenon DEF FinalizeBlock, ValidDiversion, TInv, TypeOK
  <2> QED
    BY <2>1, Zenon DEF FinalizeBlock, DiversionFits
<1> QED
  BY <1>6, <1>7, <1>8, Zenon DEF TInv

\* So does a block of system unstakes.
LEMMA FinalizeSystemBlockTyped ==
    ASSUME TInv, NEW sys \in [Deposited -> 0 .. MaxDeposit], NEW given \in SUBSET Deposited,
           FinalizeSystemBlock(sys, given)
    PROVE  TInv'
<1>1. PoolTypeOK'
  BY Zenon DEF FinalizeSystemBlock, TInv, TypeOK, PoolTypeOK, poolVars, stakeVars
<1>2. ASSUME NEW v \in Address, NEW t \in Address
      PROVE  deposit[v][t][t] - Returned(sys, v, t) \in 0 .. MaxDeposit
  <2>1. deposit[v][t][t] \in 0 .. MaxDeposit
    BY DEF TInv, TypeOK, DepositMap
  <2>2. CASE <<v, t>> \in Deposited
    <3>1. Returned(sys, v, t) \in 0 .. MaxDeposit /\ Returned(sys, v, t) <= deposit[v][t][t]
      BY <2>2, Zenon DEF FinalizeSystemBlock, Returned
    <3> QED
      BY <2>1, <3>1, StakeLedgerAssumption
  <2>3. CASE <<v, t>> \notin Deposited
    BY <2>1, <2>3, StakeLedgerAssumption DEF Returned
  <2> QED
    BY <2>2, <2>3, Zenon
<1>3. deposit' \in DepositMap
  <2>1. ASSUME NEW v \in Address, NEW f \in Address, NEW t \in Address
        PROVE  deposit'[v][f][t] \in 0 .. MaxDeposit
    <3>1. deposit[v][f][t] \in 0 .. MaxDeposit /\ 0 \in 0 .. MaxDeposit
      BY StakeLedgerAssumption DEF TInv, TypeOK, DepositMap
    <3> QED
      BY <1>2, <3>1, Zenon DEF FinalizeSystemBlock
  <2> QED
    BY <2>1, Zenon DEF FinalizeSystemBlock, DepositMap
<1>4. sysTx' \in [Address -> [Address -> 0 .. MaxDeposit]]
  BY Zenon DEF FinalizeSystemBlock
<1>5. TypeOK'
  BY <1>1, <1>3, <1>4, Zenon DEF FinalizeSystemBlock, TInv, TypeOK, rowVars, historyVars
<1>6. OwnFits' /\ DiversionFits'
  BY Zenon DEF FinalizeSystemBlock, TInv, OwnFits, DiversionFits, rowVars
<1> QED
  BY <1>5, <1>6, Zenon DEF TInv

-----------------------------------------------------------------------------
(* Types and amounts: FinalizeStaking.                                     *)

\* An error abandons the batch.
LEMMA FailTyped ==
    ASSUME TInv, NEW reason \in Reasons, Fail(reason), UNCHANGED committed
    PROVE  TInv' /\ UNCHANGED <<slotsFilled, slotsReserved, fgr, ownRows, rows>>
<1>1. PoolTypeOK'
  BY Zenon DEF Fail, TInv, TypeOK, PoolTypeOK, poolVars, stakeVars
<1>2. TypeOK'
  BY <1>1, EmptyTyped, Zenon DEF Fail, TInv, TypeOK, ledgerVars, rowVars
<1>3. OwnFits'
  <2>1. \A v \in Nodes : ownTx'[v] = 0
    BY Zenon DEF Fail
  <2> QED
    BY <2>1, NoneFits, Zenon DEF Fail, TInv, OwnFits, ledgerVars, rowVars
<1>4. DiversionFits'
  BY Zenon DEF Fail, DiversionFits
<1> QED
  BY <1>2, <1>3, <1>4, Zenon DEF TInv, Fail, poolVars, rowVars

\* Taking one own transaction out of the batch keeps the others' amounts.
LEMMA OwnTxDone ==
    ASSUME TInv, NEW v \in Nodes, ownTx' = [ownTx EXCEPT ![v] = 0],
           UNCHANGED <<ownDeposit, ownRows, diversion>>
    PROVE  ownTx' \in [Nodes -> Int] /\ OwnFits' /\ DiversionFits'
<1>1. ASSUME NEW w \in Nodes
      PROVE  ownTx'[w] * StakeUnit < Word /\ (-ownTx'[w]) * StakeUnit < Word
  <2>1. ownTx'[w] = IF w = v THEN 0 ELSE ownTx[w]
    BY Zenon DEF TInv, TypeOK
  <2> QED
    BY <2>1, NoneFits, Zenon DEF TInv, OwnFits
<1> QED
  BY <1>1 DEF TInv, TypeOK, OwnFits, DiversionFits

\* The outcome of one step of FinalizeStaking: types and amounts are kept, the
\* rows are not touched, and slots are given up, or filled with the forger's
\* knowledge.
StakingStep ==
    /\ TInv'
    /\ UNCHANGED <<slotsReserved, ownRows, rows>>
    /\ \/ slotsFilled' <= slotsFilled /\ fgr' = fgr
       \/ slotsFilled' <= SlotsLimit /\ Overtake

\* The forger's record stays one when a FinalizeStaking overtakes it.
LEMMA OvertakeTyped ==
    ASSUME fgr \in ForgerType, Overtake
    PROVE  /\ fgr' \in ForgerType
           /\ fgr'.pc = fgr.pc /\ (fgr.pc # "idle" => fgr'.overtaken)
BY Zenon DEF Overtake, ForgerType

\* processStakeTx on BlackHole: slots are only filled when they fit.
LEMMA ProcessValidatorStakeTyped ==
    ASSUME TInv, NEW v \in Nodes, ProcessValidatorStake(v)
    PROVE  StakingStep
<1> DEFINE a == ownTx[v] * StakeUnit
<1>0. slotsFilled \in Int
  BY Zenon DEF TInv, TypeOK, PoolTypeOK
<1>1. CASE Fail("slots")
  BY <1>0, <1>1, FailTyped DEF ProcessValidatorStake, Reasons, StakingStep
<1>2. CASE /\ registerValidatorStake(v, a)
           /\ NoteRegistered(v)
           /\ Overtake
           /\ ownTx' = [ownTx EXCEPT ![v] = 0]
           /\ UNCHANGED <<ledgerVars, elTx, diversion, sysTx, rowVars, failure>>
  <2>1. a \in Uint /\ v \in Address
    BY OwnAmounts, Zenon DEF ProcessValidatorStake, Address
  <2> HIDE DEF a
  <2>2. PoolTypeOK' /\ slotsFilled' <= SlotsLimit /\ slotsReserved' = slotsReserved
    BY <1>2, <2>1, RegisterTyped, Zenon DEF TInv, TypeOK
  <2>3. ownTx' \in [Nodes -> Int] /\ OwnFits' /\ DiversionFits'
    BY <1>2, OwnTxDone, Zenon DEF ledgerVars, rowVars
  <2>4. fgr' \in ForgerType
    BY <1>2, OvertakeTyped, Zenon DEF TInv, TypeOK
  <2>5. TypeOK'
    BY Zenon, <1>2, <2>1, <2>2, <2>3, <2>4
       DEF TInv, TypeOK, NoteRegistered, ledgerVars, rowVars, ProcessValidatorStake
  <2> QED
    BY <1>2, <2>2, <2>3, <2>5, Zenon DEF TInv, StakingStep, rowVars
<1> QED
  BY <1>1, <1>2, Zenon DEF ProcessValidatorStake

\* processUnstakeTx on BlackHole gives slots back.
LEMMA ProcessValidatorUnstakeTyped ==
    ASSUME TInv, NEW v \in Nodes, ProcessValidatorUnstake(v)
    PROVE  StakingStep
<1> DEFINE a == (-ownTx[v]) * StakeUnit
<1>0. slotsFilled \in Int
  BY Zenon DEF TInv, TypeOK, PoolTypeOK
<1>1. CASE Fail("validator")
  BY <1>0, <1>1, FailTyped DEF ProcessValidatorUnstake, Reasons, StakingStep
<1>2. CASE /\ cancelValidatorStake(v, a)
           /\ ownTx' = [ownTx EXCEPT ![v] = 0]
           /\ UNCHANGED <<ledgerVars, elTx, diversion, sysTx, rowVars, failure, fgr, historyVars>>
  <2>1. a \in Uint /\ v \in Address
    BY OwnAmounts, Zenon DEF ProcessValidatorUnstake, Address
  <2> HIDE DEF a
  <2>2. PoolTypeOK' /\ slotsFilled' <= slotsFilled /\ slotsReserved' = slotsReserved
    BY <1>2, <2>1, CancelTyped, Zenon DEF TInv, TypeOK
  <2>3. ownTx' \in [Nodes -> Int] /\ OwnFits' /\ DiversionFits'
    BY <1>2, OwnTxDone, Zenon DEF ledgerVars, rowVars
  <2>4. TypeOK'
    BY <1>2, <2>2, <2>3, Zenon DEF TInv, TypeOK, historyVars, ledgerVars, rowVars, ProcessValidatorUnstake
  <2> QED
    BY <1>2, <2>2, <2>3, <2>4, Zenon DEF TInv, StakingStep, rowVars
<1> QED
  BY <1>1, <1>2, Zenon DEF ProcessValidatorUnstake

\* The steps that move one elector's coins.
LEMMA ElectorStepTyped ==
    ASSUME TInv, NEW v \in Address, NEW e \in Address, NEW amount \in Uint,
           \/ registerElectorStake(e, v, amount)
           \/ cancelElectorStake(e, v, amount)
           \/ processSystemUnstakeTx(e, v, amount),
           elTx' \in MoveMap, sysTx' \in [Address -> [Address -> 0 .. MaxDeposit]],
           UNCHANGED <<ledgerVars, committed, ownTx, diversion, rowVars, failure, fgr, historyVars>>
    PROVE  StakingStep
<1>1. PoolTypeOK' /\ UNCHANGED <<slotsFilled, slotsReserved>>
  BY ElectorTyped, Zenon DEF TInv, TypeOK
<1>2. TypeOK'
  BY <1>1, Zenon DEF TInv, TypeOK, ledgerVars, rowVars, historyVars
<1>3. OwnFits' /\ DiversionFits'
  BY Zenon DEF TInv, OwnFits, DiversionFits, ledgerVars, rowVars
<1> QED
  BY <1>1, <1>2, <1>3 DEF TInv, StakingStep, rowVars, TypeOK, PoolTypeOK

\* processStakeTx and processUnstakeTx of an elector leave the slots alone.
LEMMA ProcessElectorTyped ==
    ASSUME TInv, NEW v \in Nodes, NEW e \in Stakers,
           ProcessElectorStake(v, e) \/ ProcessElectorUnstake(v, e)
    PROVE  StakingStep
<1>0. slotsFilled \in Int /\ sysTx \in [Address -> [Address -> 0 .. MaxDeposit]]
  BY Zenon DEF TInv, TypeOK, PoolTypeOK
<1>1. v \in Address /\ e \in Address /\ [elTx EXCEPT ![v][e] = 0] \in MoveMap
  <2>1. 0 \in -MaxDeposit .. MaxDeposit
    BY StakeLedgerAssumption
  <2> QED
    BY <2>1, OneEntry DEF TInv, TypeOK, MoveMap, Address
<1>2. CASE ProcessElectorStake(v, e)
  <2>1. elTx[v][e] \in Uint
    BY <1>2, ElectorAmounts, Zenon DEF ProcessElectorStake, TInv
  <2> QED
    BY <1>0, <1>1, <1>2, <2>1, ElectorStepTyped, Zenon DEF ProcessElectorStake
<1>3. CASE ProcessElectorUnstake(v, e) /\ Fail("elector")
  BY <1>0, <1>3, FailTyped DEF ProcessElectorUnstake, Reasons, StakingStep
<1>4. CASE ProcessElectorUnstake(v, e) /\ cancelElectorStake(e, v, -elTx[v][e])
           /\ elTx' = [elTx EXCEPT ![v][e] = 0]
           /\ UNCHANGED <<ledgerVars, ownTx, diversion, sysTx, rowVars, failure, fgr, historyVars>>
  <2>1. -elTx[v][e] \in Uint
    BY <1>4, ElectorAmounts, Zenon DEF ProcessElectorUnstake, TInv
  <2> QED
    BY <1>0, <1>1, <1>4, <2>1, ElectorStepTyped, Zenon DEF ProcessElectorUnstake
<1> QED
  BY <1>2, <1>3, <1>4, Zenon DEF ProcessElectorUnstake

\* processSystemUnstakeTx changes the snapshot only.
LEMMA ProcessSystemUnstakeTyped ==
    ASSUME TInv, NEW v \in Address, NEW e \in Address, ProcessSystemUnstake(v, e)
    PROVE  StakingStep
<1>0. slotsFilled \in Int /\ elTx \in MoveMap /\ sysTx[v][e] \in Uint
  BY ElectorAmounts, Zenon DEF TInv, TypeOK, PoolTypeOK
<1>1. [sysTx EXCEPT ![v][e] = 0] \in [Address -> [Address -> 0 .. MaxDeposit]]
  <2>1. 0 \in 0 .. MaxDeposit
    BY StakeLedgerAssumption
  <2> QED
    BY <2>1, OneEntry DEF TInv, TypeOK
<1>2. CASE Fail("snapshot")
  BY <1>0, <1>2, FailTyped DEF ProcessSystemUnstake, Reasons, StakingStep
<1>3. CASE /\ processSystemUnstakeTx(e, v, sysTx[v][e])
           /\ sysTx' = [sysTx EXCEPT ![v][e] = 0]
           /\ UNCHANGED <<ledgerVars, ownTx, elTx, diversion, rowVars, failure, fgr, historyVars>>
  BY <1>0, <1>1, <1>3, ElectorStepTyped, Zenon DEF ProcessSystemUnstake
<1> QED
  BY <1>2, <1>3, Zenon DEF ProcessSystemUnstake

\* The pool's part of a diversion.
LEMMA DiversionPool ==
    ASSUME TInv, ProcessDiversion, diversion' = NoTx,
           \/ /\ diversion.at = NoNode
              /\ processStakeTx(diversion.from, diversion.on, diversion.out)
           \/ /\ diversion.at # NoNode
              /\ processUnstakeTx(diversion.from, diversion.at, Sub(Spends(diversion), diversion.out)),
           slotsFilled <= SlotsLimit
    PROVE  PoolTypeOK' /\ slotsFilled' <= SlotsLimit /\ slotsReserved' = slotsReserved
<1> DEFINE d == diversion
           amount == Sub(Spends(d), d.out)
<1>1. d # NoTx /\ d \in DiversionType
  BY StakeLedgerAssumption, Zenon DEF ProcessDiversion, TInv, TypeOK
<1>2. /\ d.from \in Address /\ d.out \in Uint /\ amount \in Uint
      /\ d.at = NoNode => d.on \in Address \cup {BlackHole}
      /\ d.at # NoNode => d.at \in Address \cup {BlackHole}
  BY <1>1, WordArithmetic, Zenon DEF DiversionType, TInv, DiversionFits
<1>3. PoolTypeOK /\ slotsFilled \in Int /\ SlotsLimit \in Int
  BY StakePoolAssumption DEF TInv, TypeOK, PoolTypeOK
<1>4. CASE d.at = NoNode
  <2>1. processStakeTx(d.from, d.on, d.out)
    BY <1>4, Zenon
  <2>2. CASE d.on = BlackHole
    BY <1>2, <1>3, <2>1, <2>2, RegisterTyped, Zenon DEF processStakeTx
  <2>3. CASE d.on # BlackHole
    <3>1. registerElectorStake(d.from, d.on, d.out) /\ d.on \in Address
      BY <1>2, <1>4, <2>1, <2>3, Zenon DEF processStakeTx
    <3> QED
      BY <1>2, <1>3, <3>1, ElectorTyped, Zenon
  <2> QED
    BY <2>2, <2>3, Zenon
<1>5. CASE d.at # NoNode
  <2>1. processUnstakeTx(d.from, d.at, amount)
    BY <1>5, Zenon
  <2>2. CASE d.at = BlackHole
    <3>1. cancelValidatorStake(d.from, amount)
      BY <2>1, <2>2, Zenon DEF processUnstakeTx
    <3> HIDE DEF amount
    <3>2. PoolTypeOK' /\ slotsFilled' <= slotsFilled /\ slotsReserved' = slotsReserved
      BY <1>2, <1>3, <3>1, CancelTyped, Zenon
    <3> QED
      BY <1>3, <3>2 DEF PoolTypeOK
  <2>3. CASE d.at # BlackHole
    <3>1. cancelElectorStake(d.from, d.at, amount) /\ d.at \in Address
      BY <1>2, <1>5, <2>1, <2>3, Zenon DEF processUnstakeTx
    <3> HIDE DEF amount
    <3> QED
      BY <1>2, <1>3, <3>1, ElectorTyped, Zenon
  <2> QED
    BY <2>2, <2>3, Zenon
<1> QED
  BY <1>4, <1>5, Zenon

\* A transaction that moves stake elsewhere is a stake or an unstake to the pool.
LEMMA ProcessDiversionTyped ==
    ASSUME TInv, slotsFilled <= SlotsLimit, ProcessDiversion
    PROVE  StakingStep
<1> DEFINE d == diversion
           amount == Sub(Spends(d), d.out)
<1>0. slotsFilled \in Int
  BY Zenon DEF TInv, TypeOK, PoolTypeOK
<1>1. CASE \E reason \in Reasons : Fail(reason)
  BY <1>0, <1>1, FailTyped DEF ProcessDiversion, StakingStep
<1>2. CASE /\ \/ d.at = NoNode /\ processStakeTx(d.from, d.on, d.out)
              \/ d.at # NoNode /\ processUnstakeTx(d.from, d.at, amount)
           /\ IF d.at = NoNode /\ d.on = BlackHole
              THEN NoteRegistered(d.from) ELSE UNCHANGED historyVars
           /\ Overtake
           /\ diversion' = NoTx
           /\ UNCHANGED <<ledgerVars, ownTx, elTx, sysTx, rowVars, failure>>
  <2>1. PoolTypeOK' /\ slotsFilled' <= SlotsLimit /\ slotsReserved' = slotsReserved
    BY <1>2, DiversionPool, Zenon
  <2>2. fgr' \in ForgerType
    BY <1>2, OvertakeTyped, Zenon DEF TInv, TypeOK
  <2>3. d.from \in Address
    BY StakeLedgerAssumption, Zenon DEF ProcessDiversion, TInv, TypeOK, DiversionType
  <2>4. /\ cutShort' \in BOOLEAN /\ diverted' \in BOOLEAN
        /\ reentered' \subseteq Address /\ known' \subseteq Address
    BY <1>2, <2>3, Zenon DEF NoteRegistered, historyVars, TInv, TypeOK
  <2>5. TypeOK'
    BY <1>2, <2>1, <2>2, <2>4, Zenon DEF ProcessDiversion, TInv, TypeOK, ledgerVars, rowVars
  <2>6. OwnFits' /\ DiversionFits'
    BY <1>2, Zenon DEF TInv, OwnFits, DiversionFits, ledgerVars, rowVars
  <2> QED
    BY <1>2, <2>1, <2>5, <2>6, Zenon DEF TInv, StakingStep, rowVars
<1> QED
  BY <1>1, <1>2, Zenon DEF ProcessDiversion, Reasons

-----------------------------------------------------------------------------
(* Types and amounts: the forger, restarts and Init.                       *)

\* A new process has an empty pool.
LEMMA RestartTyped == TInv /\ Restart => TInv' /\ SlotInv'
<1> SUFFICES ASSUME TInv, Restart PROVE TInv' /\ SlotInv'
  BY Zenon
<1>1. PoolTypeOK'
  BY EmptyTyped DEF Restart, PoolTypeOK
<1>2. fgr' \in ForgerType
  BY DEF Restart, NotForging, ForgerType
<1>3. TypeOK'
  BY <1>1, <1>2, EmptyTyped, Zenon DEF Restart, TInv, TypeOK, Reasons, ledgerVars
<1>4. OwnFits'
  <2>1. \A v \in Nodes : ownTx'[v] = 0
    BY Zenon DEF Restart
  <2> QED
    BY <2>1, NoneFits, Zenon DEF Restart, TInv, OwnFits, ledgerVars
<1>5. DiversionFits'
  BY Zenon DEF Restart, DiversionFits
<1>6. SlotInv'
  BY StakePoolAssumption DEF Restart, NotForging, SlotInv, ReservedInv
<1> QED
  BY <1>3, <1>4, <1>5, <1>6, Zenon DEF TInv

\* Init registers a row on BlackHole, or fails.
LEMMA LoadValidatorTyped ==
    ASSUME TInv, SlotInv, NEW v \in Address, NEW slots \in 1 .. SlotsLimit,
           LoadValidator(v, slots)
    PROVE  TInv' /\ SlotInv'
<1>1. slots \in Nat /\ slots > 0 /\ slots <= ownRows[v] /\ ownRows \in [Address -> Nat]
  BY StakePoolAssumption DEF LoadValidator, TInv, TypeOK
<1>2. fgr.pc = "idle" /\ fgr' = fgr
  BY <1>1 DEF LoadValidator, SlotInv, NoRows, NoSlots
<1>3. CASE failure' = "init" /\ UNCHANGED <<poolVars, ledgerVars, batchVars, rowVars, historyVars>>
  <2>1. TypeOK'
    BY Zenon, <1>2, <1>3 DEF TInv, TypeOK, PoolTypeOK, Reasons, poolVars, stakeVars, ledgerVars, batchVars,
                rowVars, historyVars, LoadValidator
  <2>2. OwnFits' /\ DiversionFits' /\ SlotInv'
    BY Zenon, <1>2, <1>3 DEF TInv, OwnFits, DiversionFits, SlotInv, ReservedInv, poolVars, ledgerVars,
                batchVars, rowVars
  <2> QED
    BY <2>1, <2>2, Zenon DEF TInv
<1>4. CASE /\ registerValidatorStake(v, slots * StakeUnit)
           /\ NoteRegistered(v)
           /\ ownRows' = [ownRows EXCEPT ![v] = @ - slots]
           /\ UNCHANGED <<ledgerVars, batchVars, rows, failure>>
  <2>1. slots * StakeUnit \in Uint
    BY <1>1, OwnAmounts, Zenon
  <2>2. PoolTypeOK' /\ slotsFilled' <= SlotsLimit
    BY <1>4, <2>1, RegisterTyped, Zenon DEF TInv, TypeOK
  <2>3. ownRows' \in [Address -> Nat]
    BY <1>1, <1>4
  <2>4. TypeOK'
    BY <1>2, <1>4, <2>2, <2>3, Zenon DEF TInv, TypeOK, NoteRegistered, ledgerVars, batchVars, LoadValidator
  <2>5. \A t \in Address : ownRows'[t] * StakeUnit < Word
    <3>1. ASSUME NEW t \in Address PROVE ownRows'[t] * StakeUnit < Word
      <4>1. ownRows'[t] \in Nat /\ ownRows[t] \in Nat /\ ownRows'[t] <= ownRows[t]
        BY <1>1, <1>4, <2>3
      <4> QED
        BY <4>1, PartFits, Zenon DEF TInv, OwnFits
    <3> QED
      BY <3>1, Zenon
  <2>6. OwnFits' /\ DiversionFits'
    BY <1>4, <2>5, Zenon DEF TInv, OwnFits, DiversionFits, ledgerVars, batchVars
  <2>7. SlotInv'
    BY <1>2, <2>2, Zenon DEF SlotInv, ReservedInv
  <2> QED
    BY <2>4, <2>6, <2>7, Zenon DEF TInv
<1> QED
  BY <1>3, <1>4, Zenon DEF LoadValidator

\* Init registers a row on another node.
LEMMA LoadElectorTyped ==
    ASSUME TInv, SlotInv, NEW v \in Address, NEW f \in Address, NEW t \in Address,
           NEW coins \in 1 .. MaxDeposit, LoadElector(v, f, t, coins)
    PROVE  TInv' /\ SlotInv'
<1>0. coins \in Uint
  BY ElectorAmounts, Zenon DEF TInv
<1>1. /\ rows[v][f][t] \in 0 .. MaxDeposit /\ rows[v][f][t] >= coins
      /\ rows \in DepositMap
  BY DEF LoadElector, TInv, TypeOK, DepositMap
<1>2. rows[v][f][t] - coins \in 0 .. MaxDeposit /\ rows[v][f][t] # 0
  BY <1>1, StakeLedgerAssumption
<1>3. fgr.pc = "idle" /\ fgr' = fgr
  BY <1>2 DEF LoadElector, SlotInv, NoRows, NoDeposit
<1>4. rows' \in DepositMap
  <2>1. rows[v] \in [Address -> [Address -> 0 .. MaxDeposit]]
    BY <1>1, Zenon DEF DepositMap
  <2>2. [rows[v] EXCEPT ![f][t] = rows[v][f][t] - coins] \in [Address -> [Address -> 0 .. MaxDeposit]]
    BY <1>2, <2>1, OneEntry, Zenon
  <2>3. rows' = [rows EXCEPT ![v] = [rows[v] EXCEPT ![f][t] = rows[v][f][t] - coins]]
    BY <1>1, Zenon DEF LoadElector, DepositMap
  <2> QED
    BY <1>1, <2>2, <2>3, Zenon DEF DepositMap
<1>5. PoolTypeOK' /\ UNCHANGED slotsFilled
  BY <1>0, ElectorTyped, Zenon DEF LoadElector, TInv, TypeOK
<1>6. TypeOK'
  BY <1>3, <1>4, <1>5, Zenon DEF LoadElector, TInv, TypeOK, ledgerVars, batchVars, historyVars
<1>7. OwnFits' /\ DiversionFits'
  BY Zenon DEF LoadElector, TInv, OwnFits, DiversionFits, ledgerVars, batchVars
<1>8. SlotInv'
  BY <1>3, <1>5, Zenon DEF SlotInv, ReservedInv
<1> QED
  BY <1>6, <1>7, <1>8, Zenon DEF TInv

-----------------------------------------------------------------------------
(* The slots.                                                              *)

\* FinalizeStaking takes slots from the forger's count only by overtaking it.
LEMMA StakingStepSlots ==
    ASSUME TInv, SlotInv, StakingStep
    PROVE  SlotInv'
<1>1. /\ slotsFilled \in Int /\ slotsReserved \in Nat /\ fgr \in ForgerType
      /\ slotsFilled' \in Int /\ SlotsLimit \in Int
  BY StakePoolAssumption DEF TInv, TypeOK, PoolTypeOK, StakingStep
<1>2. NoRows => NoRows'
  BY Zenon DEF StakingStep, NoRows
<1>3. CASE slotsFilled' <= slotsFilled /\ fgr' = fgr
  <2>1. fgr.taken \in Nat /\ fgr.slots \in Int /\ fgr.count \in Nat
    BY <1>1, Zenon DEF ForgerType
  <2> QED
    BY <1>1, <1>2, <1>3, <2>1 DEF SlotInv, ReservedInv, StakingStep
<1>4. CASE slotsFilled' <= SlotsLimit /\ Overtake
  BY <1>1, <1>2, <1>4, OvertakeTyped, Zenon DEF SlotInv, ReservedInv
<1> QED
  BY <1>3, <1>4, Zenon DEF StakingStep

\* The reset of the reservations overtakes the forger too.
LEMMA BeginStakingInv ==
    ASSUME TInv, SlotInv, BeginStaking
    PROVE  TInv' /\ SlotInv'
<1>1. /\ fgr \in ForgerType
      /\ PoolTypeOK' /\ slotsFilled' = slotsFilled
  BY Zenon DEF BeginStaking, ResetReserved, TInv, TypeOK, PoolTypeOK, stakeVars
<1>2. fgr' \in ForgerType /\ fgr'.pc = fgr.pc /\ (fgr.pc # "idle" => fgr'.overtaken)
  BY <1>1, OvertakeTyped, Zenon DEF BeginStaking
<1>3. TypeOK'
  BY <1>1, <1>2, Zenon DEF BeginStaking, TInv, TypeOK, ledgerVars, batchVars, rowVars, historyVars
<1>4. OwnFits' /\ DiversionFits' /\ (NoRows => NoRows')
  BY Zenon DEF BeginStaking, TInv, OwnFits, DiversionFits, NoRows, ledgerVars, batchVars, rowVars
<1>5. SlotInv'
  BY <1>1, <1>2, <1>4, Zenon DEF SlotInv, ReservedInv
<1> QED
  BY <1>3, <1>4, <1>5, Zenon DEF TInv

\* A commit leaves the pool and the forger alone.
LEMMA CommitSlots ==
    ASSUME SlotInv, UNCHANGED <<poolVars, rowVars, fgr>>
    PROVE  SlotInv'
BY Zenon DEF SlotInv, ReservedInv, NoRows, poolVars, rowVars

\* What a step of the forger leaves alone.
LEMMA ForgerStepTyped ==
    ASSUME TInv, SlotInv, NEW next \in ForgerType, ForgerStep(next), slotsReserved' \in Nat,
           ReservedInv'
    PROVE  TInv' /\ SlotInv'
<1>1. PoolTypeOK' /\ slotsFilled' = slotsFilled
  BY Zenon DEF ForgerStep, TInv, TypeOK, PoolTypeOK, stakeVars
<1>2. TypeOK'
  BY <1>1, Zenon DEF ForgerStep, TInv, TypeOK, ledgerVars, batchVars, rowVars, historyVars
<1>3. OwnFits' /\ DiversionFits' /\ NoRows'
  BY Zenon DEF ForgerStep, Running, TInv, OwnFits, DiversionFits, NoRows, ledgerVars, batchVars, rowVars
<1> QED
  BY <1>1, <1>2, <1>3, Zenon DEF TInv, SlotInv

\* The forger's steps, one test after the other.
LEMMA ForgeInv ==
    ASSUME TInv, SlotInv, Forge
    PROVE  TInv' /\ SlotInv'
<1>1. /\ slotsFilled \in Int /\ slotsReserved \in Nat /\ fgr \in ForgerType
      /\ fgr.taken \in Nat /\ fgr.slots \in Int /\ fgr.count \in Nat /\ fgr.overtaken \in BOOLEAN
      /\ SlotsLimit \in Int /\ ReservedInv /\ slotsFilled <= SlotsLimit
  BY StakePoolAssumption DEF TInv, TypeOK, PoolTypeOK, ForgerType, SlotInv
<1>2. ASSUME NEW next, ForgerStep(next) PROVE fgr' = next /\ slotsFilled' = slotsFilled
  BY <1>2, Zenon DEF ForgerStep
<1>3. CASE BeginForging
  <2> DEFINE next == [NotForging EXCEPT !.pc = "loop"]
  <2>0. NotForging \in ForgerType /\ NotForging.taken = 0
    BY DEF NotForging, ForgerType
  <2>1. next \in ForgerType /\ next.taken = 0 /\ next.pc = "loop"
    BY <2>0, Zenon DEF ForgerType
  <2>2. ForgerStep(next) /\ slotsReserved' = slotsReserved
    BY <1>3, Zenon DEF BeginForging
  <2> HIDE DEF next
  <2>3. ReservedInv'
    BY <1>1, <1>2, <2>1, <2>2 DEF ReservedInv
  <2> QED
    BY <1>1, <2>1, <2>2, <2>3, ForgerStepTyped, Zenon
<1>4. CASE ReadFilled
  <2> DEFINE next == [fgr EXCEPT !.pc = "reserved", !.slots = slotsFilled]
  <2>1. /\ next \in ForgerType /\ ForgerStep(next) /\ slotsReserved' = slotsReserved
        /\ next.taken = fgr.taken /\ next.pc = "reserved" /\ next.slots = slotsFilled
        /\ next.overtaken = fgr.overtaken /\ fgr.pc = "filled"
    BY <1>1, <1>4, Zenon DEF ReadFilled, ForgerType
  <2> HIDE DEF next
  <2>2. ReservedInv'
    BY <1>1, <1>2, <2>1 DEF ReservedInv
  <2> QED
    BY <1>1, <2>1, <2>2, ForgerStepTyped, Zenon
<1>5. CASE ReadReserved
  <2>1. CASE SlotsLimit - (fgr.slots + slotsReserved) >= fgr.count
    <3> DEFINE next == [fgr EXCEPT !.pc = "add"]
    <3>1. /\ next \in ForgerType /\ ForgerStep(next) /\ slotsReserved' = slotsReserved
          /\ next.taken = fgr.taken /\ next.pc = "add" /\ next.count = fgr.count
          /\ next.overtaken = fgr.overtaken /\ fgr.pc = "reserved"
      BY <1>1, <1>5, <2>1, Zenon DEF ReadReserved, ForgerType
    <3> HIDE DEF next
    <3>2. ReservedInv'
      BY <1>1, <1>2, <2>1, <3>1 DEF ReservedInv
    <3> QED
      BY <1>1, <3>1, <3>2, ForgerStepTyped, Zenon
  <2>2. CASE ~(SlotsLimit - (fgr.slots + slotsReserved) >= fgr.count)
    <3> DEFINE next == [fgr EXCEPT !.pc = "refused"]
    <3>1. /\ next \in ForgerType /\ ForgerStep(next) /\ slotsReserved' = slotsReserved
          /\ next.taken = fgr.taken /\ next.pc = "refused"
          /\ next.overtaken = fgr.overtaken /\ fgr.pc = "reserved"
      BY <1>1, <1>5, <2>2, Zenon DEF ReadReserved, ForgerType
    <3> HIDE DEF next
    <3>2. ReservedInv'
      BY <1>1, <1>2, <3>1, Zenon DEF ReservedInv
    <3> QED
      BY <1>1, <3>1, <3>2, ForgerStepTyped, Zenon
  <2> QED
    BY <2>1, <2>2, Zenon
<1>6. CASE AddReserved
  <2> DEFINE n == fgr.taken + fgr.count
             next == [pc |-> "loop", count |-> 0, slots |-> 0, taken |-> n,
                      overtaken |-> fgr.overtaken]
  <2>0. n \in Nat
    BY <1>1
  <2>1. /\ ForgerStep(next) /\ slotsReserved' = slotsReserved + fgr.count
        /\ fgr.pc = "add"
    BY <1>6, Zenon DEF AddReserved
  <2> HIDE DEF n
  <2>2. /\ next \in ForgerType /\ next.taken = n /\ next.pc = "loop"
        /\ next.overtaken = fgr.overtaken
    BY <1>1, <2>0 DEF ForgerType
  <2> HIDE DEF next
  <2>3. ReservedInv' /\ slotsReserved' \in Nat
    BY <1>1, <1>2, <2>1, <2>2 DEF ReservedInv, n
  <2> QED
    BY <2>1, <2>2, <2>3, ForgerStepTyped, Zenon
<1>7. CASE EndForging
  <2>1. /\ NotForging \in ForgerType /\ ForgerStep(NotForging) /\ slotsReserved' = slotsReserved
        /\ NotForging.pc = "idle"
    BY <1>7 DEF EndForging, NotForging, ForgerType
  <2>2. ReservedInv'
    BY <1>2, <2>1, Zenon DEF ReservedInv
  <2> QED
    BY <1>1, <2>1, <2>2, ForgerStepTyped, Zenon
<1>8. ASSUME NEW count \in 1 .. MaxReserve, CanValidatorStake(count)
      PROVE  TInv' /\ SlotInv'
  <2> DEFINE a == [fgr EXCEPT !.pc = "filled", !.count = count]
             b == [fgr EXCEPT !.pc = "refused"]
  <2>1. PICK next \in {a, b} : ForgerStep(next)
    BY <1>8, Zenon DEF CanValidatorStake
  <2>2. /\ next \in ForgerType /\ slotsReserved' = slotsReserved
        /\ next.taken = fgr.taken /\ next.pc \in {"filled", "refused"}
        /\ next.overtaken = fgr.overtaken /\ fgr.pc = "loop"
    <3>1. count \in Nat
      BY StakeLedgerAssumption
    <3> QED
      BY <1>1, <1>8, <2>1, <3>1 DEF CanValidatorStake, ForgerType
  <2> HIDE DEF a, b
  <2>3. ReservedInv'
    BY <1>1, <1>2, <2>1, <2>2, Zenon DEF ReservedInv
  <2> QED
    BY <1>1, <2>1, <2>2, <2>3, ForgerStepTyped, Zenon
<1> QED
  BY <1>3, <1>4, <1>5, <1>6, <1>7, <1>8, Zenon DEF Forge

\* Every step keeps types and slots.
LEMMA NextTyped == TInv /\ SlotInv /\ [Next]_vars => TInv' /\ SlotInv'
<1> SUFFICES ASSUME TInv, SlotInv, [Next]_vars PROVE TInv' /\ SlotInv'
  BY Zenon
<1>1. CASE Commit
  <2>1. ASSUME NEW own \in [Nodes -> SlotMoves], NEW el \in [Nodes -> [Stakers -> CoinMoves]],
               NEW d \in Diversions \cup {NoTx}, FinalizeBlock(own, el, d)
        PROVE  TInv' /\ SlotInv'
    BY <2>1, FinalizeBlockTyped, CommitSlots, Zenon DEF FinalizeBlock
  <2>2. ASSUME NEW sys \in [Deposited -> 0 .. MaxDeposit], NEW given \in SUBSET Deposited,
               FinalizeSystemBlock(sys, given)
        PROVE  TInv' /\ SlotInv'
    BY <2>2, FinalizeSystemBlockTyped, CommitSlots, Zenon DEF FinalizeSystemBlock
  <2> QED
    BY <1>1, <2>1, <2>2, Zenon DEF Commit
<1>2. CASE FinalizeStaking
  <2>1. StakingStep => TInv' /\ SlotInv'
    BY StakingStepSlots, Zenon DEF StakingStep
  <2>2. CASE BeginStaking
    BY <2>2, BeginStakingInv, Zenon
  <2>3. CASE ~BeginStaking
    <3>1. StakingStep
      BY Zenon, <1>2, <2>3, ProcessDiversionTyped, ProcessValidatorStakeTyped,
         ProcessValidatorUnstakeTyped, ProcessElectorTyped, ProcessSystemUnstakeTyped
         DEF FinalizeStaking, SlotInv
    <3> QED
      BY <2>1, <3>1, Zenon
  <2> QED
    BY <2>2, <2>3, Zenon
<1>3. CASE Forge
  BY <1>3, ForgeInv, Zenon
<1>4. CASE Restart
  BY <1>4, RestartTyped, Zenon
<1>5. CASE Load
  BY <1>5, LoadValidatorTyped, LoadElectorTyped, Zenon DEF Load
<1>6. CASE UNCHANGED vars
  BY <1>6 DEF vars, poolVars, stakeVars, ledgerVars, batchVars, rowVars, historyVars, TInv,
              TypeOK, PoolTypeOK, OwnFits, DiversionFits, SlotInv, ReservedInv, NoRows
<1> QED
  BY <1>1, <1>2, <1>3, <1>4, <1>5, <1>6, Zenon DEF Next

-----------------------------------------------------------------------------
(* The theorems.                                                           *)

\* Types, amounts and slots are in order in every reachable state.
THEOREM TypesAndSlots == Spec => [](TInv /\ SlotInv)
BY InitTyped, NextTyped, PTL DEF Spec

\* Amounts stay within uint64 and the tables keep their types, whatever a block
\* contains, after errors and diversions too.
THEOREM TypeCorrect == Spec => []TypeOK
<1>1. TInv => TypeOK
  BY Zenon DEF TInv
<1> QED
  BY <1>1, TypesAndSlots, PTL

\* Whatever stakes a block contains and however they were reserved, the slots that
\* registerValidatorStake has filled never exceed the registry limit.
THEOREM SlotsNeverExceeded == Spec => []FilledWithinLimit
<1>1. SlotInv => FilledWithinLimit
  BY Zenon DEF SlotInv, FilledWithinLimit
<1> QED
  BY <1>1, TypesAndSlots, PTL

\* As long as no FinalizeStaking runs during the forging, the slots ReserveSlots
\* has granted to the block are empty, although it reads the two counters under no
\* lock.
THEOREM ReservationsHold == Spec => []ReservationsFit
<1>1. SlotInv => ReservationsFit
  BY Zenon DEF SlotInv, ReservedInv, ReservationsFit
<1> QED
  BY <1>1, TypesAndSlots, PTL
=============================================================================
