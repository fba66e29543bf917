------------------------ MODULE StakeLedgerAgreement -----------------------
(***************************************************************************)
(* The inductive invariant that relates the staking pool to the ledger,    *)
(* and its preservation by commits, errors and the validators' own stake,  *)
(* for every set of nodes and stakers, every slot price and limit.         *)
(***************************************************************************)
EXTENDS StakeLedgerTypes

(* The inductive invariant.                                                *)

\* One kind of work at a time: Init's rows, a staking batch or a system batch.
OneAtATime ==
    /\ NoBatch \/ NoRows
    /\ sysTx = NoStake \/ (NoOwnTx /\ elTx = NoMoves)

\* Without diversions, rows on BlackHole are nodes', and the others are stakers'
\* own, on nodes.
Plain ==
    /\ \A t \in Address \ Nodes : ownDeposit[t] = 0 /\ ownRows[t] = 0
    /\ \A v, f, t \in Address :
          ~(v \in Nodes /\ t \in Stakers /\ f = t) => deposit[v][f][t] = 0 /\ rows[v][f][t] = 0
    /\ \A v, e \in Address : ~(v \in Nodes /\ e \in Stakers) => sysTx[v][e] = 0

\* The pool's three records of a validator's own stake say the same.
OwnPool ==
    \A v \in Nodes :
        /\ SlotsFilled[v] \in Nat
        /\ SelfStake[v] = SlotsFilled[v] * StakeUnit
        /\ v \in validators <=> SlotsFilled[v] > 0

\* Slots filled, the change still to be applied and the rows still to be read
\* add up to the slots in the ledger.
OwnBalance ==
    \A v \in Nodes : SlotsFilled[v] + ownTx[v] + ownRows[v] = ownDeposit[v]

\* An elector's coins are on one side only ...
OneSide ==
    \A v \in Nodes \ reentered, e \in Stakers :
        /\ v \in validators => unstakedSnapshot[v][e] = 0
        /\ v \notin validators => Electors[v][e] = 0

\* ... and add up to the rows of the ledger in the same way.
ElectorBalance ==
    \A v \in Nodes \ reentered, e \in Stakers :
        Electors[v][e] + unstakedSnapshot[v][e] + elTx[v][e] + rows[v][e][e]
            = deposit[v][e][e] + sysTx[v][e]

Agreement == OwnPool /\ OwnBalance /\ OneSide /\ ElectorBalance

AInv ==
    /\ OneAtATime
    /\ diversion # NoTx => diverted
    /\ ~diverted => Plain
    /\ failure = "none" /\ ~diverted => Agreement

-----------------------------------------------------------------------------
(* What the pool's methods do to a validator's own stake.                  *)

\* A stake that fits keeps the three records of the own stake consistent.
LEMMA RegisterOwn ==
    ASSUME PoolTypeOK, OwnPool, NEW v \in Nodes, NEW k \in Nat \ {0},
           (SlotsFilled[v] + k) * StakeUnit < Word,
           registerValidatorStake(v, k * StakeUnit)
    PROVE  OwnPool' /\ SlotsFilled' = [SlotsFilled EXCEPT ![v] = @ + k]
<1> DEFINE s == SlotsFilled[v]
<1>1. s \in Nat /\ SelfStake[v] = s * StakeUnit
  BY Zenon DEF OwnPool
<1>2. (s + k) * StakeUnit = s * StakeUnit + k * StakeUnit
  BY <1>1, StakePoolAssumption
<1>3. s * StakeUnit \in Uint /\ k * StakeUnit \in Uint
  BY <1>1, <1>2, PriceMonotone, StakePoolAssumption DEF Uint
<1>4. Add(SelfStake[v], k * StakeUnit) = (s + k) * StakeUnit
  BY <1>1, <1>2, <1>3, WordArithmetic
<1>5. SlotsFilled' = [SlotsFilled EXCEPT ![v] = s + k]
  BY SlotsOfPrice, Zenon DEF registerValidatorStake
<1>6. SelfStake' = [SelfStake EXCEPT ![v] = (s + k) * StakeUnit]
  BY <1>4, Zenon DEF registerValidatorStake
<1>7. validators' = validators \cup {v}
  BY Zenon DEF registerValidatorStake
<1>8. /\ SlotsFilled \in [Address -> Int] /\ SelfStake \in [Address -> Uint]
      /\ Nodes \subseteq Address
  BY Zenon DEF PoolTypeOK, Address
<1> HIDE DEF s
<1>9. OwnPool'
  BY <1>1, <1>5, <1>6, <1>7, <1>8 DEF OwnPool
<1> QED
  BY <1>5, <1>9, Zenon DEF s

\* Unstaking no more slots than are filled keeps the three records consistent.
LEMMA CancelOwn ==
    ASSUME PoolTypeOK, OwnPool, NEW v \in Nodes, NEW k \in Nat \ {0},
           k <= SlotsFilled[v],
           cancelValidatorStake(v, k * StakeUnit)
    PROVE  OwnPool' /\ SlotsFilled' = [SlotsFilled EXCEPT ![v] = @ - k]
<1> DEFINE s == SlotsFilled[v]
<1>0. /\ SlotsFilled \in [Address -> Int] /\ SelfStake \in [Address -> Uint]
      /\ Nodes \subseteq Address
  BY Zenon DEF PoolTypeOK, Address
<1>1. s \in Nat /\ SelfStake[v] = s * StakeUnit /\ SelfStake[v] \in Uint
  BY <1>0, Zenon DEF OwnPool
<1>2. slotsCount(k * StakeUnit) = k
  BY SlotsOfPrice, Zenon
<1>3. CASE s = k /\ FullUnstake(v)
  <2>1. 0 * StakeUnit = 0
    BY StakePoolAssumption
  <2>2. OwnPool'
    BY <1>0, <1>3, <2>1 DEF OwnPool, FullUnstake
  <2>3. SlotsFilled' = [SlotsFilled EXCEPT ![v] = @ - k]
    BY <1>0, <1>1, <1>3 DEF FullUnstake
  <2> QED
    BY <2>2, <2>3, Zenon
<1>4. CASE s # k /\ PartialUnstake(v, k * StakeUnit)
  <2> HIDE DEF s
  <2>0. k \in Nat /\ k <= s
    BY Zenon DEF s
  <2>1. /\ k * StakeUnit \in Nat
        /\ k * StakeUnit <= s * StakeUnit
        /\ (s - k) * StakeUnit = s * StakeUnit - k * StakeUnit
    BY <1>1, <2>0, PriceMonotone, Zenon
  <2>. k * StakeUnit \in Uint
    BY <1>1, <2>1, StakePoolAssumption DEF Uint
  <2>2. Sub(SelfStake[v], k * StakeUnit) = (s - k) * StakeUnit
    BY <1>1, <2>1, WordArithmetic
  <2>3. s - k \in Nat /\ s - k > 0 /\ s > 0
    BY <1>1, <1>4, <2>0
  <2>4. SlotsFilled' = [SlotsFilled EXCEPT ![v] = s - k]
    BY <1>2, <1>4, Zenon DEF PartialUnstake, s
  <2>5. SelfStake' = [SelfStake EXCEPT ![v] = (s - k) * StakeUnit]
    BY <2>2, <1>4, Zenon DEF PartialUnstake
  <2>6. v \in validators /\ validators' = validators
    BY <1>4, <2>3, Zenon DEF OwnPool, PartialUnstake, s
  <2>7. OwnPool'
    BY <1>0, <2>3, <2>4, <2>5, <2>6, Zenon DEF OwnPool
  <2> QED
    BY <2>4, <2>7, Zenon DEF s
<1> QED
  BY <1>2, <1>3, <1>4, Zenon DEF cancelValidatorStake

\* Registering v leaves the electors' coins where they are; if it puts coins on
\* the wrong side, v is noted in reentered.
LEMMA RegisterSides ==
    ASSUME OneSide, ElectorBalance, NEW v \in Nodes, NEW amount,
           registerValidatorStake(v, amount), NoteRegistered(v),
           UNCHANGED <<elTx, sysTx, rows, deposit>>
    PROVE  OneSide' /\ ElectorBalance'
<1>0. Stakers \subseteq Address
  BY Zenon DEF Address
<1>1. OneSide'
  BY <1>0 DEF OneSide, registerValidatorStake, NoteRegistered, Reenters
<1>2. reentered \subseteq reentered'
  BY Zenon DEF NoteRegistered
<1>3. ElectorBalance'
  BY <1>2, Zenon DEF ElectorBalance, registerValidatorStake
<1> QED
  BY <1>1, <1>3, Zenon

\* The amounts of one elector on one node.
CoinsTyped(v, e) ==
    /\ Electors[v][e] \in Nat /\ unstakedSnapshot[v][e] \in Nat
    /\ deposit[v][e][e] \in Nat /\ deposit[v][e][e] <= MaxDeposit
    /\ rows[v][e][e] \in Nat /\ sysTx[v][e] \in Nat
    /\ elTx[v][e] \in Int

\* They are the numbers their types say.
LEMMA TypeOfCoins ==
    ASSUME TypeOK, NEW v \in Nodes, NEW e \in Stakers
    PROVE  CoinsTyped(v, e)
<1>0. v \in Address /\ e \in Address
  BY Zenon DEF Address
<1>1. Electors[v][e] \in Uint /\ unstakedSnapshot[v][e] \in Uint
  BY <1>0 DEF TypeOK, PoolTypeOK, StakeMap
<1>2. /\ deposit[v][e][e] \in 0 .. MaxDeposit
      /\ rows[v][e][e] \in 0 .. MaxDeposit
      /\ sysTx[v][e] \in 0 .. MaxDeposit
      /\ elTx[v][e] \in -MaxDeposit .. MaxDeposit
  BY <1>0 DEF TypeOK, DepositMap, MoveMap
<1> QED
  BY <1>1, <1>2, StakePoolAssumption, StakeLedgerAssumption DEF CoinsTyped, Uint

\* A full unstake moves the electors' coins to the other side, a partial one
\* leaves them.
LEMMA CancelSides ==
    ASSUME TypeOK, OneSide, ElectorBalance, NEW v \in Nodes, NEW amount,
           cancelValidatorStake(v, amount),
           UNCHANGED <<elTx, sysTx, rows, deposit, reentered>>
    PROVE  OneSide' /\ ElectorBalance'
<1>1. CASE FullUnstake(v)
  <2>0. Nodes \subseteq Address /\ Stakers \subseteq Address
    BY Zenon DEF Address
  <2>1. v \in validators
    BY Zenon DEF cancelValidatorStake, CanCancelValidator
  <2>2. ASSUME NEW w \in Nodes \ reentered, NEW e \in Stakers
        PROVE  Electors'[w][e] + unstakedSnapshot'[w][e] = Electors[w][e] + unstakedSnapshot[w][e]
    <3>1. CASE w = v
      <4>1. /\ Electors'[w][e] = 0
            /\ unstakedSnapshot[w][e] = 0
            /\ unstakedSnapshot'[w][e] = Electors[w][e]
        BY Zenon, <1>1, <2>0, <2>1, <3>1
           DEF FullUnstake, MarkFullUnstake, OneSide, TypeOK, PoolTypeOK, StakeMap
      <4> QED
        BY <4>1, TypeOfCoins DEF CoinsTyped
    <3>2. CASE w # v
      BY <1>1, <2>0, <3>2, Zenon DEF FullUnstake, MarkFullUnstake, TypeOK, PoolTypeOK, StakeMap
    <3> QED
      BY <3>1, <3>2, Zenon
  <2>3. OneSide'
    BY <1>1, <2>0, <2>1, Zenon DEF OneSide, FullUnstake, MarkFullUnstake, TypeOK, PoolTypeOK, StakeMap
  <2>4. ElectorBalance'
    BY <2>2 DEF ElectorBalance
  <2> QED
    BY <2>3, <2>4, Zenon
<1>2. CASE PartialUnstake(v, amount)
  BY <1>2, Zenon DEF OneSide, ElectorBalance, PartialUnstake
<1> QED
  BY <1>1, <1>2, Zenon DEF cancelValidatorStake

-----------------------------------------------------------------------------
(* The initial state, commits and errors.                                  *)

\* The empty pool and the empty ledger agree.
LEMMA InitInv == Init => AInv
<1> SUFFICES ASSUME Init PROVE AInv
  BY Zenon
<1>1. OneAtATime /\ (diversion # NoTx => diverted)
  BY Zenon DEF Init, NoBatch, OneAtATime
<1> USE DEF Init, NewPool, NoBatch, NoRows, NoSlots, NoStake, NoDeposit
<1>2. Plain
  BY Zenon DEF Plain
<1>3. 0 * StakeUnit = 0 /\ Nodes \subseteq Address /\ Stakers \subseteq Address
  BY StakePoolAssumption DEF Address
<1>4. OwnPool
  BY <1>3 DEF OwnPool
<1>5. OwnBalance
  <2> SUFFICES ASSUME NEW v \in Nodes
               PROVE  SlotsFilled[v] + ownTx[v] + ownRows[v] = ownDeposit[v]
    BY Zenon DEF OwnBalance
  <2>1. SlotsFilled[v] = 0 /\ ownTx[v] = 0 /\ ownRows[v] = 0 /\ ownDeposit[v] = 0
    BY <1>3, Zenon DEF NoOwnTx
  <2> QED
    BY ONLY <2>1
<1>6. OneSide
  BY <1>3, Zenon DEF OneSide
<1>7. ElectorBalance
  BY <1>3 DEF ElectorBalance, NoMoves
<1> QED
  BY <1>1, <1>2, <1>4, <1>5, <1>6, <1>7, Zenon DEF AInv, Agreement

\* Committing a block without a diversion moves the ledger and notes the same
\* moves in the batch.
LEMMA PlainBlock ==
    ASSUME TInv, AInv, NEW own \in [Nodes -> Int],
           NEW el, \A v \in Nodes, e \in Stakers : el[v][e] \in Int,
           FinalizeBlock(own, el, NoTx), ~diverted
    PROVE  /\ \A v \in Nodes : ownDeposit'[v] = ownDeposit[v] + own[v]
           /\ \A v \in Nodes, e \in Stakers : deposit'[v][e][e] = deposit[v][e][e] + el[v][e]
           /\ Plain'
<1>0. Nodes \subseteq Address /\ Stakers \subseteq Address
  BY Zenon DEF Address
<1>1. ASSUME NEW t \in Address
      PROVE  ownDeposit'[t] = ownDeposit[t] + (IF t \in Nodes THEN own[t] ELSE 0)
  <2>1. ownDeposit'[t] = ownDeposit[t] + (IF t \in Nodes THEN own[t] ELSE 0) + 0
    BY Zenon DEF FinalizeBlock, OwnAfter, OwnMoved
  <2>2. ownDeposit[t] \in Int /\ (t \in Nodes => own[t] \in Int)
    BY DEF TInv, TypeOK
  <2> QED
    BY <2>1, <2>2
<1>2. ASSUME NEW v \in Address, NEW f \in Address, NEW t \in Address
      PROVE  deposit'[v][f][t]
                = deposit[v][f][t] + (IF v \in Nodes /\ t \in Stakers /\ f = t THEN el[v][t] ELSE 0)
  <2>1. deposit'[v][f][t]
           = deposit[v][f][t] + (IF v \in Nodes /\ t \in Stakers /\ f = t THEN el[v][t] ELSE 0) + 0
    BY Zenon DEF FinalizeBlock, DepositAfter, CoinsMoved
  <2>2. deposit[v][f][t] \in 0 .. MaxDeposit
    BY DEF TInv, TypeOK, DepositMap
  <2>3. deposit[v][f][t] \in Int /\ (v \in Nodes /\ t \in Stakers => el[v][t] \in Int)
    BY <2>2
  <2> QED
    BY <2>1, <2>3
<1>3. Plain /\ UNCHANGED <<ownRows, rows, sysTx>>
  BY Zenon DEF AInv, FinalizeBlock, rowVars
<1>4. Plain'
  <2>1. \A t \in Address \ Nodes : ownDeposit'[t] = 0 /\ ownRows'[t] = 0
    BY <1>1, <1>3 DEF Plain
  <2>2. \A v, f, t \in Address : ~(v \in Nodes /\ t \in Stakers /\ f = t) =>
            deposit'[v][f][t] = 0 /\ rows'[v][f][t] = 0
    BY <1>2, <1>3 DEF Plain
  <2> QED
    BY <1>3, <2>1, <2>2, Zenon DEF Plain
<1> QED
  BY <1>0, <1>1, <1>2, <1>4, Zenon

\* FinalizeBlock moves the ledger by what it queues.
LEMMA FinalizeBlockInv ==
    ASSUME TInv, AInv, NEW own \in [Nodes -> SlotMoves],
           NEW el \in [Nodes -> [Stakers -> CoinMoves]],
           NEW d \in Diversions \cup {NoTx}, FinalizeBlock(own, el, d)
    PROVE  AInv'
<1>1. own \in [Nodes -> Int] /\ \A v \in Nodes, e \in Stakers : el[v][e] \in Int
  BY StakeLedgerAssumption DEF SlotMoves, CoinMoves
<1>2. /\ NoRows /\ NoOwnTx /\ elTx = NoMoves /\ sysTx = NoStake
      /\ UNCHANGED <<ownRows, rows, sysTx, failure, reentered>>
      /\ UNCHANGED <<validators, SlotsFilled, SelfStake, Electors, unstakedSnapshot>>
      /\ ownTx' = own /\ elTx' = el /\ diversion' = d /\ diverted' = (diverted \/ d # NoTx)
  BY Zenon DEF FinalizeBlock, Idle, Running, NoBatch, rowVars, poolVars, stakeVars
<1>3. OneAtATime' /\ (diversion' # NoTx => diverted')
  BY <1>2, Zenon DEF OneAtATime, NoRows
<1>4. ASSUME ~diverted' PROVE d = NoTx /\ ~diverted /\ Plain'
  BY <1>1, <1>2, <1>4, PlainBlock, Zenon
<1>5. ASSUME failure' = "none", ~diverted'
      PROVE  Agreement'
  <2>1. Agreement
    BY <1>2, <1>4, <1>5, Zenon DEF AInv
  <2>2. /\ \A v \in Nodes : ownTx[v] = 0
        /\ \A v \in Nodes, e \in Stakers : elTx[v][e] = 0
    BY <1>2, Zenon DEF NoOwnTx, NoMoves
  <2>3. /\ \A v \in Nodes : ownDeposit'[v] = ownDeposit[v] + own[v]
        /\ \A v \in Nodes, e \in Stakers : deposit'[v][e][e] = deposit[v][e][e] + el[v][e]
    BY <1>1, <1>4, <1>5, PlainBlock
  <2>4. OwnPool' /\ OneSide'
    BY <1>2, <2>1, Zenon DEF Agreement, OwnPool, OneSide
  <2>5. OwnBalance'
    <3> SUFFICES ASSUME NEW v \in Nodes
                 PROVE  SlotsFilled[v] + own[v] + ownRows[v] = ownDeposit[v] + own[v]
      BY <1>2, <2>3, Zenon DEF OwnBalance
    <3>1. /\ SlotsFilled[v] \in Int /\ ownRows[v] \in Int /\ ownDeposit[v] \in Int /\ own[v] \in Int
          /\ SlotsFilled[v] + 0 + ownRows[v] = ownDeposit[v]
      BY <1>1, <2>1, <2>2 DEF Agreement, OwnBalance, TInv, TypeOK, PoolTypeOK, Address
    <3> QED
      BY <3>1
  <2>6. ElectorBalance'
    <3> SUFFICES ASSUME NEW v \in Nodes \ reentered, NEW e \in Stakers
                 PROVE  Electors[v][e] + unstakedSnapshot[v][e] + el[v][e] + rows[v][e][e]
                            = deposit[v][e][e] + el[v][e] + sysTx[v][e]
      BY <1>2, <2>3 DEF ElectorBalance
    <3>1. CoinsTyped(v, e)
      BY TypeOfCoins, Zenon DEF TInv
    <3>2. Electors[v][e] + unstakedSnapshot[v][e] + elTx[v][e] + rows[v][e][e]
              = deposit[v][e][e] + sysTx[v][e]
      BY <2>1, Zenon DEF Agreement, ElectorBalance
    <3>3. el[v][e] \in Int /\ elTx[v][e] = 0
      BY <1>1, <2>2, Zenon
    <3> QED
      BY <3>1, <3>2, <3>3 DEF CoinsTyped
  <2> QED
    BY <2>4, <2>5, <2>6, Zenon DEF Agreement
<1> QED
  BY <1>3, <1>4, <1>5, Zenon DEF AInv

\* A block of system unstakes takes the returned coins from the ledger.
LEMMA PlainSystemBlock ==
    ASSUME TInv, AInv, NEW sys \in [Deposited -> 0 .. MaxDeposit],
           NEW given \in SUBSET Deposited, FinalizeSystemBlock(sys, given), ~diverted
    PROVE  /\ \A v \in Nodes, e \in Stakers :
                 deposit'[v][e][e] + sysTx'[v][e] = deposit[v][e][e]
           /\ Plain'
<1>0. Nodes \subseteq Address /\ Stakers \subseteq Address
  BY Zenon DEF Address
<1>1. Plain /\ UNCHANGED <<ownDeposit, ownRows, rows>>
  BY Zenon DEF AInv, FinalizeSystemBlock, rowVars
<1>2. \A v, e \in Address : <<v, e>> \notin given
  <2> SUFFICES ASSUME NEW v \in Address, NEW e \in Address, <<v, e>> \in given PROVE FALSE
    BY Zenon
  <2>1. Given(v, e) # {}
    BY Zenon DEF FinalizeSystemBlock
  <2>2. PICK f \in Address \ {e} : deposit[v][f][e] > 0
    BY <2>1, Zenon DEF Given
  <2> QED
    BY <1>1, <2>2 DEF Plain
<1>3. ASSUME NEW v \in Address, NEW e \in Address
      PROVE  Returned(sys, v, e) \in 0 .. MaxDeposit
  BY StakeLedgerAssumption DEF Returned
<1>4. ASSUME NEW v \in Address, NEW e \in Address
      PROVE  sysTx'[v][e] = Returned(sys, v, e)
  <2>1. sysTx'[v][e] = Returned(sys, v, e) + 0
    BY <1>2, Zenon DEF FinalizeSystemBlock
  <2>2. Returned(sys, v, e) \in Int
    BY <1>3
  <2> QED
    BY <2>1, <2>2
<1>5. ASSUME NEW v \in Address, NEW f \in Address, NEW t \in Address
      PROVE  deposit'[v][f][t]
                = IF f = t THEN deposit[v][t][t] - Returned(sys, v, t) ELSE deposit[v][f][t]
  BY <1>2, Zenon DEF FinalizeSystemBlock
<1>6. ASSUME NEW v \in Address, NEW e \in Address, ~(v \in Nodes /\ e \in Stakers)
      PROVE  Returned(sys, v, e) = 0
  <2>1. <<v, e>> \notin Deposited
    BY <1>1, <1>6 DEF Plain, Deposited
  <2> QED
    BY <2>1, Zenon DEF Returned
<1>7. ASSUME NEW v \in Nodes, NEW e \in Stakers
      PROVE  deposit'[v][e][e] + sysTx'[v][e] = deposit[v][e][e]
  <2>1. deposit[v][e][e] \in Int /\ Returned(sys, v, e) \in Int
    BY <1>0, <1>3, TypeOfCoins DEF CoinsTyped, TInv
  <2>2. deposit'[v][e][e] = deposit[v][e][e] - Returned(sys, v, e)
        /\ sysTx'[v][e] = Returned(sys, v, e)
    BY <1>0, <1>4, <1>5, Zenon
  <2> QED
    BY <2>1, <2>2
<1>8. ASSUME NEW v \in Address, NEW f \in Address, NEW t \in Address,
             ~(v \in Nodes /\ t \in Stakers /\ f = t)
      PROVE  deposit'[v][f][t] = 0 /\ rows'[v][f][t] = 0
  <2>1. deposit[v][f][t] = 0 /\ rows'[v][f][t] = 0
    BY <1>1, <1>8 DEF Plain
  <2>2. CASE f = t
    BY <1>5, <1>6, <1>8, <2>1, <2>2
  <2>3. CASE f # t
    BY <1>5, <2>1, <2>3
  <2> QED
    BY <2>1, <2>2, <2>3, Zenon
<1>9. Plain'
  BY <1>1, <1>4, <1>6, <1>8 DEF Plain
<1> QED
  BY <1>7, <1>9, Zenon

\* generateSystemUnstakes takes from the ledger what it queues.
LEMMA FinalizeSystemBlockInv ==
    ASSUME TInv, AInv, NEW sys \in [Deposited -> 0 .. MaxDeposit],
           NEW given \in SUBSET Deposited, FinalizeSystemBlock(sys, given)
    PROVE  AInv'
<1>1. /\ NoRows /\ NoOwnTx /\ elTx = NoMoves /\ sysTx = NoStake /\ diversion = NoTx
      /\ UNCHANGED <<ownDeposit, ownTx, elTx, diversion, ownRows, rows, failure, diverted, reentered>>
      /\ UNCHANGED <<validators, SlotsFilled, SelfStake, Electors, unstakedSnapshot>>
  BY Zenon DEF FinalizeSystemBlock, Idle, Running, NoBatch, rowVars, poolVars, stakeVars, historyVars
<1>2. OneAtATime' /\ (diversion' # NoTx => diverted')
  BY <1>1, Zenon DEF OneAtATime, NoRows, NoOwnTx
<1>3. ~diverted' => Plain'
  BY <1>1, PlainSystemBlock, Zenon
<1>4. ASSUME failure' = "none", ~diverted'
      PROVE  Agreement'
  <2>1. Agreement
    BY <1>1, <1>4, Zenon DEF AInv
  <2>2. OwnPool' /\ OwnBalance' /\ OneSide'
    BY <1>1, <2>1, Zenon DEF Agreement, OwnPool, OwnBalance, OneSide
  <2>3. ElectorBalance'
    <3> SUFFICES ASSUME NEW v \in Nodes \ reentered, NEW e \in Stakers
                 PROVE  Electors[v][e] + unstakedSnapshot[v][e] + elTx[v][e] + rows[v][e][e]
                            = deposit'[v][e][e] + sysTx'[v][e]
      BY <1>1, Zenon DEF ElectorBalance
    <3>1. deposit'[v][e][e] + sysTx'[v][e] = deposit[v][e][e]
      BY <1>1, <1>4, PlainSystemBlock, Zenon
    <3>2. Electors[v][e] + unstakedSnapshot[v][e] + elTx[v][e] + rows[v][e][e]
              = deposit[v][e][e] + sysTx[v][e]
      BY <2>1, Zenon DEF Agreement, ElectorBalance
    <3>3. sysTx[v][e] = 0 /\ deposit[v][e][e] \in Nat
      BY <1>1, TypeOfCoins, Zenon DEF NoStake, CoinsTyped, TInv, Address
    <3> QED
      BY <3>1, <3>2, <3>3
  <2> QED
    BY <2>2, <2>3, Zenon DEF Agreement
<1> QED
  BY <1>2, <1>3, <1>4, Zenon DEF AInv

\* An error ends the batch; nothing is claimed of the pool's contents after it.
LEMMA FailInv ==
    ASSUME AInv, NEW reason \in Reasons \ {"none"}, Fail(reason)
    PROVE  AInv'
<1>1. OneAtATime' /\ (diversion' # NoTx => diverted')
  BY Zenon DEF Fail, OneAtATime, NoBatch, NoOwnTx
<1>2. ASSUME ~diverted' PROVE Plain'
  BY <1>2 DEF Fail, AInv, Plain, NoStake, ledgerVars, rowVars
<1> QED
  BY <1>1, <1>2, Zenon DEF Fail, AInv

-----------------------------------------------------------------------------
(* Validators' transactions and rows.                                      *)

\* Processing one transaction of a batch leaves the rest of the work alone.
LEMMA BatchStep ==
    ASSUME AInv, NoRows, UNCHANGED <<ownDeposit, deposit, ownRows, rows, diversion, diverted>>,
           sysTx' = sysTx, sysTx = NoStake
    PROVE  OneAtATime' /\ (diversion' # NoTx => diverted') /\ (~diverted' => Plain')
<1>1. NoRows'
  BY Zenon DEF NoRows
<1> QED
  BY <1>1 DEF AInv, OneAtATime, Plain

\* A stake that takes slots, from a block.
LEMMA ProcessValidatorStakeInv ==
    ASSUME TInv, AInv, NEW v \in Nodes, ProcessValidatorStake(v)
    PROVE  AInv'
<1> DEFINE k == ownTx[v]
<1>1. CASE Fail("slots")
  BY <1>1, FailInv, Zenon DEF Reasons
<1>2. CASE /\ registerValidatorStake(v, k * StakeUnit)
           /\ NoteRegistered(v)
           /\ ownTx' = [ownTx EXCEPT ![v] = 0]
           /\ UNCHANGED <<ledgerVars, elTx, diversion, sysTx, rowVars, failure>>
  <2>1. k \in Nat \ {0}
    BY DEF ProcessValidatorStake, TInv, TypeOK
  <2>2. /\ UNCHANGED <<ownDeposit, deposit, ownRows, rows, elTx, diversion, sysTx, failure, diverted>>
    BY <1>2, Zenon DEF ledgerVars, rowVars, NoteRegistered
  <2>3. NoRows /\ sysTx = NoStake
    <3>1. ~NoOwnTx
      BY <2>1, Zenon DEF NoOwnTx
    <3> QED
      BY <3>1, Zenon DEF AInv, OneAtATime, NoBatch
  <2>4. OneAtATime' /\ (diversion' # NoTx => diverted') /\ (~diverted' => Plain')
    BY <2>2, <2>3, BatchStep, Zenon
  <2>5. ASSUME failure' = "none", ~diverted'
        PROVE  Agreement'
    <3>1. Agreement
      BY <2>2, <2>5, Zenon DEF AInv
    <3>2. /\ SlotsFilled[v] \in Nat /\ ownDeposit[v] \in Nat /\ ownRows[v] = 0
          /\ SlotsFilled[v] + k + ownRows[v] = ownDeposit[v] /\ v \in Address
      BY <2>3, <3>1, Zenon DEF Agreement, OwnBalance, OwnPool, NoRows, NoSlots, TInv, TypeOK, Address
    <3>3. OwnPool' /\ SlotsFilled' = [SlotsFilled EXCEPT ![v] = @ + k]
      <4>1. (SlotsFilled[v] + k) * StakeUnit < Word
        <5>1. SlotsFilled[v] + k = ownDeposit[v]
          BY <2>1, <3>2
        <5> QED
          BY <3>2, <5>1, Zenon DEF TInv, OwnFits
      <4> HIDE DEF k
      <4> QED
        BY <1>2, <2>1, <3>1, <4>1, RegisterOwn, Zenon DEF Agreement, TInv, TypeOK
    <3>4. OwnBalance'
      <4> SUFFICES ASSUME NEW w \in Nodes
                   PROVE  SlotsFilled'[w] + ownTx'[w] + ownRows[w] = ownDeposit[w]
        BY <2>2, Zenon DEF OwnBalance
      <4>1. /\ SlotsFilled[w] + ownTx[w] + ownRows[w] = ownDeposit[w]
            /\ SlotsFilled[w] \in Int /\ ownTx[w] \in Int /\ ownRows[w] \in Int
            /\ SlotsFilled'[w] = SlotsFilled[w] + (IF w = v THEN ownTx[w] ELSE 0)
            /\ ownTx'[w] = IF w = v THEN 0 ELSE ownTx[w]
        BY <1>2, <3>1, <3>3 DEF Agreement, OwnBalance, TInv, TypeOK, PoolTypeOK, Address
      <4> QED
        BY <4>1
    <3>5. OneSide' /\ ElectorBalance'
      BY <1>2, <2>2, <3>1, RegisterSides, Zenon DEF Agreement
    <3> QED
      BY <3>3, <3>4, <3>5, Zenon DEF Agreement
  <2> QED
    BY <2>4, <2>5, Zenon DEF AInv
<1> QED
  BY <1>1, <1>2, Zenon DEF ProcessValidatorStake

\* A validator that unstakes has the slots it gives up.
LEMMA ValidatorHasSlots ==
    ASSUME TInv, AInv, NEW v \in Nodes, ownTx[v] < 0, failure = "none", ~diverted
    PROVE  /\ SlotsFilled[v] \in Nat /\ -ownTx[v] \in Nat \ {0} /\ -ownTx[v] <= SlotsFilled[v]
           /\ v \in validators
<1>1. Agreement
  BY Zenon DEF AInv
<1>2. NoRows
  BY DEF AInv, OneAtATime, NoBatch, NoOwnTx
<1>3. /\ SlotsFilled[v] \in Nat /\ ownDeposit[v] \in Nat /\ ownRows[v] = 0 /\ ownTx[v] \in Int
      /\ SlotsFilled[v] + ownTx[v] + ownRows[v] = ownDeposit[v]
  BY <1>1, <1>2, Zenon DEF Agreement, OwnBalance, OwnPool, NoRows, NoSlots, TInv, TypeOK, Address
<1>4. /\ -ownTx[v] \in Nat \ {0} /\ -ownTx[v] <= SlotsFilled[v] /\ SlotsFilled[v] > 0
  BY <1>3
<1> QED
  BY <1>1, <1>3, <1>4, Zenon DEF Agreement, OwnPool

\* An unstake of a validator's own slots, from a block.
LEMMA ProcessValidatorUnstakeInv ==
    ASSUME TInv, AInv, NEW v \in Nodes, ProcessValidatorUnstake(v)
    PROVE  AInv'
<1> DEFINE k == -ownTx[v]
<1>1. CASE Fail("validator")
  BY <1>1, FailInv, Zenon DEF Reasons
<1>2. CASE /\ cancelValidatorStake(v, k * StakeUnit)
           /\ ownTx' = [ownTx EXCEPT ![v] = 0]
           /\ UNCHANGED <<ledgerVars, elTx, diversion, sysTx, rowVars, failure, fgr, historyVars>>
  <2>1. ownTx[v] < 0
    BY Zenon DEF ProcessValidatorUnstake
  <2>2. UNCHANGED <<ownDeposit, deposit, ownRows, rows, elTx, diversion, sysTx, failure, diverted,
                    reentered>>
    BY <1>2, Zenon DEF ledgerVars, rowVars, historyVars
  <2>3. NoRows /\ sysTx = NoStake
    <3>1. ~NoOwnTx
      BY <2>1 DEF NoOwnTx
    <3> QED
      BY <3>1, Zenon DEF AInv, OneAtATime, NoBatch
  <2>4. OneAtATime' /\ (diversion' # NoTx => diverted') /\ (~diverted' => Plain')
    BY <2>2, <2>3, BatchStep, Zenon
  <2>5. ASSUME failure' = "none", ~diverted'
        PROVE  Agreement'
    <3>1. Agreement /\ k \in Nat \ {0} /\ k <= SlotsFilled[v]
      BY <2>1, <2>2, <2>5, ValidatorHasSlots DEF AInv
    <3>2. OwnPool' /\ SlotsFilled' = [SlotsFilled EXCEPT ![v] = @ - k]
      <4> HIDE DEF k
      <4> QED
        BY <1>2, <3>1, CancelOwn, Zenon DEF Agreement, TInv, TypeOK
    <3>3. OwnBalance'
      <4> SUFFICES ASSUME NEW w \in Nodes
                   PROVE  SlotsFilled'[w] + ownTx'[w] + ownRows[w] = ownDeposit[w]
        BY <2>2, Zenon DEF OwnBalance
      <4>1. /\ SlotsFilled[w] + ownTx[w] + ownRows[w] = ownDeposit[w]
            /\ SlotsFilled[w] \in Int /\ ownTx[w] \in Int /\ ownRows[w] \in Int
            /\ SlotsFilled'[w] = SlotsFilled[w] - (IF w = v THEN -ownTx[w] ELSE 0)
            /\ ownTx'[w] = IF w = v THEN 0 ELSE ownTx[w]
        BY <1>2, <3>1, <3>2 DEF Agreement, OwnBalance, TInv, TypeOK, PoolTypeOK, Address
      <4> QED
        BY <4>1
    <3>4. OneSide' /\ ElectorBalance'
      BY <1>2, <2>2, <3>1, CancelSides, Zenon DEF Agreement, TInv
    <3> QED
      BY <3>2, <3>3, <3>4, Zenon DEF Agreement
  <2> QED
    BY <2>4, <2>5, Zenon DEF AInv
<1> QED
  BY <1>1, <1>2, Zenon DEF ProcessValidatorUnstake

\* A validator's rows, from Init.
LEMMA LoadValidatorInv ==
    ASSUME TInv, AInv, NEW v \in Address, NEW slots \in 1 .. SlotsLimit, LoadValidator(v, slots)
    PROVE  AInv'
<1>1. /\ slots \in Nat \ {0} /\ ownRows[v] \in Nat /\ slots <= ownRows[v]
      /\ failure = "none" /\ ownRows \in [Address -> Nat]
  BY StakePoolAssumption DEF LoadValidator, TInv, TypeOK
<1>2. NoBatch
  BY <1>1 DEF AInv, OneAtATime, NoRows, NoSlots
<1>3. CASE /\ failure' = "init"
           /\ UNCHANGED <<poolVars, ledgerVars, batchVars, rowVars, historyVars>>
  <2>1. OneAtATime' /\ (diversion' # NoTx => diverted') /\ (~diverted' => Plain')
    BY <1>3 DEF AInv, OneAtATime, NoBatch, NoOwnTx, NoRows, Plain, ledgerVars, batchVars, rowVars,
                historyVars
  <2> QED
    BY <1>3, <2>1, Zenon DEF AInv
<1>4. CASE /\ registerValidatorStake(v, slots * StakeUnit)
           /\ NoteRegistered(v)
           /\ ownRows' = [ownRows EXCEPT ![v] = @ - slots]
           /\ UNCHANGED <<ledgerVars, batchVars, rows, failure>>
  <2>1. UNCHANGED <<ownDeposit, deposit, ownTx, elTx, diversion, sysTx, rows, failure, diverted>>
    BY <1>4, Zenon DEF ledgerVars, batchVars, NoteRegistered
  <2>2. OneAtATime' /\ (diversion' # NoTx => diverted')
    BY <1>2, <2>1, Zenon DEF AInv, OneAtATime, NoBatch, NoOwnTx
  <2>3. ASSUME ~diverted' PROVE v \in Nodes /\ Plain'
    <3>1. Plain
      BY <2>1, <2>3, Zenon DEF AInv
    <3>2. v \in Nodes
      BY <1>1, <3>1 DEF Plain
    <3>3. \A t \in Address \ Nodes : ownRows'[t] = ownRows[t]
      BY <1>1, <1>4, <3>2, Zenon
    <3> QED
      BY <2>1, <3>1, <3>2, <3>3 DEF Plain
  <2>4. ASSUME ~diverted' PROVE Agreement'
    <3>1. Agreement /\ v \in Nodes
      BY <1>1, <2>1, <2>3, <2>4, Zenon DEF AInv
    <3>2. /\ SlotsFilled[v] \in Nat /\ ownDeposit[v] \in Nat
          /\ SlotsFilled[v] + slots \in Nat /\ SlotsFilled[v] + slots <= ownDeposit[v]
      <4>1. SlotsFilled[v] \in Nat /\ ownDeposit[v] \in Nat /\ SlotsFilled[v] + 0 + ownRows[v] = ownDeposit[v]
        BY <1>2, <3>1, Zenon DEF Agreement, OwnBalance, OwnPool, NoBatch, NoOwnTx, TInv, TypeOK
      <4> QED
        BY <1>1, <4>1
    <3>3. (SlotsFilled[v] + slots) * StakeUnit < Word
      BY <3>2, PartFits, Zenon DEF TInv, OwnFits
    <3>4. OwnPool' /\ SlotsFilled' = [SlotsFilled EXCEPT ![v] = @ + slots]
      BY <1>1, <1>4, <3>1, <3>3, RegisterOwn, Zenon DEF Agreement, TInv, TypeOK
    <3>5. OwnBalance'
      <4> SUFFICES ASSUME NEW w \in Nodes
                   PROVE  SlotsFilled'[w] + ownTx[w] + ownRows'[w] = ownDeposit[w]
        BY <2>1, Zenon DEF OwnBalance
      <4>1. /\ SlotsFilled[w] + ownTx[w] + ownRows[w] = ownDeposit[w]
            /\ SlotsFilled[w] \in Int /\ ownTx[w] \in Int /\ ownRows[w] \in Int
            /\ SlotsFilled'[w] = SlotsFilled[w] + (IF w = v THEN slots ELSE 0)
            /\ ownRows'[w] = ownRows[w] - (IF w = v THEN slots ELSE 0)
        BY <1>1, <1>4, <3>1, <3>4 DEF Agreement, OwnBalance, TInv, TypeOK, PoolTypeOK, Address
      <4> QED
        BY <1>1, <4>1
    <3>6. OneSide' /\ ElectorBalance'
      BY <1>4, <2>1, <3>1, RegisterSides, Zenon DEF Agreement
    <3> QED
      BY <3>4, <3>5, <3>6, Zenon DEF Agreement
  <2> QED
    BY <2>2, <2>3, <2>4, Zenon DEF AInv
<1> QED
  BY <1>3, <1>4, Zenon DEF LoadValidator
=============================================================================
