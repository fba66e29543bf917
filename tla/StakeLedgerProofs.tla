------------------------- MODULE StakeLedgerProofs -------------------------
(***************************************************************************)
(* Proofs that the staking pool agrees with the deposits it caches: the    *)
(* electors' stake, diversions, restarts, and the theorems.                *)
(***************************************************************************)
EXTENDS StakeLedgerAgreement

(* Electors' transactions and rows.                                        *)

\* A table is the same as before except, perhaps, for elector e on node v.
SameElsewhere(old, new, v, e) ==
    \A w \in Nodes, d \in Stakers : w # v \/ d # e => new[w][d] = old[w][d]

SameRowsElsewhere(v, e) ==
    \A w \in Nodes, d \in Stakers : w # v \/ d # e => rows'[w][d][d] = rows[w][d][d]

\* The coins of elector e on node v are in order after the step.
InOrderAfter(v, e) ==
    /\ v \in validators => unstakedSnapshot'[v][e] = 0
    /\ v \notin validators => Electors'[v][e] = 0
    /\ Electors'[v][e] + unstakedSnapshot'[v][e] + elTx'[v][e] + rows'[v][e][e]
          = deposit[v][e][e] + sysTx'[v][e]

\* Each of the three methods touches one elector on one node.
LEMMA MethodTouchesOne ==
    ASSUME TypeOK, NEW v \in Nodes, NEW e \in Stakers, NEW amount \in Uint,
           \/ registerElectorStake(e, v, amount)
           \/ cancelElectorStake(e, v, amount)
           \/ processSystemUnstakeTx(e, v, amount)
    PROVE  /\ SameElsewhere(Electors, Electors', v, e)
           /\ SameElsewhere(unstakedSnapshot, unstakedSnapshot', v, e)
<1> USE DEF SameElsewhere, TypeOK, PoolTypeOK, StakeMap, Address
<1>1. CASE registerElectorStake(e, v, amount)
  BY <1>1 DEF registerElectorStake, SystemUnstakeElector
<1>2. CASE cancelElectorStake(e, v, amount)
  BY <1>2, Zenon DEF cancelElectorStake
<1>3. CASE processSystemUnstakeTx(e, v, amount)
  BY <1>3, Zenon DEF processSystemUnstakeTx, stakeVars
<1> QED
  BY <1>1, <1>2, <1>3, Zenon

\* A step that touches one elector on one node and leaves its coins in order
\* preserves the agreement.
LEMMA OneElector ==
    ASSUME TypeOK, Agreement, NEW v \in Nodes, NEW e \in Stakers, NEW amount \in Uint,
           \/ registerElectorStake(e, v, amount)
           \/ cancelElectorStake(e, v, amount)
           \/ processSystemUnstakeTx(e, v, amount),
           UNCHANGED <<reentered, deposit, ownDeposit, ownTx, ownRows>>,
           SameElsewhere(elTx, elTx', v, e),
           SameElsewhere(sysTx, sysTx', v, e),
           SameRowsElsewhere(v, e),
           v \notin reentered => InOrderAfter(v, e)
    PROVE  Agreement'
<1>1. UNCHANGED <<validators, SlotsFilled, SelfStake>>
  BY ElectorTyped, Zenon DEF TypeOK, Address
<1>2. OwnPool' /\ OwnBalance'
  BY <1>1, Zenon DEF Agreement, OwnPool, OwnBalance
<1>3. /\ SameElsewhere(Electors, Electors', v, e)
      /\ SameElsewhere(unstakedSnapshot, unstakedSnapshot', v, e)
  BY MethodTouchesOne, Zenon
<1>4. ASSUME NEW w \in Nodes \ reentered, NEW d \in Stakers
      PROVE  InOrderAfter(w, d)
  <2>1. CASE w = v /\ d = e
    BY <2>1, Zenon
  <2>2. CASE w # v \/ d # e
    <3>1. /\ Electors'[w][d] = Electors[w][d] /\ unstakedSnapshot'[w][d] = unstakedSnapshot[w][d]
          /\ elTx'[w][d] = elTx[w][d] /\ sysTx'[w][d] = sysTx[w][d]
          /\ rows'[w][d][d] = rows[w][d][d]
      BY <1>3, <2>2, Zenon DEF SameElsewhere, SameRowsElsewhere
    <3>2. /\ w \in validators => unstakedSnapshot[w][d] = 0
          /\ w \notin validators => Electors[w][d] = 0
          /\ Electors[w][d] + unstakedSnapshot[w][d] + elTx[w][d] + rows[w][d][d]
                = deposit[w][d][d] + sysTx[w][d]
      BY Zenon DEF Agreement, OneSide, ElectorBalance
    <3> QED
      BY ONLY <3>1, <3>2, Zenon DEF InOrderAfter
  <2> QED
    BY <2>1, <2>2, Zenon
<1>5. OneSide' /\ ElectorBalance'
  BY <1>1, <1>4, Zenon DEF OneSide, ElectorBalance, InOrderAfter
<1> QED
  BY <1>2, <1>5, Zenon DEF Agreement

\* registerElectorStake adds the amount on the side the elector's coins are on.
LEMMA RegisterElectorAdds ==
    ASSUME TypeOK, OneSide, NEW v \in Nodes \ reentered, NEW e \in Stakers,
           NEW amount \in Uint,
           Electors[v][e] + unstakedSnapshot[v][e] + amount < Word,
           registerElectorStake(e, v, amount)
    PROVE  /\ Electors'[v][e] + unstakedSnapshot'[v][e]
                 = Electors[v][e] + unstakedSnapshot[v][e] + amount
           /\ v \in validators => unstakedSnapshot'[v][e] = 0
           /\ v \notin validators => Electors'[v][e] = 0
<1>0. /\ v \in Address /\ e \in Address
      /\ Electors \in StakeMap /\ unstakedSnapshot \in StakeMap
  BY Zenon DEF Address, TypeOK, PoolTypeOK
<1>1. Electors[v][e] \in Uint /\ unstakedSnapshot[v][e] \in Uint
  BY <1>0, Zenon DEF StakeMap
<1>2. CASE v \in validators
  <2>1. unstakedSnapshot[v][e] = 0
    BY <1>2, Zenon DEF OneSide
  <2>2. Add(Electors[v][e], amount) = Electors[v][e] + amount
    BY <1>1, <2>1, StakePoolAssumption DEF Add, Uint
  <2>3. Electors'[v][e] = Electors[v][e] + amount /\ unstakedSnapshot'[v][e] = 0
    BY <1>0, <1>2, <2>1, <2>2 DEF registerElectorStake, StakeMap
  <2> QED
    BY <1>1, <1>2, <2>1, <2>3 DEF Uint
<1>3. CASE v \notin validators
  <2>1. Electors[v][e] = 0
    BY <1>3, Zenon DEF OneSide
  <2>2. Add(unstakedSnapshot[v][e], amount) = unstakedSnapshot[v][e] + amount
    BY <1>1, <2>1, StakePoolAssumption DEF Add, Uint
  <2>3. unstakedSnapshot'[v][e] = unstakedSnapshot[v][e] + amount /\ Electors'[v][e] = 0
    BY <1>0, <1>3, <2>1, <2>2 DEF registerElectorStake, SystemUnstakeElector, StakeMap
  <2> QED
    BY <1>1, <1>3, <2>1, <2>3 DEF Uint
<1> QED
  BY <1>2, <1>3, Zenon

\* An elector's stake, from a block.
LEMMA ProcessElectorStakeInv ==
    ASSUME TInv, AInv, NEW v \in Nodes, NEW e \in Stakers, ProcessElectorStake(v, e)
    PROVE  AInv'
<1> DEFINE amount == elTx[v][e]
<1>1. amount \in Uint /\ amount > 0
  BY ElectorAmounts, Zenon DEF ProcessElectorStake, TInv
<1>2. /\ registerElectorStake(e, v, amount)
      /\ UNCHANGED <<ownDeposit, deposit, ownTx, diversion, sysTx, ownRows, rows, failure,
                     diverted, reentered>>
      /\ elTx' = [elTx EXCEPT ![v][e] = 0]
  BY Zenon DEF ProcessElectorStake, ledgerVars, rowVars, historyVars
<1>3. elTx'[v][e] = 0 /\ SameElsewhere(elTx, elTx', v, e)
  BY <1>2, Zenon DEF TInv, TypeOK, MoveMap, SameElsewhere
<1>4. NoRows /\ sysTx = NoStake
  <2>1. elTx # NoMoves
    BY <1>1 DEF NoMoves
  <2> QED
    BY <2>1, Zenon DEF AInv, OneAtATime, NoBatch
<1> HIDE DEF amount
<1>5. OneAtATime' /\ (diversion' # NoTx => diverted') /\ (~diverted' => Plain')
  BY <1>2, <1>4, BatchStep, Zenon
<1>6. ASSUME failure' = "none", ~diverted'
      PROVE  Agreement'
  <2>1. Agreement
    BY <1>2, <1>6, Zenon DEF AInv
  <2>2. ASSUME v \notin reentered PROVE InOrderAfter(v, e)
    <3>1. CoinsTyped(v, e) /\ rows[v][e][e] = 0 /\ sysTx[v][e] = 0
      BY <1>4, TypeOfCoins, Zenon DEF NoRows, NoDeposit, NoStake, TInv, Address
    <3>2. Electors[v][e] + unstakedSnapshot[v][e] + amount + rows[v][e][e]
             = deposit[v][e][e] + sysTx[v][e]
      BY <2>1, <2>2 DEF Agreement, ElectorBalance, amount
    <3>3. /\ Electors[v][e] + unstakedSnapshot[v][e] + amount = deposit[v][e][e]
          /\ deposit[v][e][e] < Word /\ deposit[v][e][e] \in Nat
      BY <1>1, <3>1, <3>2, StakePoolAssumption, StakeLedgerAssumption DEF CoinsTyped, Uint
    <3>4. /\ Electors'[v][e] + unstakedSnapshot'[v][e] = deposit[v][e][e]
          /\ v \in validators => unstakedSnapshot'[v][e] = 0
          /\ v \notin validators => Electors'[v][e] = 0
      BY <1>1, <1>2, <2>1, <2>2, <3>3, RegisterElectorAdds, Zenon DEF Agreement, TInv
    <3>5. elTx'[v][e] = 0 /\ rows'[v][e][e] = 0 /\ sysTx'[v][e] = 0
      BY <1>2, <1>3, <3>1, Zenon
    <3>6. Electors'[v][e] + unstakedSnapshot'[v][e] + elTx'[v][e] + rows'[v][e][e]
             = deposit[v][e][e] + sysTx'[v][e]
      BY ONLY <3>3, <3>4, <3>5
    <3> QED
      BY <3>4, <3>6, Zenon DEF InOrderAfter
  <2>3. SameRowsElsewhere(v, e) /\ SameElsewhere(sysTx, sysTx', v, e)
    BY <1>2, Zenon DEF SameRowsElsewhere, SameElsewhere
  <2> QED
    BY <1>1, <1>2, <1>3, <2>1, <2>2, <2>3, OneElector, Zenon DEF TInv
<1> QED
  BY <1>5, <1>6, Zenon DEF AInv

\* An elector's unstake, from a block.
LEMMA ProcessElectorUnstakeInv ==
    ASSUME TInv, AInv, NEW v \in Nodes, NEW e \in Stakers, ProcessElectorUnstake(v, e)
    PROVE  AInv'
<1> DEFINE amount == -elTx[v][e]
<1>0. CASE ~CanCancelElector(e, v) /\ Fail("elector")
  BY <1>0, FailInv, Zenon DEF Reasons
<1> SUFFICES ASSUME cancelElectorStake(e, v, amount),
                    elTx' = [elTx EXCEPT ![v][e] = 0],
                    UNCHANGED <<ledgerVars, ownTx, diversion, sysTx, rowVars, failure, fgr, historyVars>>
             PROVE  AInv'
  BY <1>0 DEF ProcessElectorUnstake
<1>1. amount \in Uint /\ amount > 0 /\ elTx[v][e] = 0 - amount
  <2>1. elTx[v][e] \in -MaxDeposit .. MaxDeposit /\ elTx[v][e] < 0
    BY Zenon DEF TInv, TypeOK, MoveMap, ProcessElectorUnstake
  <2> QED
    BY <2>1, StakePoolAssumption, StakeLedgerAssumption DEF Uint
<1>2. UNCHANGED <<ownDeposit, deposit, ownTx, diversion, sysTx, ownRows, rows, failure,
                  diverted, reentered>>
  BY Zenon DEF ledgerVars, rowVars, historyVars
<1>3. elTx'[v][e] = 0 /\ SameElsewhere(elTx, elTx', v, e)
  BY Zenon DEF TInv, TypeOK, MoveMap, SameElsewhere
<1>4. NoRows /\ sysTx = NoStake
  <2>1. elTx # NoMoves
    BY DEF NoMoves, ProcessElectorUnstake
  <2> QED
    BY <2>1, Zenon DEF AInv, OneAtATime, NoBatch
<1> HIDE DEF amount
<1>5. OneAtATime' /\ (diversion' # NoTx => diverted') /\ (~diverted' => Plain')
  BY <1>2, <1>4, BatchStep, Zenon
<1>6. ASSUME failure' = "none", ~diverted'
      PROVE  Agreement'
  <2>1. Agreement
    BY <1>2, <1>6, Zenon DEF AInv
  <2>2. ASSUME v \notin reentered PROVE InOrderAfter(v, e)
    <3>1. CoinsTyped(v, e) /\ rows[v][e][e] = 0 /\ sysTx[v][e] = 0
      BY <1>4, TypeOfCoins, Zenon DEF NoRows, NoDeposit, NoStake, TInv, Address
    <3>2. v \in validators /\ unstakedSnapshot[v][e] = 0
      BY <2>1, <2>2, Zenon DEF Agreement, OneSide, cancelElectorStake, CanCancelElector
    <3>3. Electors[v][e] + unstakedSnapshot[v][e] + elTx[v][e] + rows[v][e][e]
             = deposit[v][e][e] + sysTx[v][e]
      BY <2>1, <2>2 DEF Agreement, ElectorBalance
    <3>4. Electors[v][e] - amount = deposit[v][e][e] /\ amount <= Electors[v][e]
      BY <1>1, <3>1, <3>2, <3>3, StakePoolAssumption DEF CoinsTyped, Uint
    <3>5. Sub(Electors[v][e], amount) = deposit[v][e][e] /\ ~(0 > amount)
      <4>1. Electors[v][e] \in Uint
        BY DEF TInv, TypeOK, PoolTypeOK, StakeMap, Address
      <4> QED
        BY <1>1, <3>4, <4>1, WordArithmetic, StakePoolAssumption DEF Uint
    <3>6. Electors'[v][e] = deposit[v][e][e] /\ unstakedSnapshot'[v][e] = 0
      BY <3>2, <3>5, Zenon DEF cancelElectorStake, TInv, TypeOK, PoolTypeOK, StakeMap, Address
    <3>7. elTx'[v][e] = 0 /\ rows'[v][e][e] = 0 /\ sysTx'[v][e] = 0 /\ deposit[v][e][e] \in Nat
      BY <1>2, <1>3, <3>1, Zenon DEF CoinsTyped
    <3>8. Electors'[v][e] + unstakedSnapshot'[v][e] + elTx'[v][e] + rows'[v][e][e]
             = deposit[v][e][e] + sysTx'[v][e]
      BY ONLY <3>6, <3>7
    <3> QED
      BY <3>2, <3>6, <3>8, Zenon DEF InOrderAfter
  <2>3. SameRowsElsewhere(v, e) /\ SameElsewhere(sysTx, sysTx', v, e)
    BY <1>2, Zenon DEF SameRowsElsewhere, SameElsewhere
  <2> QED
    BY <1>1, <1>2, <1>3, <2>1, <2>2, <2>3, OneElector, Zenon DEF TInv
<1> QED
  BY <1>5, <1>6, Zenon DEF AInv

\* Coins the system returns, from a block of system unstakes.
LEMMA ProcessSystemUnstakeInv ==
    ASSUME TInv, AInv, NEW v \in Address, NEW e \in Address, ProcessSystemUnstake(v, e)
    PROVE  AInv'
<1> DEFINE amount == sysTx[v][e]
<1>0. CASE ~CanSystemUnstake(e, v) /\ Fail("snapshot")
  BY <1>0, FailInv, Zenon DEF Reasons
<1> SUFFICES ASSUME processSystemUnstakeTx(e, v, amount),
                    sysTx' = [sysTx EXCEPT ![v][e] = 0],
                    UNCHANGED <<ledgerVars, ownTx, elTx, diversion, rowVars, failure, fgr, historyVars>>
             PROVE  AInv'
  BY <1>0, Zenon DEF ProcessSystemUnstake
<1>1. amount \in Uint /\ amount > 0
  <2>1. amount \in 0 .. MaxDeposit /\ amount > 0
    BY Zenon DEF TInv, TypeOK, ProcessSystemUnstake
  <2> QED
    BY <2>1, StakePoolAssumption, StakeLedgerAssumption DEF Uint
<1>2. UNCHANGED <<ownDeposit, deposit, ownTx, elTx, diversion, ownRows, rows, failure,
                  diverted, reentered>>
  BY Zenon DEF ledgerVars, rowVars, historyVars
<1>3. /\ sysTx'[v][e] = 0
      /\ \A w, d \in Address : sysTx'[w][d] = IF w = v /\ d = e THEN 0 ELSE sysTx[w][d]
  BY Zenon DEF TInv, TypeOK
<1>4. NoRows /\ NoOwnTx /\ elTx = NoMoves
  <2>1. sysTx # NoStake
    BY <1>1 DEF NoStake
  <2> QED
    BY <2>1, Zenon DEF AInv, OneAtATime, NoBatch
<1> HIDE DEF amount
<1>5. OneAtATime' /\ (diversion' # NoTx => diverted')
  BY <1>2, <1>4, Zenon DEF AInv, OneAtATime, NoRows, NoOwnTx
<1>6. ASSUME ~diverted' PROVE Plain'
  BY <1>2, <1>3, <1>6 DEF AInv, Plain
<1>7. ASSUME failure' = "none", ~diverted'
      PROVE  Agreement'
  <2>1. Agreement /\ Plain
    BY <1>2, <1>7, Zenon DEF AInv
  <2>0. v \in Nodes /\ e \in Stakers
    BY <1>1, <2>1 DEF Plain, amount
  <2>2. ASSUME v \notin reentered PROVE InOrderAfter(v, e)
    <3>1. CoinsTyped(v, e) /\ rows[v][e][e] = 0 /\ elTx[v][e] = 0
      BY <1>4, <2>0, TypeOfCoins, Zenon DEF NoRows, NoDeposit, NoMoves, TInv
    <3>2. v \notin validators /\ Electors[v][e] = 0
      BY <2>0, <2>1, <2>2, Zenon DEF Agreement, OneSide, processSystemUnstakeTx, CanSystemUnstake
    <3>3. Electors[v][e] + unstakedSnapshot[v][e] + elTx[v][e] + rows[v][e][e]
             = deposit[v][e][e] + amount
      BY <2>0, <2>1, <2>2, Zenon DEF Agreement, ElectorBalance, amount
    <3>4. Sub(unstakedSnapshot[v][e], amount) = deposit[v][e][e]
      <4>1. unstakedSnapshot[v][e] \in Uint
        BY DEF TInv, TypeOK, PoolTypeOK, StakeMap
      <4>2. unstakedSnapshot[v][e] = deposit[v][e][e] + amount /\ deposit[v][e][e] \in Nat
        BY <1>1, <3>1, <3>2, <3>3, StakePoolAssumption DEF CoinsTyped, Uint
      <4>3. amount <= unstakedSnapshot[v][e] /\ unstakedSnapshot[v][e] - amount = deposit[v][e][e]
        BY <1>1, <4>2, StakePoolAssumption DEF Uint
      <4> QED
        BY <1>1, <4>1, <4>3, WordArithmetic, Zenon
    <3>5. Electors'[v][e] = 0 /\ unstakedSnapshot'[v][e] = deposit[v][e][e]
      BY <3>2, <3>4, Zenon DEF processSystemUnstakeTx, stakeVars, TInv, TypeOK, PoolTypeOK, StakeMap
    <3>6. elTx'[v][e] = 0 /\ rows'[v][e][e] = 0 /\ sysTx'[v][e] = 0 /\ deposit[v][e][e] \in Nat
      BY <1>2, <1>3, <3>1, Zenon DEF CoinsTyped
    <3>7. Electors'[v][e] + unstakedSnapshot'[v][e] + elTx'[v][e] + rows'[v][e][e]
             = deposit[v][e][e] + sysTx'[v][e]
      BY ONLY <3>5, <3>6
    <3> QED
      BY <3>2, <3>5, <3>7, Zenon DEF InOrderAfter
  <2>3. SameRowsElsewhere(v, e) /\ SameElsewhere(elTx, elTx', v, e)
    BY <1>2, Zenon DEF SameRowsElsewhere, SameElsewhere
  <2>4. SameElsewhere(sysTx, sysTx', v, e)
    BY <1>3 DEF SameElsewhere, Address
  <2> QED
    BY <1>1, <1>2, <2>0, <2>1, <2>2, <2>3, <2>4, OneElector, Zenon DEF TInv
<1> QED
  BY <1>5, <1>6, <1>7, Zenon DEF AInv

\* An elector's rows, from Init.
LEMMA LoadElectorInv ==
    ASSUME TInv, AInv, NEW v \in Address, NEW f \in Address, NEW t \in Address,
           NEW coins \in 1 .. MaxDeposit, LoadElector(v, f, t, coins)
    PROVE  AInv'
<1>1. coins \in Uint /\ coins > 0
  BY StakePoolAssumption, StakeLedgerAssumption DEF Uint
<1>2. /\ registerElectorStake(f, v, coins)
      /\ UNCHANGED <<ownDeposit, deposit, ownTx, elTx, diversion, sysTx, ownRows, failure,
                     diverted, reentered>>
  BY Zenon DEF LoadElector, ledgerVars, batchVars, historyVars
<1>3. /\ rows[v][f][t] \in 0 .. MaxDeposit /\ coins <= rows[v][f][t] /\ rows[v][f][t] > 0
      /\ \A w, g, s \in Address : rows'[w][g][s] =
            IF w = v /\ g = f /\ s = t THEN rows[v][f][t] - coins ELSE rows[w][g][s]
  <2>1. rows \in DepositMap /\ coins <= rows[v][f][t]
    BY Zenon DEF TInv, TypeOK, LoadElector
  <2>2. rows[v][f][t] \in 0 .. MaxDeposit
    BY <2>1, Zenon DEF DepositMap
  <2>3. \A w, g, s \in Address : rows'[w][g][s] =
           IF w = v /\ g = f /\ s = t THEN rows[v][f][t] - coins ELSE rows[w][g][s]
    BY <2>1, Zenon DEF DepositMap, LoadElector
  <2> QED
    BY <2>1, <2>2, <2>3, StakeLedgerAssumption
<1>4. NoBatch
  <2>1. rows # NoDeposit
    BY <1>3 DEF NoDeposit
  <2> QED
    BY <2>1, Zenon DEF AInv, OneAtATime, NoRows
<1>5. OneAtATime' /\ (diversion' # NoTx => diverted')
  BY <1>2, <1>4, Zenon DEF AInv, OneAtATime, NoBatch, NoOwnTx
<1>6. ASSUME ~diverted PROVE v \in Nodes /\ t \in Stakers /\ f = t
  BY <1>3, <1>6 DEF AInv, Plain
<1>7. ASSUME ~diverted' PROVE Plain'
  BY <1>2, <1>3, <1>6, <1>7 DEF AInv, Plain
<1>8. ASSUME failure' = "none", ~diverted'
      PROVE  Agreement'
  <2>0. v \in Nodes /\ t \in Stakers /\ f = t
    BY <1>2, <1>6, <1>8, Zenon
  <2>1. Agreement
    BY <1>2, <1>8, Zenon DEF AInv
  <2>2. ASSUME v \notin reentered PROVE InOrderAfter(v, t)
    <3>1. CoinsTyped(v, t) /\ elTx[v][t] = 0 /\ sysTx[v][t] = 0 /\ coins <= rows[v][t][t]
      BY <1>3, <1>4, <2>0, TypeOfCoins, Zenon DEF NoBatch, NoMoves, NoStake, TInv
    <3>2. Electors[v][t] + unstakedSnapshot[v][t] + elTx[v][t] + rows[v][t][t]
             = deposit[v][t][t] + sysTx[v][t]
      BY <2>0, <2>1, <2>2 DEF Agreement, ElectorBalance
    <3>3. Electors[v][t] + unstakedSnapshot[v][t] + coins < Word
      <4>1. coins \in Nat /\ MaxDeposit \in Nat /\ MaxDeposit < Word /\ Word \in Nat
        BY <1>1, StakePoolAssumption, StakeLedgerAssumption DEF Uint
      <4> QED
        BY ONLY <3>1, <3>2, <4>1 DEF CoinsTyped
    <3>4. /\ Electors'[v][t] + unstakedSnapshot'[v][t]
                = Electors[v][t] + unstakedSnapshot[v][t] + coins
          /\ v \in validators => unstakedSnapshot'[v][t] = 0
          /\ v \notin validators => Electors'[v][t] = 0
      BY <1>1, <1>2, <2>0, <2>1, <2>2, <3>3, RegisterElectorAdds DEF Agreement, TInv
    <3>5. elTx'[v][t] = 0 /\ sysTx'[v][t] = 0 /\ rows'[v][t][t] = rows[v][t][t] - coins
      BY <1>2, <1>3, <2>0, <3>1, Zenon
    <3>6. Electors'[v][t] + unstakedSnapshot'[v][t] + elTx'[v][t] + rows'[v][t][t]
             = deposit[v][t][t] + sysTx'[v][t]
      <4>1. coins \in Nat
        BY <1>1, StakePoolAssumption DEF Uint
      <4> QED
        BY ONLY <3>1, <3>2, <3>4, <3>5, <4>1 DEF CoinsTyped
    <3> QED
      BY <3>4, <3>6, Zenon DEF InOrderAfter
  <2>3. SameElsewhere(elTx, elTx', v, t) /\ SameElsewhere(sysTx, sysTx', v, t)
    BY <1>2, Zenon DEF SameElsewhere
  <2>4. SameRowsElsewhere(v, t)
    BY <1>3, <2>0 DEF SameRowsElsewhere, Address
  <2> QED
    BY <1>1, <1>2, <2>0, <2>1, <2>2, <2>3, <2>4, OneElector DEF TInv
<1> QED
  BY <1>5, <1>7, <1>8, Zenon DEF AInv

-----------------------------------------------------------------------------
(* Diversions, the forger, restarts.                                       *)

\* Nothing is claimed of the pool's contents after a diversion.
LEMMA ProcessDiversionInv ==
    ASSUME AInv, ProcessDiversion
    PROVE  AInv'
<1>1. diversion # NoTx /\ diverted
  BY Zenon DEF ProcessDiversion, AInv
<1>2. CASE \E reason \in Reasons \ {"none"} : Fail(reason)
  BY <1>2, FailInv, Zenon
<1>3. CASE /\ historyVars' = historyVars \/ NoteRegistered(diversion.from)
           /\ diversion' = NoTx
           /\ UNCHANGED <<ledgerVars, ownTx, elTx, sysTx, rowVars, failure>>
  <2>1. diverted' /\ UNCHANGED <<ownTx, elTx, sysTx, ownRows, rows>> /\ diversion' = NoTx
    BY <1>1, <1>3, Zenon DEF historyVars, NoteRegistered, rowVars
  <2>2. NoRows'
    BY <1>1, <2>1, Zenon DEF AInv, OneAtATime, NoBatch, NoRows
  <2>3. OneAtATime'
    BY <2>1, <2>2, Zenon DEF AInv, OneAtATime, NoOwnTx
  <2> QED
    BY <2>1, <2>3, Zenon DEF AInv
<1> QED
  BY <1>2, <1>3, Zenon DEF ProcessDiversion, Reasons

\* A step that leaves the pool's stake, the ledger and the batch as they are.
LEMMA SameStake ==
    ASSUME AInv,
           UNCHANGED <<stakeVars, unstakedSnapshot, ledgerVars, batchVars, rowVars, failure,
                       historyVars>>
    PROVE  AInv'
<1> USE DEF stakeVars, ledgerVars, batchVars, rowVars, historyVars
<1>1. OneAtATime'
  BY Zenon DEF AInv, OneAtATime, NoBatch, NoRows, NoOwnTx
<1>2. Plain => Plain'
  BY SMT DEF Plain
<1>3. OwnPool /\ OwnBalance => OwnPool' /\ OwnBalance'
  BY SMT DEF OwnPool, OwnBalance
<1>4. OneSide /\ ElectorBalance => OneSide' /\ ElectorBalance'
  BY SMT DEF OneSide, ElectorBalance
<1>5. UNCHANGED <<diversion, diverted, failure>>
  BY Zenon
<1> QED
  BY <1>1, <1>2, <1>3, <1>4, <1>5 DEF AInv, Agreement

\* Resetting the reservations and the steps of the forger are such steps.
LEMMA ReservingInv ==
    ASSUME AInv, BeginStaking \/ Forge
    PROVE  AInv'
<1>1. CASE BeginStaking
  BY <1>1, SameStake, Zenon DEF BeginStaking, ResetReserved
<1>2. CASE Forge
  <2>1. \E next : ForgerStep(next)
    BY Zenon, <1>2 DEF Forge, BeginForging, CanValidatorStake, ReadFilled, ReadReserved, AddReserved,
                EndForging
  <2> QED
    BY <2>1, SameStake, Zenon DEF ForgerStep
<1> QED
  BY <1>1, <1>2, Zenon

\* A restart forgets the pool and everything pending; the rows are read again.
LEMMA RestartInv ==
    ASSUME TInv, AInv, Restart
    PROVE  AInv'
<1>0. Nodes \subseteq Address /\ Stakers \subseteq Address
  BY Zenon DEF Address
<1>1. OneAtATime' /\ diversion' = NoTx
  BY Zenon DEF Restart, OneAtATime, NoBatch, NoOwnTx
<1>2. ASSUME ~diverted' PROVE Plain'
  BY <1>2, Zenon DEF Restart, AInv, Plain, NoStake, ledgerVars
<1>3. OwnPool'
  <2>1. 0 * StakeUnit = 0
    BY StakePoolAssumption
  <2> QED
    BY <1>0, <2>1 DEF Restart, OwnPool, NoSlots
<1>4. OwnBalance'
  <2> SUFFICES ASSUME NEW v \in Nodes
               PROVE  SlotsFilled'[v] + ownTx'[v] + ownRows'[v] = ownDeposit'[v]
    BY Zenon DEF OwnBalance
  <2>1. SlotsFilled'[v] = 0 /\ ownTx'[v] = 0 /\ ownRows'[v] = ownDeposit[v]
        /\ ownDeposit'[v] = ownDeposit[v] /\ ownDeposit[v] \in Nat
    BY <1>0, Zenon DEF Restart, NoSlots, ledgerVars, TInv, TypeOK
  <2> QED
    BY ONLY <2>1
<1>5. OneSide'
  BY <1>0, Zenon DEF Restart, OneSide, NoStake
<1>6. ElectorBalance'
  <2> SUFFICES ASSUME NEW v \in Nodes, NEW e \in Stakers
               PROVE  Electors'[v][e] + unstakedSnapshot'[v][e] + elTx'[v][e] + rows'[v][e][e]
                          = deposit'[v][e][e] + sysTx'[v][e]
    BY Zenon DEF ElectorBalance
  <2>1. /\ Electors'[v][e] = 0 /\ unstakedSnapshot'[v][e] = 0 /\ elTx'[v][e] = 0
        /\ sysTx'[v][e] = 0
        /\ rows'[v][e][e] = deposit[v][e][e] /\ deposit'[v][e][e] = deposit[v][e][e]
    BY <1>0, Zenon DEF Restart, NoStake, NoMoves, ledgerVars
  <2>2. deposit[v][e][e] \in Nat
    BY TypeOfCoins, Zenon DEF CoinsTyped, TInv
  <2> QED
    BY ONLY <2>1, <2>2
<1> QED
  BY <1>1, <1>2, <1>3, <1>4, <1>5, <1>6, Zenon DEF AInv, Agreement

\* Every step preserves the agreement.
LEMMA NextInv == TInv /\ AInv /\ [Next]_vars => AInv'
<1> SUFFICES ASSUME TInv, AInv, [Next]_vars PROVE AInv'
  BY Zenon
<1>1. CASE Commit
  BY <1>1, FinalizeBlockInv, FinalizeSystemBlockInv, Zenon DEF Commit
<1>2. CASE FinalizeStaking
  BY <1>2, ReservingInv, ProcessDiversionInv, ProcessValidatorStakeInv,
     ProcessValidatorUnstakeInv, ProcessElectorStakeInv, ProcessElectorUnstakeInv,
     ProcessSystemUnstakeInv DEF FinalizeStaking
<1>3. CASE Forge
  BY <1>3, ReservingInv, Zenon
<1>4. CASE Restart
  BY <1>4, RestartInv, Zenon
<1>5. CASE Load
  BY <1>5, LoadValidatorInv, LoadElectorInv, Zenon DEF Load
<1>6. CASE UNCHANGED vars
  BY <1>6, SameStake, Zenon DEF vars, poolVars
<1> QED
  BY <1>1, <1>2, <1>3, <1>4, <1>5, <1>6, Zenon DEF Next

-----------------------------------------------------------------------------
(* The theorems.                                                           *)

\* Every transaction of a block and every row of the ledger is counted in exactly
\* one place, in every reachable state.
THEOREM Invariance == Spec => [](TInv /\ AInv)
BY InitInv, NextInv, TypesAndSlots, PTL DEF Spec

\* Between blocks, while no FinalizeStaking has failed since the start and no
\* diversion is in the chain, slots, self stake and the set of validators are
\* those of the ledger.
THEOREM OwnStakeCorrect == Spec => []OwnStakeAgrees
<1>1. TInv /\ AInv => OwnStakeAgrees
  <2> SUFFICES ASSUME TInv, AInv, Settled, ~diverted, NEW v \in Nodes
               PROVE  /\ SlotsFilled[v] = ownDeposit[v]
                      /\ SelfStake[v] = ownDeposit[v] * StakeUnit
                      /\ v \in validators <=> ownDeposit[v] > 0
    BY Zenon DEF OwnStakeAgrees
  <2>0. v \in Address
    BY Zenon DEF Address
  <2>1. Agreement
    BY Zenon DEF AInv, Settled
  <2>2. ownTx[v] = 0 /\ ownRows[v] = 0
    BY <2>0, Zenon DEF Settled, Idle, Running, NoBatch, NoOwnTx, NoRows, NoSlots
  <2>3. SlotsFilled[v] + ownTx[v] + ownRows[v] = ownDeposit[v] /\ SlotsFilled[v] \in Nat
    BY <2>1, Zenon DEF Agreement, OwnPool, OwnBalance
  <2>4. SlotsFilled[v] = ownDeposit[v]
    BY ONLY <2>2, <2>3
  <2> QED
    BY <2>1, <2>4, Zenon DEF Agreement, OwnPool
<1> QED
  BY <1>1, Invariance, PTL

\* In the same states an elector's coins are counted once, on the right side and
\* in full, for every node that did not come back while electors were pending.
THEOREM ElectorStakeCorrect == Spec => []ElectorStakeAgrees
<1>1. TInv /\ AInv => ElectorStakeAgrees
  <2> SUFFICES ASSUME TInv, AInv, Settled, ~diverted, NEW v \in Nodes \ reentered,
                      NEW e \in Stakers
               PROVE  IF v \in validators
                      THEN Electors[v][e] = deposit[v][e][e] /\ unstakedSnapshot[v][e] = 0
                      ELSE unstakedSnapshot[v][e] = deposit[v][e][e]
    BY Zenon DEF ElectorStakeAgrees
  <2>1. /\ Electors[v][e] + unstakedSnapshot[v][e] + elTx[v][e] + rows[v][e][e]
              = deposit[v][e][e] + sysTx[v][e]
        /\ v \in validators => unstakedSnapshot[v][e] = 0
        /\ v \notin validators => Electors[v][e] = 0
    BY Zenon DEF AInv, Settled, Agreement, OneSide, ElectorBalance
  <2>2. elTx[v][e] = 0 /\ rows[v][e][e] = 0 /\ sysTx[v][e] = 0
    BY Zenon DEF Settled, Idle, Running, NoBatch, NoRows, NoMoves, NoDeposit, NoStake, Address
  <2>3. CoinsTyped(v, e)
    BY TypeOfCoins, Zenon DEF TInv
  <2>4. Electors[v][e] \in Nat /\ unstakedSnapshot[v][e] \in Nat /\ deposit[v][e][e] \in Nat
    BY ONLY <2>3, Zenon DEF CoinsTyped
  <2>5. Electors[v][e] + unstakedSnapshot[v][e] = deposit[v][e][e]
    BY ONLY <2>1, <2>2, <2>4
  <2>6. CASE v \in validators
    BY ONLY <2>1, <2>4, <2>5, <2>6
  <2>7. CASE v \notin validators
    BY ONLY <2>1, <2>4, <2>5, <2>7
  <2> QED
    BY ONLY <2>6, <2>7, Zenon
<1> QED
  BY <1>1, Invariance, PTL

\* Until a batch fails or a diversion is committed, cancelValidatorStake finds the
\* validator of every unstake of slots that a block contains.
THEOREM UnstakingValidatorIsFound == Spec => ValidatorIsFound
<1> DEFINE Found == failure = "none" /\ ~diverted => failure' # "validator"
<1>1. TInv /\ AInv /\ [Next]_vars => [Found]_vars
  <2> SUFFICES ASSUME TInv, AInv, Next, failure = "none", ~diverted
               PROVE  failure' # "validator"
    BY Zenon
  <2>1. CASE Commit
    BY <2>1 DEF Commit, FinalizeBlock, FinalizeSystemBlock
  <2>2. ASSUME NEW v \in Nodes, ProcessValidatorUnstake(v)
        PROVE  failure' # "validator"
    <3> DEFINE k == -ownTx[v]
    <3>1. k \in Nat \ {0} /\ v \in validators
      BY <2>2, ValidatorHasSlots, Zenon DEF ProcessValidatorUnstake
    <3>2. CanCancelValidator(v, k * StakeUnit)
      BY <3>1, SlotsOfPrice, Zenon DEF CanCancelValidator
    <3> QED
      BY <2>2, <3>2, Zenon DEF ProcessValidatorUnstake
  <2>3. ASSUME NEW v \in Nodes, ProcessValidatorStake(v)
        PROVE  failure' # "validator"
    BY <2>3, Zenon DEF ProcessValidatorStake, Fail
  <2>4. ASSUME NEW v, NEW e, ProcessElectorStake(v, e) \/ ProcessElectorUnstake(v, e)
                             \/ ProcessSystemUnstake(v, e)
        PROVE  failure' # "validator"
    BY <2>4, Zenon DEF ProcessElectorStake, ProcessElectorUnstake, ProcessSystemUnstake, Fail
  <2>5. ~ProcessDiversion
    BY Zenon DEF ProcessDiversion, AInv
  <2>6. CASE BeginStaking \/ Restart
    BY <2>6, Zenon DEF BeginStaking, Restart
  <2>7. CASE Forge
    BY Zenon, <2>7 DEF Forge, BeginForging, CanValidatorStake, ReadFilled, ReadReserved, AddReserved,
                EndForging, ForgerStep
  <2>8. CASE Load
    BY <2>8, Zenon DEF Load, LoadValidator, LoadElector
  <2> QED
    BY <2>1, <2>2, <2>3, <2>4, <2>5, <2>6, <2>7, <2>8 DEF Next, FinalizeStaking
<1> QED
  BY <1>1, Invariance, PTL DEF Spec, ValidatorIsFound
=============================================================================
