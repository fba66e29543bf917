---------------------------- MODULE StakeLedger ----------------------------
(***************************************************************************)
(* The staking pool beside the deposits table it caches.                   *)
(*                                                                         *)
(* The SQL rows of unspent stake outputs are the truth; the pool is        *)
(* changed transaction by transaction after a block has been committed     *)
(* (core/service.go FinalizeBlock, then StakingPool.FinalizeStaking) and   *)
(* is rebuilt from the rows when the node starts (StakingPool.Init).  The  *)
(* forger of the validator service reserves slots at the same time.        *)
(*                                                                         *)
(* A row names a sender, a recipient and a node.  Rows on BlackHole are    *)
(* told apart by the recipient, the others by all three; amounts of equal  *)
(* rows are added up, and Init loads them back in arbitrary pieces and     *)
(* order, because the query has no ORDER BY.                               *)
(*                                                                         *)
(* A block holds at most one transaction of a sender (the transaction pool *)
(* keeps one per sender).  Those of the shape the node's own generator     *)
(* gives them keep the coins on one node and with their owner: a table of  *)
(* signed amounts, where ownTx[v] > 0 is a stake of that many slots, < 0   *)
(* an unstake, 0 no transaction.  The validator accepts others too, whose  *)
(* stake output is on another node or somebody else's: at most one of      *)
(* these Diversions is in a block, with at most one stake output.          *)
(***************************************************************************)
EXTENDS StakePool, FiniteSetsExt

CONSTANTS
    NoNode, NoTx,   \* no node; no transaction
    Diversions,     \* transactions that move stake to another node or owner
    MaxSlotsPerTx,  \* bound: slots moved by one transaction
    MaxCoinsPerTx,  \* bound: elector coins moved by one transaction
    MaxDeposit,     \* bound: coins of equal rows
    MaxReserve,     \* bound: slots of one reservation
    ElectorsReward  \* electors' part of a block reward

\* A transaction spends slots or coins at one node, the coins by the sender of
\* their rows, and stakes `out` coins on a node for `to`.
DiversionType ==
    [from : Address, at : Address \cup {BlackHole, NoNode},
     slots : Nat, coins : [Address -> Nat],
     on : Address \cup {BlackHole, NoNode}, to : Address, out : Nat]

ASSUME StakeLedgerAssumption ==
    /\ NoNode \notin Address \cup {BlackHole}
    /\ \A d \in Diversions : d \in DiversionType
    /\ NoTx \notin Diversions
    /\ MaxSlotsPerTx \in Nat
    /\ MaxCoinsPerTx \in Nat
    /\ MaxDeposit \in Nat /\ MaxDeposit < Word
    /\ MaxReserve \in Nat
    /\ ElectorsReward \in Nat

VARIABLES
    ownDeposit,     \* SQL: slots' worth of rows to v on BlackHole
    deposit,        \* SQL: deposit[v][f][t], coins in rows of f to t on v
    committed,      \* a block is committed and FinalizeStaking not yet called
    ownTx, elTx,    \* stake and unstake transactions still to be processed
    diversion,      \* the diversion among them
    sysTx,          \* system unstake transactions still to be processed
    ownRows, rows,  \* rows Init has not read yet
    failure,        \* why FinalizeStaking or Init returned an error
    fgr,            \* the forger
    cutShort,       \* history: some batch was abandoned after an error
    reentered,      \* history: v registered while its electors were pending
    known,          \* history: addresses that had rows on BlackHole
    diverted        \* history: a block contained a diversion

ledgerVars == <<ownDeposit, deposit>>
batchVars == <<ownTx, elTx, diversion, sysTx>>
rowVars == <<ownRows, rows>>
historyVars == <<cutShort, reentered, known, diverted>>
vars == <<poolVars, ledgerVars, committed, batchVars, rowVars, failure, fgr, historyVars>>

Reasons == {"none", "slots", "validator", "elector", "snapshot", "init"}
NoSlots == [v \in Address |-> 0]
NoMoves == [v \in Nodes |-> [e \in Stakers |-> 0]]
NoDeposit == [v \in Address |-> [f \in Address |-> [t \in Address |-> 0]]]
DepositMap == [Address -> [Address -> [Address -> 0 .. MaxDeposit]]]
MoveMap == [Nodes -> [Stakers -> -MaxDeposit .. MaxDeposit]]

NotForging == [pc |-> "idle", count |-> 0, slots |-> 0, taken |-> 0, overtaken |-> FALSE]
ForgerType ==
    [pc : {"idle", "loop", "filled", "reserved", "add", "refused"},
     count : Nat, slots : Int, taken : Nat, overtaken : BOOLEAN]

TypeOK ==
    /\ PoolTypeOK
    /\ ownDeposit \in [Address -> Nat]
    /\ deposit \in DepositMap
    /\ committed \in BOOLEAN
    /\ ownTx \in [Nodes -> Int]
    /\ elTx \in MoveMap
    /\ diversion \in Diversions \cup {NoTx}
    /\ sysTx \in [Address -> [Address -> 0 .. MaxDeposit]]
    /\ ownRows \in [Address -> Nat]
    /\ rows \in DepositMap
    /\ failure \in Reasons
    /\ fgr \in ForgerType
    /\ cutShort \in BOOLEAN /\ diverted \in BOOLEAN
    /\ reentered \subseteq Address
    /\ known \subseteq Address

NoOwnTx == ownTx = [v \in Nodes |-> 0]
NoBatch == NoOwnTx /\ elTx = NoMoves /\ diversion = NoTx /\ sysTx = NoStake
NoRows == ownRows = NoSlots /\ rows = NoDeposit
Running == NoRows /\ failure # "init"
Idle == Running /\ NoBatch /\ ~committed

Init ==
    /\ NewPool
    /\ ownDeposit = NoSlots /\ deposit = NoDeposit
    /\ NoBatch /\ committed = FALSE
    /\ NoRows
    /\ failure = "none"
    /\ fgr = NotForging
    /\ cutShort = FALSE /\ diverted = FALSE
    /\ reentered = {} /\ known = {}

-----------------------------------------------------------------------------
(* Committing a block.                                                     *)

SlotMoves == -MaxSlotsPerTx .. MaxSlotsPerTx
CoinMoves == -MaxCoinsPerTx .. MaxCoinsPerTx

\* Unstakes spend rows of their sender.  Nothing bounds the slots of the stakes:
\* the forger reserved them in its own pool, which may lag behind the head,
\* have been restarted, or have lost its reservations to a FinalizeStaking.
ValidOwn(own) == \A v \in Nodes : ownDeposit[v] + own[v] >= 0

\* A stake is checked against the pool when it enters the transaction pool and
\* not again before it is processed, so an elector's validator may be gone by
\* then; it once was one.
ValidElectors(el) ==
    /\ \A v \in Nodes, e \in Stakers :
          /\ deposit[v][e][e] + el[v][e] \in 0 .. MaxDeposit
          /\ el[v][e] > 0 => v \in known
    /\ \A v, w \in Nodes, e \in Stakers :
          el[v][e] # 0 /\ el[w][e] # 0 => v = w

\* What an unstake spends; the rest after its stake output and the fee is paid out.
Spends(d) == d.slots * StakeUnit + MapThenSumSet(LAMBDA f : d.coins[f], Address)

\* An unstake spends rows made out to its sender, all on one node; its stake
\* output is only checked to be whole slots when it is on BlackHole.  A stake is
\* on BlackHole, for committee members only, or on a validator, for others only.
ValidDiversion(d) ==
    /\ d.slots > 0 => d.at = BlackHole /\ d.slots <= ownDeposit[d.from]
    /\ \A f \in Address : d.coins[f] > 0 =>
          d.at \in Address /\ d.coins[f] <= deposit[d.at][f][d.from]
    /\ d.at = NoNode =>
          /\ d.on = BlackHole => d.from \in Nodes
          /\ d.on # BlackHole => d.on \in known /\ (d.from \in Nodes => d.on \notin Nodes)
    /\ d.at # NoNode => d.out < Spends(d)
    /\ d.on = BlackHole => d.out % StakeUnit = 0
    /\ d.on = NoNode <=> d.out = 0
    /\ Spends(d) \in Uint /\ d.out \in Uint

\* The rows a diversion adds and removes.
OwnMoved(d, t) ==
    IF d = NoTx THEN 0
    ELSE (IF d.on = BlackHole /\ d.to = t THEN slotsCount(d.out) ELSE 0)
         - (IF d.at = BlackHole /\ d.from = t THEN d.slots ELSE 0)

CoinsMoved(d, v, f, t) ==
    IF d = NoTx THEN 0
    ELSE (IF d.on = v /\ d.from = f /\ d.to = t THEN d.out ELSE 0)
         - (IF d.at = v /\ d.from = t THEN d.coins[f] ELSE 0)

OwnAfter(own, d) ==
    [t \in Address |-> ownDeposit[t] + (IF t \in Nodes THEN own[t] ELSE 0) + OwnMoved(d, t)]

DepositAfter(el, d) ==
    [v \in Address |-> [f \in Address |-> [t \in Address |->
        deposit[v][f][t] + (IF v \in Nodes /\ t \in Stakers /\ f = t THEN el[v][t] ELSE 0)
                         + CoinsMoved(d, v, f, t)]]]

\* SQL and KV commit of a block with stake and unstake transactions.
FinalizeBlock(own, el, d) ==
    /\ Idle
    /\ ValidOwn(own)
    /\ ValidElectors(el)
    /\ d # NoTx => /\ ValidDiversion(d)
                   /\ d.from \in Nodes => own[d.from] = 0
                   /\ d.from \in Stakers => \A v \in Nodes : el[v][d.from] = 0
    /\ ownDeposit' = OwnAfter(own, d)
    /\ \A t \in Address : ownDeposit'[t] * StakeUnit < Word
    /\ deposit' = DepositAfter(el, d)
    /\ deposit' \in DepositMap
    /\ committed' = TRUE
    /\ ownTx' = own
    /\ elTx' = el
    /\ diversion' = d
    /\ diverted' = (diverted \/ d # NoTx)
    /\ known' = known \cup {t \in Address : ownDeposit'[t] > 0}
    /\ UNCHANGED <<poolVars, sysTx, rowVars, failure, fgr, cutShort, reentered>>

\* Pairs of a node and an elector with rows on it, and the part of those rows
\* that others sent.
Deposited == {p \in Address \X Address : \E f \in Address : deposit[p[1]][f][p[2]] > 0}
Given(v, e) == {f \in Address \ {e} : deposit[v][f][e] > 0}
GivenCoins(v, e) == MapThenSumSet(LAMBDA f : deposit[v][f][e], Given(v, e))

Returned(sys, v, e) == IF <<v, e>> \in DOMAIN sys THEN sys[<<v, e>>] ELSE 0

\* A block without them returns electors' rows: generateSystemUnstakes takes the
\* rows of each pair GetFullyUnstaked names, as many as one transaction may spend
\* (here: any part of the elector's own, and all or none of those others sent).
\* Validators check the rows only, and the pool that names the pairs is the
\* forger's, whose electors Init may have read before their validator.
FinalizeSystemBlock(sys, given) ==
    /\ Idle
    /\ \A p \in Deposited : sys[p] <= deposit[p[1]][p[2]][p[2]]
    /\ \A p \in given : Given(p[1], p[2]) # {}
    /\ deposit' = [v \in Address |-> [f \in Address |-> [t \in Address |->
                      IF f = t THEN deposit[v][t][t] - Returned(sys, v, t)
                      ELSE IF <<v, t>> \in given THEN 0 ELSE deposit[v][f][t]]]]
    /\ sysTx' = [v \in Address |-> [e \in Address |->
                    Returned(sys, v, e) + IF <<v, e>> \in given THEN GivenCoins(v, e) ELSE 0]]
    /\ \A v, e \in Address : sysTx'[v][e] \in 0 .. MaxDeposit
    /\ committed' = TRUE
    /\ UNCHANGED <<poolVars, ownDeposit, ownTx, elTx, diversion, rowVars, failure, fgr, historyVars>>

-----------------------------------------------------------------------------
(* FinalizeStaking: one transaction after the other, until one fails.      *)

\* The block being forged relied on the slots as they were.
Overtake == fgr' = [fgr EXCEPT !.overtaken = @ \/ fgr.pc # "idle"]

BeginStaking ==
    /\ committed
    /\ ResetReserved
    /\ Overtake
    /\ committed' = FALSE
    /\ UNCHANGED <<ledgerVars, batchVars, rowVars, failure, historyVars>>

Fail(reason) ==
    /\ failure' = reason
    /\ cutShort' = TRUE
    /\ ownTx' = [v \in Nodes |-> 0] /\ elTx' = NoMoves /\ diversion' = NoTx /\ sysTx' = NoStake
    /\ UNCHANGED <<poolVars, ledgerVars, rowVars, fgr, reentered, known, diverted>>

Reenters(v) == v \notin validators /\ \E e \in Address : unstakedSnapshot[v][e] # 0

NoteRegistered(v) ==
    /\ reentered' = IF Reenters(v) THEN reentered \cup {v} ELSE reentered
    /\ UNCHANGED <<cutShort, known, diverted>>

ProcessValidatorStake(v) ==
    /\ ~committed /\ ownTx[v] > 0
    /\ \/ /\ registerValidatorStake(v, ownTx[v] * StakeUnit)
          /\ NoteRegistered(v)
          /\ Overtake
          /\ ownTx' = [ownTx EXCEPT ![v] = 0]
          /\ UNCHANGED <<ledgerVars, elTx, diversion, sysTx, rowVars, failure>>
       \/ ~SlotsFit(ownTx[v] * StakeUnit) /\ Fail("slots")
    /\ UNCHANGED committed

ProcessValidatorUnstake(v) ==
    /\ ~committed /\ ownTx[v] < 0
    /\ \/ /\ cancelValidatorStake(v, (-ownTx[v]) * StakeUnit)
          /\ ownTx' = [ownTx EXCEPT ![v] = 0]
          /\ UNCHANGED <<ledgerVars, elTx, diversion, sysTx, rowVars, failure, fgr, historyVars>>
       \/ /\ ~CanCancelValidator(v, (-ownTx[v]) * StakeUnit)
          /\ Fail("validator")
    /\ UNCHANGED committed

ProcessElectorStake(v, e) ==
    /\ ~committed /\ elTx[v][e] > 0
    /\ registerElectorStake(e, v, elTx[v][e])
    /\ elTx' = [elTx EXCEPT ![v][e] = 0]
    /\ UNCHANGED <<ledgerVars, committed, ownTx, diversion, sysTx, rowVars, failure, fgr, historyVars>>

ProcessElectorUnstake(v, e) ==
    /\ ~committed /\ elTx[v][e] < 0
    /\ \/ /\ cancelElectorStake(e, v, -elTx[v][e])
          /\ elTx' = [elTx EXCEPT ![v][e] = 0]
          /\ UNCHANGED <<ledgerVars, ownTx, diversion, sysTx, rowVars, failure, fgr, historyVars>>
       \/ ~CanCancelElector(e, v) /\ Fail("elector")
    /\ UNCHANGED committed

\* What the sender of a diversion gains or loses at the node it spends from; the
\* stake output of an unstake is only subtracted, wherever it is.
ProcessDiversion ==
    LET d == diversion
        amount == Sub(Spends(d), d.out)
    IN  /\ ~committed /\ d # NoTx
        /\ \/ /\ \/ d.at = NoNode /\ processStakeTx(d.from, d.on, d.out)
                 \/ d.at # NoNode /\ processUnstakeTx(d.from, d.at, amount)
              /\ IF d.at = NoNode /\ d.on = BlackHole
                 THEN NoteRegistered(d.from) ELSE UNCHANGED historyVars
              /\ Overtake
              /\ diversion' = NoTx
              /\ UNCHANGED <<ledgerVars, ownTx, elTx, sysTx, rowVars, failure>>
           \/ d.at = NoNode /\ ~CanStake(d.on, d.out) /\ Fail("slots")
           \/ /\ d.at # NoNode /\ ~CanUnstake(d.from, d.at, amount)
              /\ Fail(IF d.at = BlackHole THEN "validator" ELSE "elector")
        /\ UNCHANGED committed

ProcessSystemUnstake(v, e) ==
    /\ ~committed /\ sysTx[v][e] > 0
    /\ \/ /\ processSystemUnstakeTx(e, v, sysTx[v][e])
          /\ sysTx' = [sysTx EXCEPT ![v][e] = 0]
          /\ UNCHANGED <<ledgerVars, ownTx, elTx, diversion, rowVars, failure, fgr, historyVars>>
       \/ ~CanSystemUnstake(e, v) /\ Fail("snapshot")
    /\ UNCHANGED committed

-----------------------------------------------------------------------------
(* The forger, in the goroutine of the validator service: it reserves the  *)
(* slots of each stake on BlackHole that it takes into its block.          *)

ForgerStep(next) ==
    /\ Running
    /\ fgr' = next
    /\ UNCHANGED <<stakeVars, unstakedSnapshot, slotsFilled, ledgerVars, committed,
                   batchVars, rowVars, failure, historyVars>>

BeginForging ==
    /\ fgr.pc = "idle"
    /\ ForgerStep([NotForging EXCEPT !.pc = "loop"])
    /\ UNCHANGED slotsReserved

\* ReserveSlots: CanValidatorStake(true), under mu.  Once a stake was refused the
\* others are refused too.
CanValidatorStake(count) ==
    /\ fgr.pc = "loop"
    /\ IF slotsFilled + slotsReserved < SlotsLimit
       THEN ForgerStep([fgr EXCEPT !.pc = "filled", !.count = count])
       ELSE ForgerStep([fgr EXCEPT !.pc = "refused"])
    /\ UNCHANGED slotsReserved

\* filledSlots(true), under no lock: the filled slots ...
ReadFilled ==
    /\ fgr.pc = "filled"
    /\ ForgerStep([fgr EXCEPT !.pc = "reserved", !.slots = slotsFilled])
    /\ UNCHANGED slotsReserved

\* Mutant of ReadReserved: reservations made before are not counted.
ReadFilledOnly ==
    /\ fgr.pc = "reserved"
    /\ IF SlotsLimit - fgr.slots >= fgr.count
       THEN ForgerStep([fgr EXCEPT !.pc = "add"])
       ELSE ForgerStep([fgr EXCEPT !.pc = "refused"])
    /\ UNCHANGED slotsReserved

\* ... and the reserved ones, against the limit.
ReadReserved ==
    /\ fgr.pc = "reserved"
    /\ IF SlotsLimit - (fgr.slots + slotsReserved) >= fgr.count
       THEN ForgerStep([fgr EXCEPT !.pc = "add"])
       ELSE ForgerStep([fgr EXCEPT !.pc = "refused"])
    /\ UNCHANGED slotsReserved

\* The reservation, under mu again.
AddReserved ==
    /\ fgr.pc = "add"
    /\ ForgerStep([pc |-> "loop", count |-> 0, slots |-> 0,
                   taken |-> fgr.taken + fgr.count, overtaken |-> fgr.overtaken])
    /\ slotsReserved' = slotsReserved + fgr.count

\* The block is done or given up; the reservations stay.
EndForging ==
    /\ fgr.pc \in {"loop", "refused"}
    /\ ForgerStep(NotForging)
    /\ UNCHANGED slotsReserved

-----------------------------------------------------------------------------
(* Restarting the node at any moment.                                      *)

Restart ==
    /\ validators' = {}
    /\ SlotsFilled' = NoSlots
    /\ CumulativeStake' = NoSlots
    /\ SelfStake' = NoSlots
    /\ Electors' = NoStake
    /\ unstakedSnapshot' = NoStake
    /\ slotsFilled' = 0
    /\ slotsReserved' = 0
    /\ committed' = FALSE
    /\ ownTx' = [v \in Nodes |-> 0] /\ elTx' = NoMoves /\ diversion' = NoTx /\ sysTx' = NoStake
    /\ ownRows' = ownDeposit /\ rows' = deposit
    /\ failure' = "none"
    /\ fgr' = NotForging
    /\ reentered' = {}
    /\ UNCHANGED <<ledgerVars, cutShort, known, diverted>>

\* Some rows to v on BlackHole; an error stops Init and the service panics.
LoadValidator(v, slots) ==
    /\ failure = "none"
    /\ ownRows[v] >= slots
    /\ \/ /\ registerValidatorStake(v, slots * StakeUnit)
          /\ NoteRegistered(v)
          /\ ownRows' = [ownRows EXCEPT ![v] = @ - slots]
          /\ UNCHANGED <<ledgerVars, batchVars, rows, failure>>
       \/ /\ ~SlotsFit(slots * StakeUnit)
          /\ failure' = "init"
          /\ UNCHANGED <<poolVars, ledgerVars, batchVars, rowVars, historyVars>>
    /\ UNCHANGED <<committed, fgr>>

\* Some rows of f to t on v: Init takes the sender for the elector.
LoadElector(v, f, t, coins) ==
    /\ failure = "none"
    /\ rows[v][f][t] >= coins
    /\ registerElectorStake(f, v, coins)
    /\ rows' = [rows EXCEPT ![v][f][t] = @ - coins]
    /\ UNCHANGED <<ledgerVars, committed, batchVars, ownRows, failure, fgr, historyVars>>

-----------------------------------------------------------------------------

Commit ==
    \/ \E own \in [Nodes -> SlotMoves], el \in [Nodes -> [Stakers -> CoinMoves]],
          d \in Diversions \cup {NoTx} : FinalizeBlock(own, el, d)
    \/ \E sys \in [Deposited -> 0 .. MaxDeposit], given \in SUBSET Deposited :
          FinalizeSystemBlock(sys, given)

FinalizeStaking ==
    \/ BeginStaking \/ ProcessDiversion
    \/ \E v \in Nodes : ProcessValidatorStake(v) \/ ProcessValidatorUnstake(v)
    \/ \E v \in Nodes, e \in Stakers : ProcessElectorStake(v, e) \/ ProcessElectorUnstake(v, e)
    \/ \E v, e \in Address : ProcessSystemUnstake(v, e)

Forge ==
    \/ BeginForging \/ ReadFilled \/ ReadReserved \/ AddReserved \/ EndForging
    \/ \E count \in 1 .. MaxReserve : CanValidatorStake(count)

Load ==
    \/ \E v \in Address, slots \in 1 .. SlotsLimit : LoadValidator(v, slots)
    \/ \E v, f, t \in Address, coins \in 1 .. MaxDeposit : LoadElector(v, f, t, coins)

Next == Commit \/ FinalizeStaking \/ Forge \/ Restart \/ Load

Spec == Init /\ [][Next]_vars

-----------------------------------------------------------------------------
(* Properties.                                                             *)

\* The batch and the rows all accounted for and no error so far.
Settled == Idle /\ failure = "none"

\* A validator's slots and self stake are what the ledger holds for it: between
\* blocks, with no FinalizeStaking error since the start and no diversion in the
\* chain, SlotsFilled is the number of slots deposited, SelfStake is their price,
\* and exactly the nodes with a deposit are validators.  Full unstakes (slots
\* compared, not coins), partial ones and reloads must all keep this.
OwnStakeAgrees ==
    Settled /\ ~diverted => \A v \in Nodes :
        /\ SlotsFilled[v] = ownDeposit[v]
        /\ SelfStake[v] = ownDeposit[v] * StakeUnit
        /\ v \in validators <=> ownDeposit[v] > 0

\* An elector's coins are either counted for an active validator or waiting for
\* the system to return them, never both, and in the amount of its rows: true of
\* every node that did not register again while electors were still pending, as
\* long as no diversion is in the chain.
ElectorStakeAgrees ==
    Settled /\ ~diverted => \A v \in Nodes \ reentered, e \in Stakers :
        IF v \in validators
        THEN Electors[v][e] = deposit[v][e][e] /\ unstakedSnapshot[v][e] = 0
        ELSE unstakedSnapshot[v][e] = deposit[v][e][e]

\* The slot counter is the sum of the validators' slots: no order of stakes,
\* unstakes, diversions and reloads counts a slot twice or loses one.
SlotsAddUp == slotsFilled = MapThenSumSet(LAMBDA v : SlotsFilled[v], validators)

\* Whatever a block contains and however its stakes were reserved, the filled slots
\* stay within the registry limit ("Validator slots inconsistent" is never
\* returned): registerValidatorStake is the only guard.
FilledWithinLimit == slotsFilled <= SlotsLimit

\* The slots of the stakes in the block being forged are still empty: reservations
\* add up, one read in the middle of ReserveSlots included.  It is all lost when a
\* FinalizeStaking runs during the forging.
ReservationsFit ==
    fgr.pc # "idle" /\ ~fgr.overtaken => slotsFilled + fgr.taken <= SlotsLimit

\* As long as no batch has failed since the start and no diversion is in the chain,
\* a validator that unstakes always finds its entry: cancelValidatorStake never
\* answers "Validator not found", however stakes, unstakes, restarts and their
\* order within a batch follow each other.
ValidatorIsFound ==
    [][failure = "none" /\ ~diverted => failure' # "validator"]_vars

\* GetRewardMap: electors share their part of the reward by stake.
RewardOf(v, e) == (Electors[v][e] * ElectorsReward) \div electorsStake(v)

\* Whenever rewards are computed, even between two transactions of a batch, the
\* divisor is positive if there is an elector, and the shares of a proposer's
\* electors add up to no more than the electors' part.
RewardsBounded ==
    failure = "none" /\ ~diverted => \A v \in validators \ reentered :
        LET paid == {e \in Address : Electors[v][e] # 0}
        IN  paid # {} =>
              /\ electorsStake(v) > 0
              /\ MapThenSumSet(LAMBDA e : RewardOf(v, e), paid) <= ElectorsReward

-----------------------------------------------------------------------------
(* What comments and checks of the code say and the code does not keep.    *)

\* consensus/interface.go:134: GetFullyUnstaked "returns electors' data of fully
\* unstaked validators".  A node that registers again before the system has
\* returned its electors' coins, or whose electors' rows Init reads first, is an
\* active validator with pending electors.
FullyUnstakedHaveLeft ==
    \A v, e \in Address : unstakedSnapshot[v][e] # 0 => v \notin validators

\* consensus/interface.go:144: "FinalizeStaking complete all staking pool
\* updates".  An elector that unstakes from a validator that left in the same
\* or an earlier block makes it return early: the rest of a committed block is
\* never applied and the elector's entry stays in the snapshot.
StakingCompleted == ~cutShort

\* The same line, for the rows of a block that FinalizeStaking has completed
\* without an error: the pool knows each of them.  An unstake with its stake
\* output on another node, which validateUnstakeTx accepts, lowers the stake on
\* the first node and adds it nowhere.
RowsAreStaked ==
    Settled /\ reentered = {} => \A v, f \in Address :
        MapThenSumSet(LAMBDA t : deposit[v][f][t], Address)
            = Electors[v][f] + unstakedSnapshot[v][f]

\* consensus/attestation/block_validator.go:283: "Verifying that all stakers got
\* their reward".  The reward a running node expects for an elector is the one
\* its rows give, which is what a node started from the same rows expects.  A
\* partial validator unstake leaves CumulativeStake too high, so they differ.
RewardsFollowLedger ==
    Settled /\ ~diverted => \A v \in validators \ reentered :
        LET staked == MapThenSumSet(LAMBDA e : deposit[v][e][e], Address)
        IN  \A e \in Stakers : deposit[v][e][e] > 0 =>
              RewardOf(v, e) = (deposit[v][e][e] * ElectorsReward) \div staked
=============================================================================
