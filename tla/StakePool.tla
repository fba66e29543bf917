----------------------------- MODULE StakePool -----------------------------
(***************************************************************************)
(* The in-memory staking pool, blockchain/consensus/staking/pool.go.       *)
(*                                                                         *)
(* A validator node fills slots with its own coins (outputs on the         *)
(* BlackHole address); an elector puts coins on a validator.  This module  *)
(* holds the pool's state and one operator per method that changes it; the *)
(* ledger, the blocks, the forger and the restarts that drive them are in  *)
(* StakeLedger.                                                            *)
(*                                                                         *)
(* A Go map is a total function here and 0 stands for a missing key: every *)
(* stored amount is positive, because a transaction with a zero output is  *)
(* refused (consensus/attestation/crysp_validator.go:449).  The fields     *)
(* p.cumulativeStake and p.electors are written and never read, so they    *)
(* are left out.                                                           *)
(***************************************************************************)
EXTENDS Integers

CONSTANTS
    Nodes,          \* the committee: addresses that may stake on BlackHole
    Stakers,        \* addresses that may stake on a validator (electors)
    BlackHole,      \* BlackHoleAddress
    StakeUnit,      \* stakeAmountPerSlot: the price of one slot
    SlotsLimit,     \* slotsLimit: ValidatorRegistryLimit
    Word            \* 2^64: amounts are uint64

ASSUME StakePoolAssumption ==
    /\ StakeUnit \in Nat \ {0}
    /\ SlotsLimit \in Nat
    /\ Word \in Nat \ {0}
    /\ Nodes \cap Stakers = {}
    /\ BlackHole \notin Nodes \cup Stakers

Address == Nodes \cup Stakers

VARIABLES
    validators,         \* keys of p.validators
    SlotsFilled,        \* validators[v].SlotsFilled
    CumulativeStake,    \* validators[v].CumulativeStake
    SelfStake,          \* validators[v].SelfStake
    Electors,           \* validators[v].Electors[e]
    unstakedSnapshot,   \* unstakedSnapshot[v][e]: to be returned by the system
    slotsFilled,        \* p.slotsFilled
    slotsReserved       \* p.slotsReserved

stakeVars == <<validators, SlotsFilled, CumulativeStake, SelfStake, Electors>>
poolVars == <<stakeVars, unstakedSnapshot, slotsFilled, slotsReserved>>

Uint == 0 .. (Word - 1)
Add(a, b) == IF a + b < Word THEN a + b ELSE a + b - Word
\* Mutant of Sub: subtraction that does not wrap.
SubSigned(a, b) == a - b

Sub(a, b) == IF b <= a THEN a - b ELSE a + Word - b

StakeMap == [Address -> [Address -> Uint]]
NoStake == [v \in Address |-> [e \in Address |-> 0]]

PoolTypeOK ==
    /\ validators \subseteq Address
    /\ SlotsFilled \in [Address -> Int]
    /\ CumulativeStake \in [Address -> Uint]
    /\ SelfStake \in [Address -> Uint]
    /\ Electors \in StakeMap
    /\ unstakedSnapshot \in StakeMap
    /\ slotsFilled \in Int
    /\ slotsReserved \in Nat

NewPool ==
    /\ validators = {}
    /\ SlotsFilled = [v \in Address |-> 0]
    /\ CumulativeStake = [v \in Address |-> 0]
    /\ SelfStake = [v \in Address |-> 0]
    /\ Electors = NoStake
    /\ unstakedSnapshot = NoStake
    /\ slotsFilled = 0
    /\ slotsReserved = 0

-----------------------------------------------------------------------------
(* A validator's own stake.                                                *)

slotsCount(amount) == amount \div StakeUnit
getEmptySlots == SlotsLimit - slotsFilled

\* Mutant of SlotsFit: the slots asked for are not compared with the empty ones.
SomeSlotEmpty(amount) == getEmptySlots > 0

\* The three error returns at the head of registerValidatorStake.
SlotsFit(amount) ==
    /\ getEmptySlots > 0
    /\ getEmptySlots >= slotsCount(amount)

registerValidatorStake(v, amount) ==
    /\ SlotsFit(amount)
    /\ validators' = validators \cup {v}
    /\ CumulativeStake' = [CumulativeStake EXCEPT ![v] = Add(@, amount)]
    /\ SelfStake' = [SelfStake EXCEPT ![v] = Add(@, amount)]
    /\ SlotsFilled' = [SlotsFilled EXCEPT ![v] = @ + slotsCount(amount)]
    /\ slotsFilled' = slotsFilled + slotsCount(amount)
    /\ UNCHANGED <<Electors, unstakedSnapshot, slotsReserved>>

CanCancelValidator(v, amount) == slotsCount(amount) # 0 /\ v \in validators

\* Mutant of MarkFullUnstake: the electors of a leaving validator are forgotten.
MarkNothing(v) == UNCHANGED unstakedSnapshot

\* Only electors without an entry are copied: an entry left from before the
\* validator came back keeps its old amount.
MarkFullUnstake(v) ==
    unstakedSnapshot' = [unstakedSnapshot EXCEPT ![v] =
        [e \in Address |-> IF @[e] = 0 THEN Electors[v][e] ELSE @[e]]]

\* All slots given up: the validator and its electors leave the map.
FullUnstake(v) ==
    /\ MarkFullUnstake(v)
    /\ validators' = validators \ {v}
    /\ SlotsFilled' = [SlotsFilled EXCEPT ![v] = 0]
    /\ CumulativeStake' = [CumulativeStake EXCEPT ![v] = 0]
    /\ SelfStake' = [SelfStake EXCEPT ![v] = 0]
    /\ Electors' = [Electors EXCEPT ![v] = [e \in Address |-> 0]]

\* Mutant of PartialUnstake: the self stake is not lowered.
PartialKeepsSelf(v, amount) ==
    /\ SlotsFilled' = [SlotsFilled EXCEPT ![v] = @ - slotsCount(amount)]
    /\ UNCHANGED <<validators, CumulativeStake, SelfStake, Electors, unstakedSnapshot>>

\* CumulativeStake is not touched by a partial unstake.
PartialUnstake(v, amount) ==
    /\ SelfStake' = [SelfStake EXCEPT ![v] = Sub(@, amount)]
    /\ SlotsFilled' = [SlotsFilled EXCEPT ![v] = @ - slotsCount(amount)]
    /\ UNCHANGED <<validators, CumulativeStake, Electors, unstakedSnapshot>>

\* Mutant of cancelValidatorStake: the slot counter moves on partial unstakes only.
CancelKeepsSlots(v, amount) ==
    /\ CanCancelValidator(v, amount)
    /\ \/ SlotsFilled[v] = slotsCount(amount) /\ FullUnstake(v) /\ UNCHANGED slotsFilled
       \/ /\ SlotsFilled[v] # slotsCount(amount) /\ PartialUnstake(v, amount)
          /\ slotsFilled' = slotsFilled - slotsCount(amount)
    /\ UNCHANGED slotsReserved

\* Mutant of cancelValidatorStake: a partial unstake also deletes the validator.
CancelDeletes(v, amount) ==
    /\ CanCancelValidator(v, amount)
    /\ FullUnstake(v)
    /\ slotsFilled' = slotsFilled - slotsCount(amount)
    /\ UNCHANGED slotsReserved

cancelValidatorStake(v, amount) ==
    /\ CanCancelValidator(v, amount)
    /\ \/ SlotsFilled[v] = slotsCount(amount) /\ FullUnstake(v)
       \/ SlotsFilled[v] # slotsCount(amount) /\ PartialUnstake(v, amount)
    /\ slotsFilled' = slotsFilled - slotsCount(amount)
    /\ UNCHANGED slotsReserved

-----------------------------------------------------------------------------
(* An elector's stake on a validator.                                      *)

SystemUnstakeElector(v, e, amount) ==
    unstakedSnapshot' = [unstakedSnapshot EXCEPT ![v][e] = Add(@, amount)]

\* Mutant of registerElectorStake: the validator's cumulative stake is not raised.
RegisterOnlyElector(e, v, amount) ==
    /\ \/ v \notin validators /\ SystemUnstakeElector(v, e, amount) /\ UNCHANGED Electors
       \/ /\ v \in validators
          /\ Electors' = [Electors EXCEPT ![v][e] = Add(@, amount)]
          /\ UNCHANGED unstakedSnapshot
    /\ UNCHANGED <<validators, SlotsFilled, SelfStake, CumulativeStake, slotsFilled, slotsReserved>>

registerElectorStake(e, v, amount) ==
    /\ \/ /\ v \notin validators
          /\ SystemUnstakeElector(v, e, amount)
          /\ UNCHANGED <<CumulativeStake, Electors>>
       \/ /\ v \in validators
          /\ CumulativeStake' = [CumulativeStake EXCEPT ![v] = Add(@, amount)]
          /\ Electors' = [Electors EXCEPT ![v][e] = Add(@, amount)]
          /\ UNCHANGED unstakedSnapshot
    /\ UNCHANGED <<validators, SlotsFilled, SelfStake, slotsFilled, slotsReserved>>

CanCancelElector(e, v) == v \in validators /\ Electors[v][e] # 0

cancelElectorStake(e, v, amount) ==
    /\ CanCancelElector(e, v)
    /\ unstakedSnapshot' = [unstakedSnapshot EXCEPT ![v][e] =
                                IF @ > amount THEN @ - amount ELSE 0]
    /\ Electors' = [Electors EXCEPT ![v][e] = Sub(@, amount)]
    /\ CumulativeStake' = [CumulativeStake EXCEPT ![v] = Sub(@, amount)]
    /\ UNCHANGED <<validators, SlotsFilled, SelfStake, slotsFilled, slotsReserved>>

-----------------------------------------------------------------------------
(* Stakes the system returns, and reservations.                            *)

CanSystemUnstake(e, v) == unstakedSnapshot[v][e] # 0

processSystemUnstakeTx(e, v, amount) ==
    /\ CanSystemUnstake(e, v)
    /\ unstakedSnapshot' = [unstakedSnapshot EXCEPT ![v][e] = Sub(@, amount)]
    /\ UNCHANGED <<stakeVars, slotsFilled, slotsReserved>>

\* FinalizeStaking begins by dropping the reservations.
ResetReserved ==
    /\ slotsReserved' = 0
    /\ UNCHANGED <<stakeVars, unstakedSnapshot, slotsFilled>>

-----------------------------------------------------------------------------
(* A transaction of sender s: a stake on a node, or an unstake from one.   *)

CanStake(node, amount) == node = BlackHole => SlotsFit(amount)

processStakeTx(s, node, amount) ==
    \/ node = BlackHole /\ registerValidatorStake(s, amount)
    \/ node # BlackHole /\ registerElectorStake(s, node, amount)

CanUnstake(s, node, amount) ==
    IF node = BlackHole THEN CanCancelValidator(s, amount) ELSE CanCancelElector(s, node)

processUnstakeTx(s, node, amount) ==
    \/ node = BlackHole /\ cancelValidatorStake(s, amount)
    \/ node # BlackHole /\ cancelElectorStake(s, node, amount)

-----------------------------------------------------------------------------
(* What the rest of the node reads: rewards and the weights that choose    *)
(* the proposer are both computed from this difference.                    *)

electorsStake(v) == Sub(CumulativeStake[v], SelfStake[v])

=============================================================================
