---------------------------- MODULE LedgerProofs ----------------------------
(***************************************************************************)
(* Theorems about what accounts stake and what they submit.                *)
(*                                                                         *)
(* Staking: types, the mirror of a validator's stake in the role registry, *)
(* the finality of a punishment, and the account's value, which only a     *)
(* slash or a bond the registry does not keep can lower.                   *)
(*                                                                         *)
(* Mempool: the agreement of the pool's indexes and its limits, who loses  *)
(* a place in it, and what the producer takes from it.  The invariant says *)
(* that the pool is the one that a set of transactions within the limits   *)
(* determines; every operation takes such a set to another.                *)
(***************************************************************************)
EXTENDS Staking, Mempool, SumTheorems, SequenceTheorems

\* A counter of missed epochs counts epochs that were closed.
MissedInEpoch == \A a \in Accounts : missed[a] <= epoch

\* A validator's registration is slashed together with its stake or by a
\* report that is on record.
SlashHasCause ==
    \A a \in Accounts :
       Slashed(VALIDATOR, a) =>
          a \in records \/ (a \in DOMAIN validators /\ validators[a].slashed)

\* The inductive invariant.
StakingInv ==
    /\ TypeOK
    /\ MissedInEpoch
    /\ SlashHasCause
    /\ MirrorInStep

RegistryTyped(r) ==
    /\ DOMAIN r \subseteq Roles \X Accounts
    /\ \A key \in DOMAIN r : r[key] \in Registration

ValidatorsTyped(vs) ==
    /\ DOMAIN vs \subseteq Accounts
    /\ \A a \in DOMAIN vs : vs[a] \in Validator

-----------------------------------------------------------------------------
(* Operators of the model *)

\* The constants, each by itself.
LEMMA Constants ==
    /\ InitialBalance \in [Accounts -> Nat]
    /\ VALIDATOR \notin BondRoles /\ AI_OPERATOR \notin BondRoles
    /\ VALIDATOR # AI_OPERATOR
    /\ IsFiniteSet(BondRoles)
    /\ NetworkMinStake \in Nat \ {0} /\ RegistryMinStake \in Nat \ {0}
    /\ Scale \in Nat \ {0} /\ MaxMissed \in Nat \ {0}
    /\ UnbondingEpochs \in Nat \ {0} /\ JailEpochs \in Nat /\ MaxEpoch \in Nat
    /\ EvidenceRatio \in 0..Scale /\ ReportRatio \in 0..Scale
    /\ LivenessSlashing \in BOOLEAN
BY StakingAssumption DEF VALIDATOR, AI_OPERATOR

\* A penalty is part of the stake.
LEMMA PenaltyRange ==
    ASSUME NEW stake \in Nat, NEW ratio \in 0..Scale
    PROVE  slash_penalty(stake, ratio) \in 0..stake
<1>1. Scale \in Nat /\ Scale > 0
    BY Constants
<1>2. stake * ratio \in Nat
    OBVIOUS
<1>3. (stake * ratio) \div Scale \in Nat
    BY <1>1, <1>2
<1> DEFINE cut == (stake * ratio) \div Scale
<1>4. cut \in Nat
    BY <1>3
<1> HIDE DEF cut
<1>5. \E x \in {stake, cut} : \A y \in {stake, cut} : x =< y
    BY <1>4
<1>6. Min({stake, cut}) \in {stake, cut} /\ Min({stake, cut}) <= stake
    BY <1>5 DEF Min
<1>7. Min({stake, cut}) \in 0..stake
    BY <1>4, <1>6
<1> QED  BY <1>7 DEF slash_penalty, cut

\* A new entry or an amount written over an entry keeps the registry's type.
LEMMA UpsertTyped ==
    ASSUME RegistryTyped(registry), NEW role \in Roles, NEW a \in Accounts,
           NEW total \in Nat
    PROVE  RegistryTyped(upsert_stake(role, a, total))
<1> DEFINE key == <<role, a>>
<1>0. key \in Roles \X Accounts
    OBVIOUS
<1>1. NewEntry(total) \in Registration
    BY Constants DEF NewEntry, Registration, Releases
<1> HIDE DEF key
<1>2. RegistryTyped(Without(registry, key))
    BY DEF RegistryTyped, Without
<1>3. RegistryTyped(With(registry, key, NewEntry(total)))
    BY <1>0, <1>1 DEF RegistryTyped, With
<1>4. ASSUME key \in DOMAIN registry
      PROVE  RegistryTyped([registry EXCEPT ![key].stake = total])
    BY <1>4 DEF RegistryTyped, Registration
<1> QED  BY <1>2, <1>3, <1>4 DEF upsert_stake, key

\* An entry less a penalty is an entry.
LEMMA CutEntry ==
    ASSUME NEW e \in Registration, NEW p \in 0..e.stake
    PROVE  [e EXCEPT !.stake = @ - p, !.status = "Slashed"] \in Registration
<1>1. e.stake - p \in Nat
    BY DEF Registration
<1> QED  BY <1>1 DEF Registration

\* Slashing keeps the registry's type and its keys.
LEMMA SlashTyped ==
    ASSUME RegistryTyped(registry), NEW role, NEW a, NEW ratio \in 0..Scale
    PROVE  /\ RegistryTyped(slash(role, a, ratio))
           /\ DOMAIN slash(role, a, ratio) = DOMAIN registry
<1> DEFINE cut(key) == [registry[key] EXCEPT
                          !.stake = @ - slash_penalty(@, ratio),
                          !.status = "Slashed"]
           all == [key \in DOMAIN registry |->
                     IF key[2] = a /\ registry[key].status # "Slashed"
                     THEN cut(key) ELSE registry[key]]
<1>1. ASSUME NEW key \in DOMAIN registry
      PROVE  cut(key) \in Registration
  <2>1. registry[key] \in Registration
    BY <1>1 DEF RegistryTyped
  <2>2. slash_penalty(registry[key].stake, ratio) \in 0..registry[key].stake
    BY <2>1, PenaltyRange DEF Registration
  <2> QED  BY <2>1, <2>2, CutEntry
<1>2. RegistryTyped(all) /\ DOMAIN all = DOMAIN registry
    BY <1>1 DEF RegistryTyped
<1>3. slash(role, a, ratio) = all \/ slash(role, a, ratio) = registry
    BY DEF slash
<1> QED  BY <1>2, <1>3

\* The amounts a transaction carries are positive naturals.
LEMMA AmountsNat ==
    ASSUME NEW amount \in UNION {OfferedBy(b) : b \in Accounts}
    PROVE  amount \in Nat /\ amount > 0
<1>1. PICK b \in Accounts : amount \in 1..InitialBalance[b]
    BY DEF OfferedBy
<1>2. InitialBalance[b] \in Nat
    BY Constants
<1> QED  BY <1>1, <1>2

\* What an epoch close pays an account is a natural.
LEMMA OwedNat ==
    ASSUME TypeOK, NEW a \in Accounts, NEW now \in Nat
    PROVE  Owed(a, now) \in Nat
<1>1. IsFiniteSet(Releases)
    BY Constants, FS_Interval DEF Releases
<1> DEFINE due == {r \in Releases : Due(r, now)}
<1>2. due \in SUBSET Releases
    OBVIOUS
<1>3. \A r \in Releases : unbonding[a][r] \in Nat
    BY DEF TypeOK
<1> HIDE DEF due
<1>4. IsFiniteSet(due)
    BY <1>1, <1>2, FS_Subset
<1>5. \A r \in due : unbonding[a][r] \in Nat
    BY <1>2, <1>3
<1>6. SumFunctionOnSet(unbonding[a], due) \in Nat
    BY <1>4, <1>5, SumNat
<1> QED  BY <1>6 DEF Owed, due

\* The type invariant and the bound on the counters, with the two functions
\* on a changing set of keys typed by name.
Typed ==
    /\ epoch \in 0..MaxEpoch
    /\ balance \in [Accounts -> Nat]
    /\ ValidatorsTyped(validators)
    /\ unbonding \in [Accounts -> [Releases -> Nat]]
    /\ RegistryTyped(registry)
    /\ missed \in [Accounts -> 0..MaxEpoch]
    /\ reported \subseteq Accounts /\ records \subseteq Accounts
    /\ \A a \in Accounts, r \in Releases : unbonding[a][r] > 0 => epoch < r
    /\ MissedInEpoch

\* It is the same predicate.
LEMMA TypedIsTypeOK == Typed <=> TypeOK /\ MissedInEpoch
BY DEF Typed, TypeOK, RegistryTyped, ValidatorsTyped

-----------------------------------------------------------------------------
(* Types *)

\* A validator whose stake and standing are replaced.
LEMMA RestakedTyped ==
    ASSUME NEW v \in Validator, NEW stake \in Nat, NEW active \in BOOLEAN
    PROVE  [v EXCEPT !.stake = stake, !.active = active] \in Validator
BY DEF Validator

\* Stake and Unstake and the two ways to bond keep the types.
LEMMA TransactionTypes ==
    ASSUME Typed, NEW a \in Accounts, NEW amount \in Nat, amount > 0,
           \/ Stake(a, amount)
           \/ Unstake(a, amount)
           \/ bond_ai_operator(a, amount)
           \/ \E role \in BondRoles : bond_role(a, role, amount)
    PROVE  Typed'
<1>0. VALIDATOR \in Roles /\ AI_OPERATOR \in Roles /\ BondRoles \subseteq Roles
    BY DEF Roles
<1>1. CASE Stake(a, amount)
  <2>1. balance[a] \in Nat /\ balance[a] >= amount
    BY <1>1 DEF Stake, Affords, Typed
  <2>2. balance' \in [Accounts -> Nat]
    BY <1>1, <2>1 DEF Stake, Typed
  <2>3. PICK v : /\ validators' = With(validators, a, v)
                 /\ registry' = Mirrored(a, v.stake)
                 /\ v = IF a \in DOMAIN validators
                        THEN [validators[a] EXCEPT
                                !.stake = @ + amount,
                                !.active = /\ validators[a].stake + amount >= NetworkMinStake
                                           /\ validators[a].ready]
                        ELSE NewValidator(amount)
    BY <1>1 DEF Stake
  <2>4. v \in Validator
    <3>1. CASE a \in DOMAIN validators
      <4>1. validators[a] \in Validator
        BY <3>1 DEF Typed, ValidatorsTyped
      <4>2. PICK stake, active :
               /\ stake = validators[a].stake + amount
               /\ active = (stake >= NetworkMinStake /\ validators[a].ready)
        OBVIOUS
      <4>3. stake \in Nat /\ active \in BOOLEAN
        BY <4>1, <4>2 DEF Validator
      <4>4. v = [validators[a] EXCEPT !.stake = stake, !.active = active]
        BY <2>3, <3>1, <4>2
      <4> QED  BY <4>1, <4>3, <4>4, RestakedTyped
    <3>2. CASE a \notin DOMAIN validators
      BY <2>3, <3>2, Constants DEF Validator, NewValidator
    <3> QED  BY <3>1, <3>2
  <2>5. v.stake \in Nat
    BY <2>4 DEF Validator
  <2>6. ValidatorsTyped(validators')
    BY <2>3, <2>4 DEF With, ValidatorsTyped, Typed
  <2>7. RegistryTyped(registry')
    BY <2>3, <2>5, <1>0, UpsertTyped DEF Mirrored, Typed
  <2> QED  BY <1>1, <2>2, <2>6, <2>7 DEF Stake, Typed, MissedInEpoch
<1>2. CASE Unstake(a, amount)
  <2>1. /\ a \in DOMAIN validators /\ validators[a].stake >= amount
        /\ validators[a] \in Validator
    BY <1>2 DEF Unstake, Typed, ValidatorsTyped
  <2>2. PICK left : left = validators[a].stake - amount
    OBVIOUS
  <2>3. left \in Nat
    BY <2>1, <2>2 DEF Validator
  <2>4. /\ validators' = [validators EXCEPT ![a].stake = left,
                                            ![a].active = @ /\ left # 0]
        /\ registry' = Mirrored(a, left)
    BY <1>2, <2>2 DEF Unstake
  <2>5. ValidatorsTyped(validators')
    BY <2>1, <2>3, <2>4 DEF ValidatorsTyped, Typed, Validator
  <2>6. RegistryTyped(registry')
    BY <2>3, <2>4, <1>0, UpsertTyped DEF Mirrored, Typed
  <2>7. PICK at : at = epoch + UnbondingEpochs
    OBVIOUS
  <2>8. at \in Releases /\ epoch < at
    BY <2>7, Constants DEF Typed, Releases
  <2>9. unbonding' = [unbonding EXCEPT ![a][at] = @ + amount]
    BY <1>2, <2>7 DEF Unstake
  <2>10. /\ unbonding' \in [Accounts -> [Releases -> Nat]]
         /\ \A b \in Accounts, r \in Releases :
               unbonding'[b][r] > 0 => unbonding[b][r] > 0 \/ r = at
    BY <2>8, <2>9 DEF Typed
  <2>11. \A b \in Accounts, r \in Releases : unbonding'[b][r] > 0 => epoch < r
    BY <2>8, <2>10 DEF Typed
  <2> QED  BY <1>2, <2>5, <2>6, <2>10, <2>11 DEF Unstake, Typed, MissedInEpoch
<1>3. CASE bond_ai_operator(a, amount)
  <2>1. balance[a] \in Nat /\ balance[a] >= amount
    BY <1>3 DEF bond_ai_operator, Affords, Typed
  <2>2. balance' \in [Accounts -> Nat]
    BY <1>3, <2>1 DEF bond_ai_operator, Typed
  <2>3. NewEntry(amount) \in Registration
    BY Constants DEF NewEntry, Registration, Releases
  <2>4. RegistryTyped(registry')
    BY <1>0, <1>3, <2>3 DEF bond_ai_operator, With, RegistryTyped, Typed
  <2> QED  BY <1>3, <2>2, <2>4 DEF bond_ai_operator, Typed, MissedInEpoch
<1>4. ASSUME NEW role \in BondRoles, bond_role(a, role, amount)
      PROVE  Typed'
  <2>1. balance[a] \in Nat /\ balance[a] >= amount
    BY <1>4 DEF bond_role, Affords, Typed
  <2>2. balance' \in [Accounts -> Nat]
    BY <1>4, <2>1 DEF bond_role, Typed
  <2>3. RegistryTyped(registry')
    BY <1>0, <1>4, UpsertTyped DEF bond_role, Typed
  <2> QED  BY <1>4, <2>2, <2>3 DEF bond_role, Typed, MissedInEpoch
<1> QED  BY <1>1, <1>2, <1>3, <1>4

\* Registering keys, unbonding, withdrawing and slashing keep the types.
LEMMA CallTypes ==
    ASSUME Typed, NEW a \in Accounts,
           \/ RegisterConsensusKeys(a)
           \/ slash_validator(a)
           \/ slash_from_report(a)
           \/ slash_role_only(a)
           \/ \E role \in BondRoles \union {AI_OPERATOR} :
                 begin_unbonding(a, role) \/ withdraw(a, role)
    PROVE  Typed'
<1>0. RegistryTyped(registry) /\ ValidatorsTyped(validators)
    BY DEF Typed
<1>1. CASE RegisterConsensusKeys(a)
  <2>1. validators[a] \in Validator
    BY <1>1 DEF RegisterConsensusKeys, Typed, ValidatorsTyped
  <2>2. PICK active : active = (validators[a].stake >= NetworkMinStake)
    OBVIOUS
  <2>3. active \in BOOLEAN
    BY <2>2
  <2>4. validators' = [validators EXCEPT ![a].ready = TRUE, ![a].active = active]
    BY <1>1, <2>2 DEF RegisterConsensusKeys
  <2>5. ValidatorsTyped(validators')
    BY <1>0, <2>1, <2>3, <2>4 DEF ValidatorsTyped, Validator
  <2> QED  BY <1>1, <2>5 DEF RegisterConsensusKeys, Typed, MissedInEpoch
<1>2. CASE slash_validator(a)
  <2>1. a \in DOMAIN validators /\ validators[a] \in Validator
    BY <1>2 DEF slash_validator, Typed, ValidatorsTyped
  <2>2. PICK left : left = validators[a].stake
                             - slash_penalty(validators[a].stake, EvidenceRatio)
    OBVIOUS
  <2>3. slash_penalty(validators[a].stake, EvidenceRatio) \in 0..validators[a].stake
    BY <2>1, Constants, PenaltyRange DEF Validator
  <2>4. left \in Nat
    BY <2>1, <2>2, <2>3 DEF Validator
  <2>5. PICK until : until = epoch + JailEpochs
    OBVIOUS
  <2>6. until \in 0..(MaxEpoch + JailEpochs)
    BY <2>5, Constants DEF Typed
  <2>7. validators' = [validators EXCEPT
                         ![a].stake = left, ![a].slashed = TRUE,
                         ![a].active = FALSE, ![a].jailed = TRUE,
                         ![a].jail_until = until]
    BY <1>2, <2>2, <2>5 DEF slash_validator
  <2>8. ValidatorsTyped(validators')
    BY <1>0, <2>1, <2>4, <2>6, <2>7 DEF ValidatorsTyped, Validator
  <2>9. RegistryTyped(registry')
    BY <1>0, <1>2, Constants, SlashTyped DEF slash_validator
  <2> QED  BY <1>2, <2>8, <2>9 DEF slash_validator, Typed, MissedInEpoch
<1>3. CASE slash_from_report(a)
  <2>1. RegistryTyped(registry')
    BY <1>0, <1>3, Constants, SlashTyped DEF slash_from_report
  <2> QED  BY <1>3, <2>1 DEF slash_from_report, Typed, MissedInEpoch
<1>4. CASE slash_role_only(a)
  <2>1. <<AI_OPERATOR, a>> \in DOMAIN registry
    BY <1>4 DEF slash_role_only, is_active, Registered
  <2>2. RegistryTyped(registry')
    BY <1>0, <1>4, <2>1 DEF slash_role_only, RegistryTyped, Registration
  <2> QED  BY <1>4, <2>2 DEF slash_role_only, Typed, MissedInEpoch
<1>5. ASSUME NEW role, begin_unbonding(a, role)
      PROVE  Typed'
  <2>1. <<role, a>> \in DOMAIN registry
    BY <1>5 DEF begin_unbonding, is_active, Registered
  <2>2. epoch + UnbondingEpochs \in Releases
    BY Constants DEF Typed, Releases
  <2>3. RegistryTyped(registry')
    BY <1>0, <1>5, <2>1, <2>2 DEF begin_unbonding, RegistryTyped, Registration
  <2> QED  BY <1>5, <2>3 DEF begin_unbonding, Typed, MissedInEpoch
<1>6. ASSUME NEW role, withdraw(a, role)
      PROVE  Typed'
  <2>1. registry[<<role, a>>].stake \in Nat
    BY <1>0, <1>6 DEF withdraw, Matured, Registered, RegistryTyped, Registration
  <2>2. balance' \in [Accounts -> Nat]
    BY <1>6, <2>1 DEF withdraw, Typed
  <2>3. RegistryTyped(registry')
    BY <1>0, <1>6 DEF withdraw, Closed, Without, RegistryTyped
  <2> QED  BY <1>6, <2>2, <2>3 DEF withdraw, Typed, MissedInEpoch
<1> QED  BY <1>1, <1>2, <1>3, <1>4, <1>5, <1>6

\* What an epoch close may do to a validator's record.
LEMMA ClosedTyped ==
    ASSUME ValidatorsTyped(validators), NEW a \in DOMAIN validators, NEW voted,
           NEW now \in 0..MaxEpoch
    PROVE  /\ Released(Governed(a, voted), now) \in Validator
           /\ Punished(Released(Governed(a, voted), now), now) \in Validator
<1>1. validators[a] \in Validator
    BY DEF ValidatorsTyped
<1>2. PICK g : g = Governed(a, voted)
    OBVIOUS
<1>3. g \in Validator
    BY <1>1, <1>2 DEF Governed, Validator
<1>4. PICK active : active = (g.stake > 0 /\ ~g.slashed /\ g.ready)
    OBVIOUS
<1>5. active \in BOOLEAN
    BY <1>4
<1>6. PICK r : r = Released(g, now)
    OBVIOUS
<1>7. r = g \/ r = [g EXCEPT !.jailed = FALSE, !.active = active]
    BY <1>4, <1>6 DEF Released
<1>8. r \in Validator
    BY <1>3, <1>5, <1>7 DEF Validator
<1>9. now + JailEpochs \in 0..(MaxEpoch + JailEpochs)
    BY Constants
<1>10. Punished(r, now) \in Validator
    BY <1>8, <1>9 DEF Punished, Validator
<1> QED  BY <1>2, <1>6, <1>8, <1>10

\* The cuts of an epoch close keep the registry's type and keys.
LEMMA CutTyped ==
    ASSUME RegistryTyped(registry), NEW offenders
    PROVE  RegistryTyped(Cut(offenders)) /\ DOMAIN Cut(offenders) = DOMAIN registry
<1>1. ASSUME NEW key \in DOMAIN registry
      PROVE  slash(VALIDATOR, key[2], ReportRatio)[key] \in Registration
    BY <1>1, Constants, SlashTyped DEF RegistryTyped
<1> QED  BY <1>1 DEF Cut, RegistryTyped

\* The block that closes an epoch keeps the types.
LEMMA CloseEpochTypes ==
    ASSUME Typed, NEW producers \in SUBSET Accounts, NEW voted \in SUBSET Accounts,
           CloseEpoch(producers, voted)
    PROVE  Typed'
<1> DEFINE now == epoch + 1
           absent == Expected \ producers
           offenders == IF LivenessSlashing THEN Reports(absent) ELSE {}
<1>0. RegistryTyped(registry) /\ ValidatorsTyped(validators)
    BY DEF Typed
<1>1. now \in 0..MaxEpoch /\ now \in Nat /\ epoch' = now /\ epoch \in Nat
    BY Constants DEF CloseEpoch, Typed
<1>2. Expected \subseteq Accounts
    BY <1>0 DEF Expected, ValidatorsTyped
<1>3. Reports(absent) \subseteq Accounts /\ offenders \subseteq Accounts
    BY <1>2 DEF Reports
<1>4. balance' \in [Accounts -> Nat]
  <2>1. \A a \in Accounts : Owed(a, now) \in Nat
    BY <1>1, OwedNat, TypedIsTypeOK
  <2>2. balance' = [a \in Accounts |-> balance[a] + Owed(a, now)]
    BY DEF CloseEpoch
  <2> QED  BY <2>1, <2>2 DEF Typed
<1>5. ValidatorsTyped(validators')
  <2>1. \A a \in DOMAIN validators :
          /\ Released(Governed(a, voted), now) \in Validator
          /\ Punished(Released(Governed(a, voted), now), now) \in Validator
    BY <1>0, <1>1, ClosedTyped
  <2>2. validators' = [a \in DOMAIN validators |->
                         IF a \in offenders
                         THEN Punished(Released(Governed(a, voted), now), now)
                         ELSE Released(Governed(a, voted), now)]
    BY DEF CloseEpoch
  <2> QED  BY <1>0, <2>1, <2>2 DEF ValidatorsTyped
<1>6. RegistryTyped(registry')
    BY <1>0, CutTyped DEF CloseEpoch
<1>7. unbonding' \in [Accounts -> [Releases -> Nat]]
    BY DEF CloseEpoch, Typed
<1>8. \A a \in Accounts, r \in Releases : unbonding'[a][r] > 0 => epoch' < r
    BY <1>1, Constants DEF CloseEpoch, Due, Releases
<1>9. missed' \in [Accounts -> 0..MaxEpoch] /\ MissedInEpoch'
  <2>1. \A a \in Accounts : missed[a] \in 0..MaxEpoch /\ missed[a] <= epoch
    BY DEF Typed, MissedInEpoch
  <2>2. missed' = [a \in Accounts |->
                     CASE a \in absent -> missed[a] + 1
                       [] a \in Expected \cap producers -> 0
                       [] OTHER -> missed[a]]
    BY DEF CloseEpoch
  <2>3. \A a \in Accounts : missed'[a] \in {missed[a] + 1, 0, missed[a]}
    BY <2>2
  <2>4. \A a \in Accounts : missed'[a] \in 0..MaxEpoch /\ missed'[a] <= now
    BY <1>1, <2>1, <2>3, Constants
  <2>5. missed' = [a \in Accounts |-> missed'[a]]
    BY <2>2
  <2> QED  BY <1>1, <2>4, <2>5 DEF MissedInEpoch
<1>10. reported' \subseteq Accounts /\ records' \subseteq Accounts
    BY <1>3 DEF CloseEpoch, Typed
<1> QED  BY <1>1, <1>4, <1>5, <1>6, <1>7, <1>8, <1>9, <1>10 DEF Typed

\* Types are kept by every step.
LEMMA TypesStep ==
    ASSUME Typed, [Next]_vars
    PROVE  Typed'
<1>1. CASE UNCHANGED vars
    BY <1>1 DEF vars, Typed, MissedInEpoch
<1>2. ASSUME NEW a \in Accounts, NEW amount \in UNION {OfferedBy(b) : b \in Accounts},
             \/ Stake(a, amount)
             \/ Unstake(a, amount)
             \/ bond_ai_operator(a, amount)
             \/ \E role \in BondRoles : bond_role(a, role, amount)
      PROVE  Typed'
  <2>1. amount \in Nat /\ amount > 0
    BY AmountsNat
  <2> QED  BY <1>2, <2>1, TransactionTypes
<1>3. ASSUME NEW a \in Accounts,
             \/ RegisterConsensusKeys(a)
             \/ slash_validator(a)
             \/ slash_from_report(a)
             \/ slash_role_only(a)
             \/ \E role \in BondRoles \union {AI_OPERATOR} :
                   begin_unbonding(a, role) \/ withdraw(a, role)
      PROVE  Typed'
    BY <1>3, CallTypes
<1>4. ASSUME NEW producers \in SUBSET Accounts, NEW voted \in SUBSET Accounts,
             CloseEpoch(producers, voted)
      PROVE  Typed'
    BY <1>4, CloseEpochTypes
<1> QED  BY <1>1, <1>2, <1>3, <1>4 DEF Next

\* The types hold at the start.
LEMMA TypesInit == Init => Typed
<1>1. Releases \subseteq Nat
    BY Constants DEF Releases
<1> QED  BY <1>1, Constants DEF Init, Typed, ValidatorsTyped, RegistryTyped, MissedInEpoch

\* The account state keeps its types, and nothing the unbonding queue holds
\* is overdue: process_unbonding pays an entry at the first close that
\* reaches its release epoch.
THEOREM StakingTypes == Spec => []TypeOK
<1>1. Init => Typed
    BY TypesInit
<1>2. Typed /\ [Next]_vars => Typed'
    BY TypesStep
<1>3. Typed => TypeOK
    BY TypedIsTypeOK
<1> QED  BY <1>1, <1>2, <1>3, PTL DEF Spec

-----------------------------------------------------------------------------
(* What the registry's operations do to one entry *)

\* upsert_stake replaces the stake of its own entry and nothing else; it
\* leaves no entry only for a stake below the minimum.
LEMMA UpsertEffect ==
    ASSUME RegistryTyped(registry), NEW role, NEW a, NEW total \in Nat,
           NEW r, r = upsert_stake(role, a, total)
    PROVE  /\ \A key : key # <<role, a>> =>
                 /\ key \in DOMAIN r <=> key \in DOMAIN registry
                 /\ key \in DOMAIN registry => r[key] = registry[key]
           /\ <<role, a>> \in DOMAIN r => r[<<role, a>>].stake = total
           /\ <<role, a>> \notin DOMAIN r => total < RegistryMinStake
           /\ (<<role, a>> \in DOMAIN registry /\ total # 0) => <<role, a>> \in DOMAIN r
           /\ (<<role, a>> \notin DOMAIN registry /\ total < RegistryMinStake)
                => <<role, a>> \notin DOMAIN r
           /\ (<<role, a>> \in DOMAIN registry /\ <<role, a>> \in DOMAIN r)
                => r[<<role, a>>].status = registry[<<role, a>>].status
           /\ (<<role, a>> \notin DOMAIN registry /\ <<role, a>> \in DOMAIN r)
                => r[<<role, a>>].status = "Active"
           /\ Slashed(role, a) => <<role, a>> \in DOMAIN r
<1> DEFINE key == <<role, a>>
<1>0. \A k \in DOMAIN registry : registry[k] \in Registration
    BY DEF RegistryTyped
<1>c. RegistryMinStake \in Nat \ {0}
    BY Constants
<1> HIDE DEF key
<1>1. CASE key \in DOMAIN registry /\ total = 0 /\ registry[key].status # "Slashed"
  <2>1. r = Without(registry, key)
    BY <1>1 DEF upsert_stake, key
  <2> QED  BY <1>1, <1>c, <2>1 DEF Without, key, Slashed
<1>2. CASE key \in DOMAIN registry /\ ~(total = 0 /\ registry[key].status # "Slashed")
  <2>1. r = [registry EXCEPT ![key].stake = total]
    BY <1>2 DEF upsert_stake, key
  <2> QED  BY <1>0, <1>2, <2>1 DEF key, Registration
<1>3. CASE key \notin DOMAIN registry /\ total >= RegistryMinStake
  <2>1. r = With(registry, key, NewEntry(total))
    BY <1>3 DEF upsert_stake, key
  <2> QED  BY <1>3, <1>c, <2>1 DEF With, key, NewEntry, Slashed, Registered
<1>4. CASE key \notin DOMAIN registry /\ ~(total >= RegistryMinStake)
  <2>1. r = registry
    BY <1>4 DEF upsert_stake, key
  <2> QED  BY <1>4, <1>c, <2>1 DEF key, Slashed, Registered
<1> QED  BY <1>1, <1>2, <1>3, <1>4

\* slash cuts the entries of one account, none of another, and never lifts a
\* slash; the role it names ends slashed.
LEMMA SlashEffect ==
    ASSUME RegistryTyped(registry), NEW role, NEW a, NEW ratio \in 0..Scale,
           NEW r, r = slash(role, a, ratio)
    PROVE  /\ DOMAIN r = DOMAIN registry
           /\ \A key \in DOMAIN registry :
                /\ key[2] # a => r[key] = registry[key]
                /\ registry[key].status = "Slashed" => r[key] = registry[key]
                /\ r[key].stake \in 0..registry[key].stake
           /\ Registered(role, a) =>
                /\ r[<<role, a>>].status = "Slashed"
                /\ ~Slashed(role, a) =>
                     r[<<role, a>>].stake =
                        registry[<<role, a>>].stake
                          - slash_penalty(registry[<<role, a>>].stake, ratio)
<1> DEFINE cut(key) == [registry[key] EXCEPT
                          !.stake = @ - slash_penalty(@, ratio),
                          !.status = "Slashed"]
<1>0. ASSUME NEW key \in DOMAIN registry
      PROVE  /\ registry[key].stake \in Nat
             /\ cut(key).status = "Slashed"
             /\ cut(key).stake =
                  registry[key].stake - slash_penalty(registry[key].stake, ratio)
             /\ cut(key).stake \in 0..registry[key].stake
  <2>1. registry[key] \in Registration
    BY <1>0 DEF RegistryTyped
  <2>2. slash_penalty(registry[key].stake, ratio) \in 0..registry[key].stake
    BY <2>1, PenaltyRange DEF Registration
  <2> QED  BY <2>1, <2>2 DEF Registration
<1> HIDE DEF cut
<1>1. CASE Registered(role, a) /\ ~Slashed(role, a)
  <2>1. r = [key \in DOMAIN registry |->
               IF key[2] = a /\ registry[key].status # "Slashed"
               THEN cut(key) ELSE registry[key]]
    BY <1>1 DEF slash, cut
  <2>2. \A key \in DOMAIN registry :
          /\ key[2] # a => r[key] = registry[key]
          /\ registry[key].status = "Slashed" => r[key] = registry[key]
          /\ r[key].stake \in 0..registry[key].stake
    BY <1>0, <2>1
  <2>3. <<role, a>> \in DOMAIN registry /\ registry[<<role, a>>].status # "Slashed"
    BY <1>1 DEF Registered, Slashed
  <2>4. r[<<role, a>>] = cut(<<role, a>>)
    BY <2>1, <2>3
  <2> QED  BY <1>0, <2>1, <2>2, <2>3, <2>4
<1>2. CASE ~(Registered(role, a) /\ ~Slashed(role, a))
  <2>1. r = registry
    BY <1>2 DEF slash
  <2>2. Registered(role, a) => Slashed(role, a)
    BY <1>2
  <2> QED  BY <1>0, <2>1, <2>2 DEF Slashed
<1> QED  BY <1>1, <1>2

\* The cuts of an epoch close are slashes of the offenders' accounts.
LEMMA CutEffect ==
    ASSUME RegistryTyped(registry), NEW offenders, NEW r, r = Cut(offenders)
    PROVE  /\ DOMAIN r = DOMAIN registry
           /\ \A key \in DOMAIN registry :
                /\ key[2] \notin offenders => r[key] = registry[key]
                /\ registry[key].status = "Slashed" => r[key] = registry[key]
                /\ r[key].stake \in 0..registry[key].stake
           /\ \A a \in offenders :
                Registered(VALIDATOR, a) => r[<<VALIDATOR, a>>].status = "Slashed"
<1>1. ReportRatio \in 0..Scale
    BY Constants
<1>2. r = [key \in DOMAIN registry |->
             IF key[2] \in offenders
             THEN slash(VALIDATOR, key[2], ReportRatio)[key]
             ELSE registry[key]]
    BY DEF Cut
<1>3. ASSUME NEW key \in DOMAIN registry
      PROVE  /\ registry[key].status = "Slashed" =>
                  slash(VALIDATOR, key[2], ReportRatio)[key] = registry[key]
             /\ slash(VALIDATOR, key[2], ReportRatio)[key].stake \in 0..registry[key].stake
             /\ registry[key].stake \in 0..registry[key].stake
  <2>1. PICK q : q = slash(VALIDATOR, key[2], ReportRatio)
    OBVIOUS
  <2>2. /\ registry[key].status = "Slashed" => q[key] = registry[key]
        /\ q[key].stake \in 0..registry[key].stake
    BY <1>1, <2>1, SlashEffect, ZenonT(40)
  <2>3. registry[key].stake \in Nat
    BY DEF RegistryTyped, Registration
  <2> QED  BY <2>1, <2>2, <2>3
<1>4. ASSUME NEW a \in offenders, Registered(VALIDATOR, a)
      PROVE  r[<<VALIDATOR, a>>].status = "Slashed"
  <2>1. PICK q : q = slash(VALIDATOR, a, ReportRatio)
    OBVIOUS
  <2>2. q[<<VALIDATOR, a>>].status = "Slashed"
    BY <1>1, <1>4, <2>1, SlashEffect
  <2>3. <<VALIDATOR, a>> \in DOMAIN registry /\ <<VALIDATOR, a>>[2] = a
    BY <1>4 DEF Registered
  <2> QED  BY <1>2, <2>1, <2>2, <2>3
<1> QED  BY <1>2, <1>3, <1>4

\* The step leaves the account's entry for the role as it is.
Kept(role, b) ==
    /\ Registered(role, b)' <=> Registered(role, b)
    /\ Registered(role, b) => registry'[<<role, b>>] = registry[<<role, b>>]

\* upsert_stake keeps the other entries.
LEMMA UpsertKeeps ==
    ASSUME NEW role, NEW a, NEW total, registry' = upsert_stake(role, a, total),
           NEW other, NEW b, <<other, b>> # <<role, a>>
    PROVE  Kept(other, b)
<1>1. PICK key, mine : key = <<other, b>> /\ mine = <<role, a>> /\ key # mine
    OBVIOUS
<1>2. \/ registry' = Without(registry, mine)
      \/ registry' = [registry EXCEPT ![mine].stake = total]
      \/ registry' = With(registry, mine, NewEntry(total))
      \/ registry' = registry
    BY <1>1 DEF upsert_stake
<1>3. /\ key \in DOMAIN registry' <=> key \in DOMAIN registry
      /\ key \in DOMAIN registry => registry'[key] = registry[key]
    BY <1>1, <1>2 DEF With, Without
<1> QED  BY <1>1, <1>3 DEF Kept, Registered

\* slash keeps the entries of the other accounts.
LEMMA SlashKeeps ==
    ASSUME NEW role, NEW a, NEW ratio, registry' = slash(role, a, ratio),
           NEW other, NEW b, b # a
    PROVE  Kept(other, b)
<1>1. PICK key : key = <<other, b>>
    OBVIOUS
<1>2. key[2] # a
    BY <1>1
<1>3. /\ key \in DOMAIN registry' <=> key \in DOMAIN registry
      /\ key \in DOMAIN registry => registry'[key] = registry[key]
    BY <1>2 DEF slash
<1> QED  BY <1>1, <1>3 DEF Kept, Registered

\* An epoch close keeps the entries of the accounts that did not offend.
LEMMA CutKeeps ==
    ASSUME RegistryTyped(registry), NEW offenders, registry' = Cut(offenders),
           NEW other, NEW b, b \notin offenders
    PROVE  Kept(other, b)
<1>1. PICK key : key = <<other, b>>
    OBVIOUS
<1>2. PICK r : r = Cut(offenders)
    OBVIOUS
<1>3. key[2] \notin offenders
    BY <1>1
<1>4. /\ DOMAIN r = DOMAIN registry
      /\ key \in DOMAIN registry => r[key] = registry[key]
    BY <1>2, <1>3, CutEffect
<1> QED  BY <1>1, <1>2, <1>4 DEF Kept, Registered

-----------------------------------------------------------------------------
(* The two copies of a validator's stake *)

\* What MirrorInStep says of one validator.
InStep(a) ==
    IF Registered(VALIDATOR, a)
    THEN registry[<<VALIDATOR, a>>].stake = validators[a].stake
    ELSE validators[a].stake < RegistryMinStake

\* A step that leaves the validator's entry, its stake and its flag alone
\* keeps what the two invariants say of it.
LEMMA OtherValidator ==
    ASSUME SlashHasCause, MirrorInStep, NEW a \in Accounts,
           Kept(VALIDATOR, a),
           a \in DOMAIN validators' <=> a \in DOMAIN validators,
           a \in DOMAIN validators =>
              /\ validators'[a].stake = validators[a].stake
              /\ validators[a].slashed => validators'[a].slashed,
           records \subseteq records'
    PROVE  /\ a \in DOMAIN validators' \ records' => InStep(a)'
           /\ Slashed(VALIDATOR, a)' =>
                a \in records' \/ (a \in DOMAIN validators' /\ validators'[a].slashed)
<1>1. Slashed(VALIDATOR, a)' => Slashed(VALIDATOR, a)
    BY DEF Slashed, Registered, Kept
<1>2. Slashed(VALIDATOR, a)' =>
        a \in records' \/ (a \in DOMAIN validators' /\ validators'[a].slashed)
    BY <1>1 DEF SlashHasCause
<1>3. a \in DOMAIN validators' \ records' => InStep(a)'
    BY DEF MirrorInStep, InStep, Registered, Kept
<1> QED  BY <1>2, <1>3

\* Every step keeps the two copies in step and every slash explained.
LEMMA MirrorStep ==
    ASSUME StakingInv, [Next]_vars
    PROVE  MirrorInStep' /\ SlashHasCause'
<1>0. Typed /\ Typed' /\ SlashHasCause /\ MirrorInStep
    BY TypesStep, TypedIsTypeOK DEF StakingInv
<1>1. RegistryTyped(registry) /\ ValidatorsTyped(validators)
      /\ DOMAIN validators \subseteq Accounts /\ DOMAIN validators' \subseteq Accounts
    BY <1>0 DEF Typed, ValidatorsTyped
<1>2. SUFFICES ASSUME NEW b \in Accounts
               PROVE  /\ b \in DOMAIN validators' \ records' => InStep(b)'
                      /\ Slashed(VALIDATOR, b)' =>
                           b \in records' \/ (b \in DOMAIN validators' /\ validators'[b].slashed)
    BY <1>1 DEF MirrorInStep, InStep, SlashHasCause
<1> DEFINE Goal == /\ b \in DOMAIN validators' \ records' => InStep(b)'
                   /\ Slashed(VALIDATOR, b)' =>
                        b \in records' \/ (b \in DOMAIN validators' /\ validators'[b].slashed)
<1>3. CASE UNCHANGED vars
    BY <1>0, <1>3, OtherValidator DEF vars, Registered, Kept
<1>4. ASSUME NEW a \in Accounts, NEW amount \in Nat, amount > 0, Stake(a, amount)
      PROVE  Goal
  <2> DEFINE w == IF a \in DOMAIN validators
                  THEN [validators[a] EXCEPT
                          !.stake = @ + amount,
                          !.active = /\ validators[a].stake + amount >= NetworkMinStake
                                     /\ validators[a].ready]
                  ELSE NewValidator(amount)
  <2>1. PICK v : /\ validators' = With(validators, a, v)
                 /\ registry' = upsert_stake(VALIDATOR, a, v.stake)
                 /\ a \in DOMAIN validators => v.slashed = validators[a].slashed
    <3>1. validators' = With(validators, a, w) /\ registry' = upsert_stake(VALIDATOR, a, w.stake)
      BY <1>4 DEF Stake, Mirrored
    <3>2. a \in DOMAIN validators => w.slashed = validators[a].slashed
      BY <1>1 DEF ValidatorsTyped, Validator
    <3> HIDE DEF w
    <3> QED  BY <3>1, <3>2
  <2> HIDE DEF w
  <2>2. a \in DOMAIN validators' /\ validators'[a] = v /\ v.stake \in Nat
    BY <1>0, <2>1 DEF With, Typed, ValidatorsTyped, Validator
  <2>3. CASE b = a
    <3>1. InStep(b)'
      BY <1>1, <2>1, <2>2, <2>3, UpsertEffect DEF InStep, Registered
    <3>2. Slashed(VALIDATOR, b)' => Slashed(VALIDATOR, b)
      BY <1>1, <2>1, <2>2, <2>3, UpsertEffect DEF Slashed, Registered
    <3>3. records' = records
      BY <1>4 DEF Stake
    <3> QED  BY <1>0, <2>1, <2>2, <2>3, <3>1, <3>2, <3>3 DEF SlashHasCause
  <2>4. CASE b # a
    <3>1. <<VALIDATOR, b>> # <<VALIDATOR, a>>
      BY <2>4
    <3>2. Kept(VALIDATOR, b)
      BY <1>1, <2>1, <2>2, <3>1, UpsertKeeps
    <3>3. /\ b \in DOMAIN validators' <=> b \in DOMAIN validators
          /\ b \in DOMAIN validators => validators'[b] = validators[b]
      BY <2>1, <2>4 DEF With
    <3>4. records' = records
      BY <1>4 DEF Stake
    <3> QED  BY <1>0, <3>2, <3>3, <3>4, OtherValidator
  <2> QED  BY <2>3, <2>4
<1>5. ASSUME NEW a \in Accounts, NEW amount \in Nat, amount > 0, Unstake(a, amount)
      PROVE  Goal
  <2>1. PICK left : /\ a \in DOMAIN validators
                    /\ left = validators[a].stake - amount
                    /\ left \in Nat
    BY <1>1, <1>5 DEF Unstake, ValidatorsTyped, Validator
  <2>2. /\ validators' = [validators EXCEPT ![a].stake = left,
                                            ![a].active = @ /\ left # 0]
        /\ registry' = upsert_stake(VALIDATOR, a, left)
        /\ records' = records
    BY <1>5, <2>1 DEF Unstake, Mirrored
  <2>3. /\ DOMAIN validators' = DOMAIN validators
        /\ validators'[a].stake = left
        /\ validators'[a].slashed = validators[a].slashed
        /\ b # a /\ b \in DOMAIN validators => validators'[b] = validators[b]
    BY <1>1, <2>1, <2>2 DEF ValidatorsTyped, Validator
  <2>4. CASE b = a
    <3>1. InStep(b)'
      BY <1>1, <2>1, <2>2, <2>3, <2>4, UpsertEffect DEF InStep, Registered
    <3>2. Slashed(VALIDATOR, b)' => Slashed(VALIDATOR, b)
      BY <1>1, <2>1, <2>2, <2>4, UpsertEffect DEF Slashed, Registered
    <3> QED  BY <1>0, <2>1, <2>2, <2>3, <2>4, <3>1, <3>2 DEF SlashHasCause
  <2>5. CASE b # a
    <3>1. <<VALIDATOR, b>> # <<VALIDATOR, a>>
      BY <2>5
    <3>2. Kept(VALIDATOR, b)
      BY <1>1, <2>1, <2>2, <3>1, UpsertKeeps
    <3> QED  BY <1>0, <2>2, <2>3, <2>5, <3>2, OtherValidator
  <2> QED  BY <2>4, <2>5
<1>6. ASSUME NEW a \in Accounts, NEW amount, bond_ai_operator(a, amount)
      PROVE  Goal
  <2>1. <<VALIDATOR, b>> # <<AI_OPERATOR, a>>
    BY Constants
  <2>2. Kept(VALIDATOR, b)
    BY <1>6, <2>1 DEF bond_ai_operator, With, Registered, Kept
  <2>3. validators' = validators /\ records' = records
    BY <1>6 DEF bond_ai_operator
  <2> QED  BY <1>0, <2>2, <2>3, OtherValidator
<1>7. ASSUME NEW a \in Accounts, NEW amount \in Nat, NEW role \in BondRoles,
             bond_role(a, role, amount)
      PROVE  Goal
  <2>1. <<VALIDATOR, b>> # <<role, a>>
    BY Constants
  <2>2. registry' = upsert_stake(role, a, amount)
    BY <1>7 DEF bond_role
  <2>3. Kept(VALIDATOR, b)
    BY <1>1, <2>1, <2>2, UpsertKeeps
  <2>4. validators' = validators /\ records' = records
    BY <1>7 DEF bond_role
  <2> QED  BY <1>0, <2>3, <2>4, OtherValidator
<1>8. ASSUME NEW a \in Accounts, RegisterConsensusKeys(a)
      PROVE  Goal
  <2>1. /\ registry' = registry /\ records' = records
        /\ DOMAIN validators' = DOMAIN validators
        /\ b \in DOMAIN validators =>
             /\ validators'[b].stake = validators[b].stake
             /\ validators'[b].slashed = validators[b].slashed
    BY <1>1, <1>8 DEF RegisterConsensusKeys, ValidatorsTyped, Validator
  <2>2. Kept(VALIDATOR, b)
    BY <2>1 DEF Registered, Kept
  <2> QED  BY <1>0, <2>1, <2>2, OtherValidator
<1>9. ASSUME NEW a \in Accounts, slash_validator(a)
      PROVE  Goal
  <2>1. EvidenceRatio \in 0..Scale
    BY Constants
  <2>2. registry' = slash(VALIDATOR, a, EvidenceRatio) /\ records' = records
    BY <1>9 DEF slash_validator
  <2>3. a \in DOMAIN validators /\ ~validators[a].slashed
    BY <1>9 DEF slash_validator
  <2>4. /\ DOMAIN validators' = DOMAIN validators
        /\ validators'[a].stake =
             validators[a].stake - slash_penalty(validators[a].stake, EvidenceRatio)
        /\ validators'[a].slashed = TRUE
        /\ b # a /\ b \in DOMAIN validators => validators'[b] = validators[b]
    BY <1>1, <1>9, <2>3 DEF slash_validator, ValidatorsTyped, Validator
  <2>5. CASE b = a
    <3>1. ASSUME a \notin records
          PROVE  InStep(a)'
      <4>1. ~Slashed(VALIDATOR, a)
        BY <1>0, <2>3, <3>1 DEF SlashHasCause
      <4>2. CASE Registered(VALIDATOR, a)
        <5>1. registry[<<VALIDATOR, a>>].stake = validators[a].stake
          BY <1>0, <2>3, <3>1, <4>2 DEF MirrorInStep
        <5>2. /\ DOMAIN registry' = DOMAIN registry
              /\ registry'[<<VALIDATOR, a>>].stake =
                   registry[<<VALIDATOR, a>>].stake
                     - slash_penalty(registry[<<VALIDATOR, a>>].stake, EvidenceRatio)
          BY <1>1, <2>1, <2>2, <4>1, <4>2, SlashEffect
        <5> QED  BY <2>4, <4>2, <5>1, <5>2 DEF InStep, Registered
      <4>3. CASE ~Registered(VALIDATOR, a)
        <5>1. validators[a].stake < RegistryMinStake /\ validators[a].stake \in Nat
          BY <1>0, <1>1, <2>3, <3>1, <4>3 DEF MirrorInStep, ValidatorsTyped, Validator
        <5>2. slash_penalty(validators[a].stake, EvidenceRatio) \in 0..validators[a].stake
          BY <2>1, <5>1, PenaltyRange
        <5>3. validators'[a].stake < RegistryMinStake
          BY <2>4, <5>1, <5>2, Constants
        <5>4. DOMAIN registry' = DOMAIN registry
          BY <1>1, <2>1, <2>2, SlashEffect
        <5> QED  BY <4>3, <5>3, <5>4 DEF InStep, Registered
      <4> QED  BY <4>2, <4>3
    <3> QED  BY <2>2, <2>3, <2>4, <2>5, <3>1
  <2>6. CASE b # a
    <3>2. Kept(VALIDATOR, b)
      BY <1>1, <2>1, <2>2, <2>6, SlashKeeps
    <3> QED  BY <1>0, <2>2, <2>4, <2>6, <3>2, OtherValidator
  <2> QED  BY <2>5, <2>6
<1>10. ASSUME NEW a \in Accounts, slash_from_report(a)
       PROVE  Goal
  <2>1. /\ registry' = slash(VALIDATOR, a, ReportRatio) /\ validators' = validators
        /\ records' = records \union {a} /\ ReportRatio \in 0..Scale
    BY <1>10, Constants DEF slash_from_report
  <2>2. CASE b = a
    BY <2>1, <2>2
  <2>3. CASE b # a
    <3>2. Kept(VALIDATOR, b)
      BY <1>1, <2>1, <2>3, SlashKeeps
    <3> QED  BY <1>0, <2>1, <3>2, OtherValidator
  <2> QED  BY <2>2, <2>3
<1>11. ASSUME NEW a \in Accounts, slash_role_only(a)
       PROVE  Goal
  <2>1. <<VALIDATOR, b>> # <<AI_OPERATOR, a>>
    BY Constants
  <2>2. Kept(VALIDATOR, b)
    BY <1>11, <2>1 DEF slash_role_only, Registered, Kept
  <2>3. validators' = validators /\ records' = records
    BY <1>11 DEF slash_role_only
  <2> QED  BY <1>0, <2>2, <2>3, OtherValidator
<1>12. ASSUME NEW a \in Accounts, NEW role \in BondRoles \union {AI_OPERATOR},
              begin_unbonding(a, role) \/ withdraw(a, role)
       PROVE  Goal
  <2>1. <<VALIDATOR, b>> # <<role, a>>
    BY Constants
  <2>2. Kept(VALIDATOR, b)
    BY <1>12, <2>1 DEF begin_unbonding, withdraw, Closed, Without, Registered, Kept
  <2>3. validators' = validators /\ records' = records
    BY <1>12 DEF begin_unbonding, withdraw
  <2> QED  BY <1>0, <2>2, <2>3, OtherValidator
<1>13. ASSUME NEW producers \in SUBSET Accounts, NEW voted \in SUBSET Accounts,
              CloseEpoch(producers, voted)
       PROVE  Goal
  <2> DEFINE absent == Expected \ producers
             offenders == IF LivenessSlashing THEN Reports(absent) ELSE {}
  <2>1. /\ registry' = Cut(offenders) /\ records' = records \union offenders
        /\ voted \subseteq records
    BY <1>13 DEF CloseEpoch
  <2>2. /\ DOMAIN validators' = DOMAIN validators
        /\ b \in DOMAIN validators /\ b \notin offenders =>
             validators'[b] = Released(Governed(b, voted), epoch + 1)
    BY <1>13 DEF CloseEpoch
  <2> HIDE DEF offenders
  <2>3. CASE b \in records'
    BY <2>3
  <2>4. CASE b \notin records'
    <3>1. b \notin offenders /\ b \notin voted
      BY <2>1, <2>4
    <3>2. Kept(VALIDATOR, b)
      BY <1>1, <2>1, <3>1, CutKeeps
    <3>3. b \in DOMAIN validators =>
            /\ validators'[b].stake = validators[b].stake
            /\ validators'[b].slashed = validators[b].slashed
      <4>1. Governed(b, voted) = validators[b]
        BY <3>1 DEF Governed
      <4>2. b \in DOMAIN validators => validators[b] \in Validator
        BY <1>1 DEF ValidatorsTyped
      <4> QED  BY <2>2, <3>1, <4>1, <4>2, ZenonT(40) DEF Released, Validator
    <3> QED  BY <1>0, <2>1, <2>2, <3>2, <3>3, OtherValidator
  <2> QED  BY <2>3, <2>4
<1> QED
    BY <1>3, <1>4, <1>5, <1>6, <1>7, <1>8, <1>9, <1>10, <1>11, <1>12, <1>13,
       AmountsNat DEF Next

\* "Keep the on-chain validator's bonded stake in lock-step with its
\* PermissionlessRegistry membership": for every set of accounts and roles,
\* every ratio and every order of staking, slashing and epoch closes, until a
\* report cuts the registry's copy alone.
THEOREM RegistryMirrorsStake == Spec => []MirrorInStep
<1>1. Init => StakingInv
    BY TypesInit, TypedIsTypeOK DEF Init, StakingInv, MirrorInStep, SlashHasCause,
       Slashed, Registered
<1>2. StakingInv /\ [Next]_vars => StakingInv'
  <2> SUFFICES ASSUME StakingInv, [Next]_vars
               PROVE  StakingInv'
    OBVIOUS
  <2>1. Typed'
    BY TypesStep, TypedIsTypeOK DEF StakingInv
  <2>2. TypeOK' /\ MissedInEpoch'
    BY <2>1, TypedIsTypeOK DEF Typed, TypeOK, RegistryTyped, ValidatorsTyped
  <2>3. MirrorInStep' /\ SlashHasCause'
    BY MirrorStep
  <2> QED  BY <2>2, <2>3 DEF StakingInv
<1>3. StakingInv => MirrorInStep
    BY DEF StakingInv
<1> QED  BY <1>1, <1>2, <1>3, PTL DEF Spec

-----------------------------------------------------------------------------
(* A punishment is final *)

\* A step lifts no slash, of a registration or of a validator.
LEMMA SlashesStay ==
    ASSUME Typed, [Next]_vars, NEW b \in Accounts
    PROVE  /\ \A role \in Roles : Slashed(role, b) => Slashed(role, b)'
           /\ (b \in DOMAIN validators /\ validators[b].slashed) =>
                 b \in DOMAIN validators' /\ validators'[b].slashed
<1>0. RegistryTyped(registry) /\ ValidatorsTyped(validators)
    BY DEF Typed
<1> DEFINE RegistrySide == \A role \in Roles : Slashed(role, b) => Slashed(role, b)'
           ValidatorSide == (b \in DOMAIN validators /\ validators[b].slashed) =>
                               b \in DOMAIN validators' /\ validators'[b].slashed
<1>a. ASSUME NEW role, Kept(role, b), Slashed(role, b)
      PROVE  Slashed(role, b)'
    BY <1>a DEF Kept, Slashed, Registered
<1>b. ASSUME NEW role, NEW a, NEW total \in Nat,
             registry' = upsert_stake(role, a, total)
      PROVE  RegistrySide
  <2> SUFFICES ASSUME NEW other \in Roles, Slashed(other, b)
               PROVE  Slashed(other, b)'
    OBVIOUS
  <2>1. CASE <<other, b>> # <<role, a>>
    BY <1>a, <1>b, <2>1, UpsertKeeps
  <2>2. CASE <<other, b>> = <<role, a>>
    <3>1. other = role /\ b = a
      BY <2>2
    <3>2. /\ <<role, a>> \in DOMAIN registry' /\ <<role, a>> \in DOMAIN registry
          /\ registry'[<<role, a>>].status = registry[<<role, a>>].status
      BY <1>0, <1>b, <3>1, UpsertEffect DEF Slashed, Registered
    <3> QED  BY <3>1, <3>2 DEF Slashed, Registered
  <2> QED  BY <2>1, <2>2
<1>c. ASSUME NEW a, NEW ratio \in 0..Scale, registry' = slash(VALIDATOR, a, ratio)
      PROVE  RegistrySide
  <2> SUFFICES ASSUME NEW other \in Roles, Slashed(other, b)
               PROVE  Slashed(other, b)'
    OBVIOUS
  <2>1. <<other, b>> \in DOMAIN registry /\ registry[<<other, b>>].status = "Slashed"
    BY DEF Slashed, Registered
  <2>2. /\ DOMAIN registry' = DOMAIN registry
        /\ registry'[<<other, b>>] = registry[<<other, b>>]
    BY <1>0, <1>c, <2>1, SlashEffect, ZenonT(40)
  <2> QED  BY <2>1, <2>2 DEF Slashed, Registered
<1>1. CASE UNCHANGED vars
    BY <1>1 DEF vars, Slashed, Registered
<1>2. ASSUME NEW a \in Accounts, NEW amount \in Nat, Stake(a, amount)
      PROVE  RegistrySide /\ ValidatorSide
  <2> DEFINE w == IF a \in DOMAIN validators
                  THEN [validators[a] EXCEPT
                          !.stake = @ + amount,
                          !.active = /\ validators[a].stake + amount >= NetworkMinStake
                                     /\ validators[a].ready]
                  ELSE NewValidator(amount)
  <2>1. /\ validators' = With(validators, a, w)
        /\ registry' = upsert_stake(VALIDATOR, a, w.stake)
    BY <1>2 DEF Stake, Mirrored
  <2>2. /\ w.stake \in Nat
        /\ a \in DOMAIN validators => w.slashed = validators[a].slashed
    <3>1. CASE a \in DOMAIN validators
      <4>1. validators[a] \in Validator
        BY <1>0, <3>1 DEF ValidatorsTyped
      <4>2. PICK stake, active :
               w = [validators[a] EXCEPT !.stake = stake, !.active = active]
               /\ stake = validators[a].stake + amount
        BY <3>1
      <4> HIDE DEF w
      <4> QED  BY <4>1, <4>2 DEF Validator
    <3>2. CASE a \notin DOMAIN validators
      BY <3>2 DEF NewValidator
    <3> QED  BY <3>1, <3>2
  <2> HIDE DEF w
  <2>3. RegistrySide
    BY <1>b, <2>1, <2>2
  <2>4. ValidatorSide
    BY <2>1, <2>2 DEF With
  <2> QED  BY <2>3, <2>4
<1>3. ASSUME NEW a \in Accounts, NEW amount \in Nat, Unstake(a, amount)
      PROVE  RegistrySide /\ ValidatorSide
  <2>1. PICK left \in Nat : /\ a \in DOMAIN validators
                            /\ registry' = upsert_stake(VALIDATOR, a, left)
                            /\ validators' = [validators EXCEPT
                                 ![a].stake = left, ![a].active = @ /\ left # 0]
    <3>1. /\ a \in DOMAIN validators
          /\ validators[a].stake - amount \in Nat
      BY <1>0, <1>3 DEF Unstake, ValidatorsTyped, Validator
    <3> QED  BY <1>3, <3>1 DEF Unstake, Mirrored
  <2>2. RegistrySide
    BY <1>b, <2>1
  <2>3. ValidatorSide
    BY <1>0, <2>1 DEF ValidatorsTyped, Validator
  <2> QED  BY <2>2, <2>3
<1>4. ASSUME NEW a \in Accounts, NEW amount, bond_ai_operator(a, amount)
      PROVE  RegistrySide /\ ValidatorSide
    BY <1>4 DEF bond_ai_operator, With, Slashed, Registered
<1>5. ASSUME NEW a \in Accounts, NEW amount \in Nat, NEW role \in BondRoles,
             bond_role(a, role, amount)
      PROVE  RegistrySide /\ ValidatorSide
    BY <1>5, <1>b DEF bond_role
<1>6. ASSUME NEW a \in Accounts, RegisterConsensusKeys(a)
      PROVE  RegistrySide /\ ValidatorSide
  <2>1. RegistrySide
    BY <1>6 DEF RegisterConsensusKeys, Slashed, Registered
  <2>2. ValidatorSide
    BY <1>0, <1>6 DEF RegisterConsensusKeys, ValidatorsTyped, Validator
  <2> QED  BY <2>1, <2>2
<1>7. ASSUME NEW a \in Accounts, slash_validator(a)
      PROVE  RegistrySide /\ ValidatorSide
  <2>1. RegistrySide
    BY <1>7, <1>c, Constants DEF slash_validator
  <2>2. ValidatorSide
    BY <1>0, <1>7 DEF slash_validator, ValidatorsTyped, Validator
  <2> QED  BY <2>1, <2>2
<1>8. ASSUME NEW a \in Accounts, slash_from_report(a)
      PROVE  RegistrySide /\ ValidatorSide
    BY <1>8, <1>c, Constants DEF slash_from_report
<1>9. ASSUME NEW a \in Accounts, slash_role_only(a)
      PROVE  RegistrySide /\ ValidatorSide
    BY <1>0, <1>9 DEF slash_role_only, Slashed, Registered, RegistryTyped, Registration
<1>10. ASSUME NEW a \in Accounts, NEW role, begin_unbonding(a, role)
       PROVE  RegistrySide /\ ValidatorSide
    BY <1>0, <1>10 DEF begin_unbonding, is_active, Slashed, Registered, RegistryTyped, Registration
<1>11. ASSUME NEW a \in Accounts, NEW role, withdraw(a, role)
       PROVE  RegistrySide /\ ValidatorSide
    BY <1>11 DEF withdraw, Matured, Closed, Without, Slashed, Registered
<1>12. ASSUME NEW producers \in SUBSET Accounts, NEW voted \in SUBSET Accounts,
              CloseEpoch(producers, voted)
       PROVE  RegistrySide /\ ValidatorSide
  <2>1. PICK offenders :
          /\ registry' = Cut(offenders)
          /\ validators' = [a \in DOMAIN validators |->
                              LET v == Released(Governed(a, voted), epoch + 1) IN
                              IF a \in offenders THEN Punished(v, epoch + 1) ELSE v]
    BY <1>12 DEF CloseEpoch
  <2>2. RegistrySide
    <3> SUFFICES ASSUME NEW other \in Roles, Slashed(other, b)
                 PROVE  Slashed(other, b)'
      OBVIOUS
    <3>1. <<other, b>> \in DOMAIN registry /\ registry[<<other, b>>].status = "Slashed"
      BY DEF Slashed, Registered
    <3>2. /\ DOMAIN registry' = DOMAIN registry
          /\ registry'[<<other, b>>] = registry[<<other, b>>]
      BY <1>0, <2>1, <3>1, CutEffect
    <3> QED  BY <3>1, <3>2 DEF Slashed, Registered
  <2>3. ValidatorSide
    <3> SUFFICES ASSUME b \in DOMAIN validators, validators[b].slashed
                 PROVE  b \in DOMAIN validators' /\ validators'[b].slashed
      OBVIOUS
    <3>1. validators[b] \in Validator
      BY <1>0 DEF ValidatorsTyped
    <3>2. PICK g : g = Governed(b, voted)
      OBVIOUS
    <3>3. g \in Validator /\ g.slashed
      BY <3>1, <3>2 DEF Governed, Validator
    <3>4. PICK v : v = Released(g, epoch + 1)
      OBVIOUS
    <3>5. v.slashed
      BY <3>3, <3>4 DEF Released, Validator
    <3>6. validators'[b] = v
      BY <2>1, <3>2, <3>4, <3>5 DEF Punished
    <3> QED  BY <2>1, <3>5, <3>6
  <2> QED  BY <2>2, <2>3
<1> QED
    BY <1>1, <1>2, <1>3, <1>4, <1>5, <1>6, <1>7, <1>8, <1>9, <1>10, <1>11, <1>12,
       AmountsNat DEF Next

\* A punishment for what a validator did is final, for every set of accounts
\* and roles and every configuration: no bond, unbonding, withdrawal, jail term
\* that ends or governance vote lifts a slash or lets a slashed validator count
\* again.
THEOREM PunishmentStays == Spec => PunishmentIsFinal
<1>1. Init => Typed
    BY TypesInit
<1>2. Typed /\ [Next]_vars => Typed'
    BY TypesStep
<1>3. ASSUME Typed, [Next]_vars
      PROVE  \A a \in Accounts : ~PunishedForAbsence(a) =>
               /\ \A role \in Roles : Slashed(role, a) => Slashed(role, a)'
               /\ (a \in DOMAIN validators /\ validators[a].slashed) => ~Counted(a)'
  <2> TAKE a \in Accounts
  <2>1. /\ \A role \in Roles : Slashed(role, a) => Slashed(role, a)'
        /\ (a \in DOMAIN validators /\ validators[a].slashed) =>
              a \in DOMAIN validators' /\ validators'[a].slashed
    BY <1>3, SlashesStay
  <2> QED  BY <2>1 DEF Counted
<1>4. Typed /\ [Next]_vars =>
        [\A a \in Accounts : ~PunishedForAbsence(a) =>
           /\ \A role \in Roles : Slashed(role, a) => Slashed(role, a)'
           /\ (a \in DOMAIN validators /\ validators[a].slashed) => ~Counted(a)']_vars
    BY <1>3
<1> QED  BY <1>1, <1>2, <1>4, PTL DEF Spec, PunishmentIsFinal

-----------------------------------------------------------------------------
(* What an account owns *)

OtherRoles == Roles \ {VALIDATOR}

StakeOf(b) == IF b \in DOMAIN validators THEN validators[b].stake ELSE 0

Queued(b) == SumFunctionOnSet(unbonding[b], Releases)

Bonded(b) == SumFunctionOnSet(Bonds(b), OtherRoles)

\* The roles and the release epochs are finite sets.
LEMMA FiniteIndices == IsFiniteSet(OtherRoles) /\ IsFiniteSet(Releases)
<1>1. IsFiniteSet(BondRoles \union {AI_OPERATOR})
    BY Constants, FS_AddElement
<1>2. OtherRoles = BondRoles \union {AI_OPERATOR}
    BY Constants DEF OtherRoles, Roles
<1>3. IsFiniteSet(Releases)
    BY Constants, FS_Interval DEF Releases
<1> QED  BY <1>1, <1>2, <1>3

\* Bonds are naturals, before and after a step.
LEMMA BondsNat ==
    ASSUME Typed, Typed', NEW b \in Accounts
    PROVE  /\ \A role \in OtherRoles : Bonds(b)[role] \in Nat /\ Bonds(b)'[role] \in Nat
           /\ Bonded(b) \in Nat /\ Bonded(b)' \in Nat
<1>1. ASSUME NEW role \in OtherRoles
      PROVE  Bonds(b)[role] \in Nat /\ Bonds(b)'[role] \in Nat
  <2>1. /\ <<role, b>> \in DOMAIN registry => registry[<<role, b>>].stake \in Nat
        /\ <<role, b>> \in DOMAIN registry' => registry'[<<role, b>>].stake \in Nat
    BY DEF Typed, RegistryTyped, Registration
  <2> QED  BY <2>1 DEF Bonds, Registered, OtherRoles
<1>2. Bonded(b) \in Nat
    BY <1>1, FiniteIndices, SumNat DEF Bonded
<1>3. Bonded(b)' \in Nat
    BY <1>1, FiniteIndices, SumNat DEF Bonded
<1> QED  BY <1>1, <1>2, <1>3

\* The queue is a natural, before and after a step.
LEMMA QueuedNat ==
    ASSUME Typed, Typed', NEW b \in Accounts
    PROVE  Queued(b) \in Nat /\ Queued(b)' \in Nat
<1>1. \A r \in Releases : unbonding[b][r] \in Nat /\ unbonding'[b][r] \in Nat
    BY DEF Typed
<1>2. Queued(b) \in Nat
    BY <1>1, FiniteIndices, SumNat DEF Queued
<1>3. Queued(b)' \in Nat
    BY <1>1, FiniteIndices, SumNat DEF Queued
<1> QED  BY <1>2, <1>3

\* The other two terms.
LEMMA LiquidNat ==
    ASSUME Typed, NEW b \in Accounts
    PROVE  balance[b] \in Nat /\ StakeOf(b) \in Nat
BY DEF Typed, StakeOf, ValidatorsTyped, Validator

\* An account whose entries are kept has the same bonds.
LEMMA BondsKept ==
    ASSUME NEW b, \A role \in OtherRoles : Kept(role, b)
    PROVE  Bonds(b)' = Bonds(b) /\ Bonded(b)' = Bonded(b)
<1>1. \A role \in OtherRoles : Bonds(b)'[role] = Bonds(b)[role]
    BY DEF Bonds, Kept, OtherRoles
<1>2. /\ Bonds(b) = [role \in OtherRoles |-> Bonds(b)[role]]
      /\ Bonds(b)' = [role \in OtherRoles |-> Bonds(b)'[role]]
    BY DEF Bonds, OtherRoles
<1>3. Bonds(b)' = Bonds(b)
    BY <1>1, <1>2
<1> QED  BY <1>3 DEF Bonded

\* A step that touches one bond changes their sum by as much.
LEMMA BondChanged ==
    ASSUME Typed, Typed', NEW b \in Accounts, NEW role \in OtherRoles,
           \A other \in OtherRoles \ {role} : Kept(other, b)
    PROVE  Bonded(b)' = Bonded(b) + Bonds(b)'[role] - Bonds(b)[role]
<1>1. \A other \in OtherRoles \ {role} : Bonds(b)'[other] = Bonds(b)[other]
    BY DEF Bonds, Kept, OtherRoles
<1>2. \A other \in OtherRoles :
        Bonds(b)[other] \in Int /\ Bonds(b)'[other] \in Int
    BY BondsNat
<1>3. PICK f, g : f = Bonds(b) /\ g = Bonds(b)'
    OBVIOUS
<1>4. SumFunctionOnSet(g, OtherRoles)
        = SumFunctionOnSet(f, OtherRoles) + g[role] - f[role]
    BY <1>1, <1>2, <1>3, FiniteIndices, SumUpdate
<1> QED  BY <1>3, <1>4 DEF Bonded

\* A step that only cuts entries lowers the sum of the bonds.
LEMMA BondsCut ==
    ASSUME Typed, Typed', NEW b \in Accounts, DOMAIN registry' = DOMAIN registry,
           \A key \in DOMAIN registry : registry'[key].stake \in 0..registry[key].stake
    PROVE  Bonded(b)' <= Bonded(b)
<1>1. \A role \in OtherRoles :
        /\ Bonds(b)[role] \in Int /\ Bonds(b)'[role] \in Int
        /\ Bonds(b)'[role] <= Bonds(b)[role]
  <2> TAKE role \in OtherRoles
  <2>1. Bonds(b)[role] \in Nat /\ Bonds(b)'[role] \in Nat
    BY BondsNat
  <2>2. CASE <<role, b>> \in DOMAIN registry
    BY <2>1, <2>2 DEF Bonds, Registered, OtherRoles
  <2>3. CASE <<role, b>> \notin DOMAIN registry
    BY <2>1, <2>3 DEF Bonds, Registered, OtherRoles
  <2> QED  BY <2>1, <2>2, <2>3
<1>2. PICK f, g : f = Bonds(b)' /\ g = Bonds(b)
    OBVIOUS
<1>3. SumFunctionOnSet(f, OtherRoles) <= SumFunctionOnSet(g, OtherRoles)
    BY <1>1, <1>2, FiniteIndices, SumMonotonic
<1> QED  BY <1>2, <1>3 DEF Bonded

\* What a step may do to what an account owns.
ValueStep(b) ==
    \/ Value(b)' = Value(b)
    \/ Value(b)' < Value(b) /\ (SlashStep(b) \/ BondLost(b))

\* The value is the sum of its four terms.
LEMMA ValueTerms ==
    ASSUME NEW b
    PROVE  /\ Value(b) = balance[b] + StakeOf(b) + Queued(b) + Bonded(b)
           /\ Value(b)' = balance'[b] + StakeOf(b)' + Queued(b)' + Bonded(b)'
BY DEF Value, StakeOf, Queued, Bonded, OtherRoles

\* A step that changes none of the four terms.
LEMMA ValueSame ==
    ASSUME NEW b, balance'[b] = balance[b], StakeOf(b)' = StakeOf(b),
           unbonding'[b] = unbonding[b], \A role \in OtherRoles : Kept(role, b)
    PROVE  ValueStep(b)
<1>1. Queued(b)' = Queued(b)
    BY DEF Queued
<1>2. Bonded(b)' = Bonded(b)
    BY BondsKept
<1> QED  BY <1>1, <1>2, ValueTerms DEF ValueStep

\* Transactions and bonds: what leaves the balance is staked, queued or
\* bonded, unless the registry replaces the bond or does not open it.
LEMMA TransactionValue ==
    ASSUME Typed, Typed', NEW b \in Accounts, NEW a \in Accounts,
           NEW amount \in Nat, amount > 0,
           \/ Stake(a, amount)
           \/ Unstake(a, amount)
           \/ bond_ai_operator(a, amount)
           \/ \E role \in BondRoles : bond_role(a, role, amount)
    PROVE  ValueStep(b)
<1>0. RegistryTyped(registry) /\ ValidatorsTyped(validators)
    BY DEF Typed
<1>n. /\ balance[b] \in Nat /\ StakeOf(b) \in Nat
      /\ Queued(b) \in Nat /\ Queued(b)' \in Nat
      /\ Bonded(b) \in Nat /\ Bonded(b)' \in Nat
    BY LiquidNat, QueuedNat, BondsNat
<1>o. \A role \in OtherRoles : role # VALIDATOR
    BY DEF OtherRoles
<1>1. CASE Stake(a, amount)
  <2> DEFINE w == IF a \in DOMAIN validators
                  THEN [validators[a] EXCEPT
                          !.stake = @ + amount,
                          !.active = /\ validators[a].stake + amount >= NetworkMinStake
                                     /\ validators[a].ready]
                  ELSE NewValidator(amount)
  <2>1. /\ validators' = With(validators, a, w)
        /\ registry' = upsert_stake(VALIDATOR, a, w.stake)
        /\ balance' = [balance EXCEPT ![a] = @ - amount]
        /\ unbonding' = unbonding
    BY <1>1 DEF Stake, Mirrored
  <2>2. w.stake = StakeOf(a) + amount
    <3>1. CASE a \in DOMAIN validators
      <4>1. validators[a] \in Validator
        BY <1>0, <3>1 DEF ValidatorsTyped
      <4>2. PICK active :
               w = [validators[a] EXCEPT !.stake = validators[a].stake + amount,
                                         !.active = active]
        BY <3>1
      <4> HIDE DEF w
      <4> QED  BY <3>1, <4>1, <4>2 DEF Validator, StakeOf
    <3>2. CASE a \notin DOMAIN validators
      BY <3>2 DEF NewValidator, StakeOf
    <3> QED  BY <3>1, <3>2
  <2> HIDE DEF w
  <2>3. \A role \in OtherRoles : Kept(role, b)
    BY <1>o, <2>1, UpsertKeeps
  <2>4. CASE b = a
    <3>1. StakeOf(b)' = StakeOf(b) + amount
      BY <2>1, <2>2, <2>4 DEF StakeOf, With
    <3>2. balance'[b] = balance[b] - amount
      BY <2>1, <2>4 DEF Typed
    <3>3. Queued(b)' = Queued(b) /\ Bonded(b)' = Bonded(b)
      BY <2>1, <2>3, BondsKept DEF Queued
    <3> QED  BY <1>n, <3>1, <3>2, <3>3, ValueTerms DEF ValueStep
  <2>5. CASE b # a
    <3>1. StakeOf(b)' = StakeOf(b)
      BY <2>1, <2>5 DEF StakeOf, With
    <3>2. balance'[b] = balance[b]
      BY <2>1, <2>5 DEF Typed
    <3> QED  BY <2>1, <2>3, <3>1, <3>2, ValueSame
  <2> QED  BY <2>4, <2>5
<1>2. CASE Unstake(a, amount)
  <2>1. PICK left \in Nat : /\ a \in DOMAIN validators
                            /\ left = validators[a].stake - amount
                            /\ registry' = upsert_stake(VALIDATOR, a, left)
                            /\ validators' = [validators EXCEPT
                                 ![a].stake = left, ![a].active = @ /\ left # 0]
    <3>1. /\ a \in DOMAIN validators
          /\ validators[a].stake - amount \in Nat
      BY <1>0, <1>2 DEF Unstake, ValidatorsTyped, Validator
    <3> QED  BY <1>2, <3>1 DEF Unstake, Mirrored
  <2>2. PICK at \in Releases : /\ unbonding' = [unbonding EXCEPT ![a][at] = @ + amount]
                               /\ balance' = balance
    <3>1. epoch + UnbondingEpochs \in Releases
      BY Constants DEF Typed, Releases
    <3> QED  BY <1>2, <3>1 DEF Unstake
  <2>3. \A role \in OtherRoles : Kept(role, b)
    BY <1>o, <2>1, UpsertKeeps
  <2>4. CASE b = a
    <3>1. StakeOf(b)' = StakeOf(b) - amount
      BY <1>0, <2>1, <2>4 DEF StakeOf, ValidatorsTyped, Validator
    <3>2. PICK f, g : f = unbonding[b] /\ g = unbonding'[b]
      OBVIOUS
    <3>3. /\ \A r \in Releases : f[r] \in Int /\ g[r] \in Int
          /\ \A r \in Releases \ {at} : g[r] = f[r]
          /\ g[at] = f[at] + amount
      BY <2>2, <2>4, <3>2 DEF Typed
    <3>4. SumFunctionOnSet(g, Releases) = SumFunctionOnSet(f, Releases) + g[at] - f[at]
      BY <3>3, FiniteIndices, SumUpdate
    <3>5. f[at] \in Int /\ SumFunctionOnSet(f, Releases) \in Int
      BY <3>3, FiniteIndices, SumInt
    <3>6. Queued(b)' = Queued(b) + amount
      BY <3>2, <3>3, <3>4, <3>5 DEF Queued
    <3>7. Bonded(b)' = Bonded(b) /\ balance'[b] = balance[b]
      BY <2>2, <2>3, BondsKept
    <3> QED  BY <1>n, <3>1, <3>6, <3>7, ValueTerms DEF ValueStep
  <2>5. CASE b # a
    <3>1. StakeOf(b)' = StakeOf(b)
      BY <2>1, <2>5 DEF StakeOf
    <3>2. balance'[b] = balance[b] /\ unbonding'[b] = unbonding[b]
      BY <2>2, <2>5 DEF Typed
    <3> QED  BY <2>3, <3>1, <3>2, ValueSame
  <2> QED  BY <2>4, <2>5
<1>3. CASE bond_ai_operator(a, amount)
  <2>1. /\ registry' = With(registry, <<AI_OPERATOR, a>>, NewEntry(amount))
        /\ balance' = [balance EXCEPT ![a] = @ - amount]
        /\ validators' = validators /\ unbonding' = unbonding
        /\ ~Registered(AI_OPERATOR, a)
    BY <1>3 DEF bond_ai_operator
  <2>2. StakeOf(b)' = StakeOf(b) /\ Queued(b)' = Queued(b)
    BY <2>1 DEF StakeOf, Queued
  <2>3. ASSUME NEW role, <<role, b>> # <<AI_OPERATOR, a>>
        PROVE  Kept(role, b)
    BY <2>1, <2>3 DEF With, Kept, Registered
  <2>4. CASE b = a
    <3>1. AI_OPERATOR \in OtherRoles
      BY Constants DEF OtherRoles, Roles
    <3>2. \A other \in OtherRoles \ {AI_OPERATOR} : Kept(other, b)
      BY <2>3
    <3>3. Bonds(b)[AI_OPERATOR] = 0 /\ Bonds(b)'[AI_OPERATOR] = amount
      BY <2>1, <2>4, <3>1 DEF Bonds, Registered, With, NewEntry, OtherRoles
    <3>4. Bonded(b)' = Bonded(b) + Bonds(b)'[AI_OPERATOR] - Bonds(b)[AI_OPERATOR]
      BY <3>1, <3>2, BondChanged
    <3>5. balance'[b] = balance[b] - amount
      BY <2>1, <2>4 DEF Typed
    <3> QED  BY <1>n, <2>2, <3>3, <3>4, <3>5, ValueTerms DEF ValueStep
  <2>5. CASE b # a
    <3>1. \A role \in OtherRoles : Kept(role, b)
      BY <2>3, <2>5
    <3>2. balance'[b] = balance[b]
      BY <2>1, <2>5 DEF Typed
    <3> QED  BY <2>1, <2>2, <3>1, <3>2, ValueSame
  <2> QED  BY <2>4, <2>5
<1>4. ASSUME NEW role \in BondRoles, bond_role(a, role, amount)
      PROVE  ValueStep(b)
  <2>1. /\ registry' = upsert_stake(role, a, amount)
        /\ balance' = [balance EXCEPT ![a] = @ - amount]
        /\ validators' = validators /\ unbonding' = unbonding
    BY <1>4 DEF bond_role
  <2>2. StakeOf(b)' = StakeOf(b) /\ Queued(b)' = Queued(b)
    BY <2>1 DEF StakeOf, Queued
  <2>3. \A other : <<other, b>> # <<role, a>> => Kept(other, b)
    BY <2>1, UpsertKeeps
  <2>4. CASE b = a
    <3>1. role \in OtherRoles
      BY Constants DEF OtherRoles, Roles
    <3>2. \A other \in OtherRoles \ {role} : Kept(other, b)
      BY <2>3
    <3>3. Bonded(b)' = Bonded(b) + Bonds(b)'[role] - Bonds(b)[role]
      BY <3>1, <3>2, BondChanged
    <3>4. balance'[b] = balance[b] - amount /\ balance[b] - balance'[b] = amount
      BY <1>n, <2>1, <2>4 DEF Typed
    <3>5. Bonds(b)[role] \in Nat
      BY <3>1, BondsNat
    <3>6. CASE Registered(role, a)
      <4>1. <<role, a>> \in DOMAIN registry' /\ registry'[<<role, a>>].stake = amount
        BY <1>0, <2>1, <3>6, UpsertEffect DEF Registered
      <4>2. Bonds(b)'[role] = amount
        BY <2>4, <3>1, <4>1 DEF Bonds, Registered, OtherRoles
      <4>3. BondLost(b)
        BY <2>4, <3>4, <3>6, <4>1 DEF BondLost
      <4>4. Value(b)' = Value(b) - Bonds(b)[role]
        BY <1>n, <2>2, <3>3, <3>4, <3>5, <4>2, ValueTerms
      <4>5. Value(b) \in Nat
        BY <1>n, ValueTerms
      <4> QED  BY <3>5, <4>3, <4>4, <4>5 DEF ValueStep
    <3>7. CASE ~Registered(role, a) /\ amount >= RegistryMinStake
      <4>1. <<role, a>> \in DOMAIN registry' /\ registry'[<<role, a>>].stake = amount
        BY <2>1, <3>7 DEF Registered, upsert_stake, With, NewEntry
      <4>2. Bonds(b)'[role] = amount /\ Bonds(b)[role] = 0
        BY <2>4, <3>1, <3>7, <4>1 DEF Bonds, Registered, OtherRoles
      <4> QED  BY <1>n, <2>2, <3>3, <3>4, <4>2, ValueTerms DEF ValueStep
    <3>8. CASE ~Registered(role, a) /\ ~(amount >= RegistryMinStake)
      <4>1. registry' = registry
        BY <2>1, <3>8 DEF Registered, upsert_stake
      <4>2. Bonds(b)'[role] = 0 /\ Bonds(b)[role] = 0
        BY <2>4, <3>1, <3>8, <4>1 DEF Bonds, Registered, OtherRoles
      <4>3. amount < RegistryMinStake
        BY <3>8, Constants
      <4>4. BondLost(b)
        BY <2>4, <3>4, <3>8, <4>3 DEF BondLost
      <4>5. Value(b)' = Value(b) - amount /\ Value(b) \in Nat
        BY <1>n, <2>2, <3>3, <3>4, <4>2, ValueTerms
      <4> QED  BY <4>4, <4>5 DEF ValueStep
    <3> QED  BY <3>6, <3>7, <3>8
  <2>5. CASE b # a
    <3>1. \A other \in OtherRoles : Kept(other, b)
      BY <2>3, <2>5
    <3>2. balance'[b] = balance[b]
      BY <2>1, <2>5 DEF Typed
    <3> QED  BY <2>1, <2>2, <3>1, <3>2, ValueSame
  <2> QED  BY <2>4, <2>5
<1> QED  BY <1>1, <1>2, <1>3, <1>4

\* Operator calls and slashing: a withdrawal pays the bond it closes, and
\* what a slash takes is taken in a step that slashes the account.
LEMMA CallValue ==
    ASSUME Typed, Typed', NEW b \in Accounts, NEW a \in Accounts,
           \/ RegisterConsensusKeys(a)
           \/ slash_validator(a)
           \/ slash_from_report(a)
           \/ slash_role_only(a)
           \/ \E role \in BondRoles \union {AI_OPERATOR} :
                 begin_unbonding(a, role) \/ withdraw(a, role)
    PROVE  ValueStep(b)
<1>0. RegistryTyped(registry) /\ ValidatorsTyped(validators)
    BY DEF Typed
<1>n. /\ balance[b] \in Nat /\ StakeOf(b) \in Nat
      /\ Queued(b) \in Nat /\ Queued(b)' \in Nat
      /\ Bonded(b) \in Nat /\ Bonded(b)' \in Nat
    BY LiquidNat, QueuedNat, BondsNat
<1>m. Value(b) \in Nat
    BY <1>n, ValueTerms
<1>v. VALIDATOR \in Roles /\ AI_OPERATOR \in Roles /\ AI_OPERATOR \in OtherRoles
      /\ BondRoles \union {AI_OPERATOR} \subseteq OtherRoles
    BY Constants DEF Roles, OtherRoles
<1>1. CASE RegisterConsensusKeys(a)
  <2>1. registry' = registry /\ balance' = balance /\ unbonding' = unbonding
    BY <1>1 DEF RegisterConsensusKeys
  <2>2. StakeOf(b)' = StakeOf(b)
    BY <1>0, <1>1 DEF RegisterConsensusKeys, StakeOf, ValidatorsTyped, Validator
  <2>3. \A role \in OtherRoles : Kept(role, b)
    BY <2>1 DEF Kept, Registered
  <2> QED  BY <2>1, <2>2, <2>3, ValueSame
<1>2. CASE slash_validator(a)
  <2>1. /\ registry' = slash(VALIDATOR, a, EvidenceRatio)
        /\ balance' = balance /\ unbonding' = unbonding
        /\ a \in DOMAIN validators /\ ~validators[a].slashed
        /\ EvidenceRatio \in 0..Scale
    BY <1>2, Constants DEF slash_validator
  <2>2. Queued(b)' = Queued(b) /\ balance'[b] = balance[b]
    BY <2>1 DEF Queued
  <2>3. CASE b = a
    <3>1. slash_penalty(validators[a].stake, EvidenceRatio) \in 0..validators[a].stake
      BY <1>0, <2>1, PenaltyRange DEF ValidatorsTyped, Validator
    <3>2. /\ DOMAIN validators' = DOMAIN validators
          /\ validators'[a].stake =
               validators[a].stake - slash_penalty(validators[a].stake, EvidenceRatio)
          /\ validators'[a].slashed = TRUE
      BY <1>0, <1>2, <2>1 DEF slash_validator, ValidatorsTyped, Validator
    <3>3. StakeOf(b)' \in Nat /\ StakeOf(b)' <= StakeOf(b)
      BY <1>n, <2>1, <2>3, <3>1, <3>2 DEF StakeOf
    <3>4. /\ DOMAIN registry' = DOMAIN registry
          /\ \A key \in DOMAIN registry : registry'[key].stake \in 0..registry[key].stake
      BY <1>0, <2>1, SlashEffect
    <3>5. Bonded(b)' <= Bonded(b)
      BY <3>4, BondsCut
    <3>6. Value(b)' <= Value(b) /\ Value(b)' \in Nat
      BY <1>n, <2>2, <3>3, <3>5, ValueTerms
    <3>7. SlashStep(b)
      BY <2>1, <2>3, <3>2 DEF SlashStep
    <3> QED  BY <1>m, <3>6, <3>7 DEF ValueStep
  <2>4. CASE b # a
    <3>1. \A role \in OtherRoles : Kept(role, b)
      BY <2>1, <2>4, SlashKeeps
    <3>2. StakeOf(b)' = StakeOf(b)
      BY <1>2, <2>4 DEF slash_validator, StakeOf
    <3> QED  BY <2>1, <3>1, <3>2, ValueSame
  <2> QED  BY <2>3, <2>4
<1>3. CASE slash_from_report(a)
  <2>1. /\ registry' = slash(VALIDATOR, a, ReportRatio)
        /\ balance' = balance /\ unbonding' = unbonding /\ validators' = validators
        /\ Registered(VALIDATOR, a) /\ ~Slashed(VALIDATOR, a)
        /\ ReportRatio \in 0..Scale
    BY <1>3, Constants DEF slash_from_report
  <2>2. /\ Queued(b)' = Queued(b) /\ balance'[b] = balance[b]
        /\ StakeOf(b)' = StakeOf(b)
    BY <2>1 DEF Queued, StakeOf
  <2>3. CASE b = a
    <3>1. /\ DOMAIN registry' = DOMAIN registry
          /\ \A key \in DOMAIN registry : registry'[key].stake \in 0..registry[key].stake
      BY <1>0, <2>1, SlashEffect
    <3>2. registry'[<<VALIDATOR, a>>].status = "Slashed"
      BY <1>0, <2>1, SlashEffect
    <3>3. Slashed(VALIDATOR, a)'
      BY <2>1, <3>1, <3>2 DEF Slashed, Registered
    <3>4. SlashStep(b)
      BY <1>v, <2>1, <2>3, <3>3 DEF SlashStep
    <3>5. Bonded(b)' <= Bonded(b)
      BY <3>1, BondsCut
    <3>6. Value(b)' <= Value(b) /\ Value(b)' \in Nat
      BY <1>n, <2>2, <3>5, ValueTerms
    <3> QED  BY <1>m, <3>4, <3>6 DEF ValueStep
  <2>4. CASE b # a
    <3>1. \A role \in OtherRoles : Kept(role, b)
      BY <2>1, <2>4, SlashKeeps
    <3> QED  BY <2>1, <2>2, <3>1, ValueSame
  <2> QED  BY <2>3, <2>4
<1>4. CASE slash_role_only(a)
  <2> DEFINE key == <<AI_OPERATOR, a>>
  <2>1. /\ registry' = [registry EXCEPT ![key].stake = 0, ![key].status = "Slashed"]
        /\ balance' = balance /\ unbonding' = unbonding /\ validators' = validators
        /\ key \in DOMAIN registry /\ registry[key].status = "Active"
        /\ registry[key] \in Registration
    BY <1>0, <1>4 DEF slash_role_only, is_active, Registered, RegistryTyped
  <2>2. /\ Queued(b)' = Queued(b) /\ balance'[b] = balance[b]
        /\ StakeOf(b)' = StakeOf(b)
    BY <2>1 DEF Queued, StakeOf
  <2>3. /\ DOMAIN registry' = DOMAIN registry
        /\ registry'[key].stake = 0 /\ registry'[key].status = "Slashed"
        /\ \A k \in DOMAIN registry : k # key => registry'[k] = registry[k]
    BY <2>1 DEF Registration
  <2>4. CASE b = a
    <3>1. \A other \in OtherRoles \ {AI_OPERATOR} : Kept(other, b)
      BY <2>3 DEF Kept, Registered
    <3>2. Bonded(b)' = Bonded(b) + Bonds(b)'[AI_OPERATOR] - Bonds(b)[AI_OPERATOR]
      BY <1>v, <3>1, BondChanged
    <3>3. Bonds(b)'[AI_OPERATOR] = 0 /\ Bonds(b)[AI_OPERATOR] \in Nat
      BY <1>v, <2>1, <2>3, <2>4, BondsNat DEF Bonds, Registered, OtherRoles
    <3>4. Value(b)' <= Value(b) /\ Value(b)' \in Nat
      BY <1>n, <2>2, <3>2, <3>3, ValueTerms
    <3>5. ~Slashed(AI_OPERATOR, b) /\ Slashed(AI_OPERATOR, b)'
      BY <2>1, <2>3, <2>4 DEF Slashed, Registered
    <3>6. SlashStep(b)
      BY <1>v, <3>5 DEF SlashStep
    <3> QED  BY <1>m, <3>4, <3>6 DEF ValueStep
  <2>5. CASE b # a
    <3>1. \A role \in OtherRoles : Kept(role, b)
      BY <2>3, <2>5 DEF Kept, Registered
    <3> QED  BY <2>1, <2>2, <3>1, ValueSame
  <2> QED  BY <2>4, <2>5
<1>5. ASSUME NEW role \in BondRoles \union {AI_OPERATOR}, begin_unbonding(a, role)
      PROVE  ValueStep(b)
  <2>1. /\ balance' = balance /\ unbonding' = unbonding /\ validators' = validators
        /\ DOMAIN registry' = DOMAIN registry
        /\ \A k \in DOMAIN registry : registry'[k].stake = registry[k].stake
    BY <1>0, <1>5 DEF begin_unbonding, RegistryTyped, Registration
  <2>2. /\ Queued(b)' = Queued(b) /\ balance'[b] = balance[b]
        /\ StakeOf(b)' = StakeOf(b)
    BY <2>1 DEF Queued, StakeOf
  <2>3. Bonds(b)' = Bonds(b)
    BY <2>1 DEF Bonds, Registered
  <2>4. Bonded(b)' = Bonded(b)
    BY <2>3 DEF Bonded
  <2> QED  BY <2>2, <2>4, ValueTerms DEF ValueStep
<1>6. ASSUME NEW role \in BondRoles \union {AI_OPERATOR}, withdraw(a, role)
      PROVE  ValueStep(b)
  <2> DEFINE key == <<role, a>>
  <2>1. /\ registry' = Without(registry, key)
        /\ balance' = [balance EXCEPT ![a] = @ + registry[key].stake]
        /\ unbonding' = unbonding /\ validators' = validators
        /\ key \in DOMAIN registry
    BY <1>6 DEF withdraw, Matured, Registered, Closed
  <2>2. Queued(b)' = Queued(b) /\ StakeOf(b)' = StakeOf(b)
    BY <2>1 DEF Queued, StakeOf
  <2>3. \A other : <<other, b>> # <<role, a>> => Kept(other, b)
    BY <2>1 DEF Kept, Registered, Without
  <2>4. CASE b = a
    <3>1. role \in OtherRoles /\ \A other \in OtherRoles \ {role} : Kept(other, b)
      BY <1>v, <2>3
    <3>2. Bonded(b)' = Bonded(b) + Bonds(b)'[role] - Bonds(b)[role]
      BY <3>1, BondChanged
    <3>3. Bonds(b)'[role] = 0 /\ Bonds(b)[role] = registry[key].stake
      BY <2>1, <2>4, <3>1 DEF Bonds, Registered, OtherRoles, Without
    <3>4. Bonds(b)[role] \in Nat
      BY <3>1, BondsNat
    <3>5. balance'[b] = balance[b] + registry[key].stake
      BY <2>1, <2>4 DEF Typed
    <3> QED  BY <1>n, <2>2, <3>2, <3>3, <3>4, <3>5, ValueTerms DEF ValueStep
  <2>5. CASE b # a
    <3>1. \A other \in OtherRoles : Kept(other, b)
      BY <2>3, <2>5
    <3>2. balance'[b] = balance[b]
      BY <2>1, <2>5 DEF Typed
    <3> QED  BY <2>1, <2>2, <3>1, <3>2, ValueSame
  <2> QED  BY <2>4, <2>5
<1> QED  BY <1>1, <1>2, <1>3, <1>4, <1>5, <1>6

\* An epoch close moves what is due from the queue to the balance.
LEMMA DueIsPaid ==
    ASSUME Typed, Typed', NEW b \in Accounts, NEW producers, NEW voted,
           CloseEpoch(producers, voted)
    PROVE  balance'[b] + Queued(b)' = balance[b] + Queued(b)
<1> DEFINE due == {r \in Releases : Due(r, epoch + 1)}
<1>1. due \in SUBSET Releases
    OBVIOUS
<1>2. /\ balance'[b] = balance[b] + Owed(b, epoch + 1)
      /\ \A r \in Releases : unbonding'[b][r] =
           IF Due(r, epoch + 1) THEN 0 ELSE unbonding[b][r]
    BY DEF CloseEpoch
<1>3. Owed(b, epoch + 1) = SumFunctionOnSet(unbonding[b], due)
    BY DEF Owed
<1>4. /\ \A r \in due : unbonding'[b][r] = 0
      /\ \A r \in Releases \ due : unbonding'[b][r] = unbonding[b][r]
    BY <1>2
<1> HIDE DEF due
<1>5. PICK f, g : f = unbonding[b] /\ g = unbonding'[b]
    OBVIOUS
<1>6. \A r \in Releases : f[r] \in Int /\ g[r] \in Int
    BY <1>5 DEF Typed
<1>7. IsFiniteSet(Releases) /\ IsFiniteSet(due) /\ IsFiniteSet(Releases \ due)
  <2>1. Releases \ due \in SUBSET Releases
    OBVIOUS
  <2> QED  BY <1>1, <2>1, FiniteIndices, FS_Subset
<1>8. SumFunctionOnSet(f, Releases)
        = SumFunctionOnSet(f, due) + SumFunctionOnSet(f, Releases \ due)
    BY <1>1, <1>6, <1>7, SumSplit
<1>9. SumFunctionOnSet(g, Releases)
        = SumFunctionOnSet(g, due) + SumFunctionOnSet(g, Releases \ due)
    BY <1>1, <1>6, <1>7, SumSplit
<1>10. SumFunctionOnSet(g, due) = 0
    BY <1>4, <1>5, <1>7, SumZero
<1>11. SumFunctionOnSet(g, Releases \ due) = SumFunctionOnSet(f, Releases \ due)
    BY <1>4, <1>5, <1>7, SumAgree
<1>12. /\ SumFunctionOnSet(f, due) \in Int
       /\ SumFunctionOnSet(f, Releases \ due) \in Int
    BY <1>1, <1>6, <1>7, SumInt
<1>13. balance[b] \in Nat
    BY LiquidNat
<1> QED  BY <1>2, <1>3, <1>5, <1>8, <1>9, <1>10, <1>11, <1>12, <1>13 DEF Queued

\* An epoch close takes from an account only by a governance proposal on a
\* recorded report or by a liveness report.
LEMMA CloseEpochValue ==
    ASSUME Typed, Typed', NEW b \in Accounts, NEW producers, NEW voted,
           CloseEpoch(producers, voted)
    PROVE  ValueStep(b)
<1> DEFINE absent == Expected \ producers
           offenders == IF LivenessSlashing THEN Reports(absent) ELSE {}
<1>0. RegistryTyped(registry) /\ ValidatorsTyped(validators)
    BY DEF Typed
<1>n. /\ balance[b] \in Nat /\ StakeOf(b) \in Nat
      /\ Queued(b) \in Nat /\ Queued(b)' \in Nat
      /\ Bonded(b) \in Nat /\ Bonded(b)' \in Nat
    BY LiquidNat, QueuedNat, BondsNat
<1>m. Value(b) \in Nat /\ balance'[b] \in Nat
    BY <1>n, ValueTerms DEF Typed
<1>1. balance'[b] + Queued(b)' = balance[b] + Queued(b)
    BY DueIsPaid
<1>2. /\ registry' = Cut(offenders) /\ voted \subseteq records
      /\ DOMAIN validators' = DOMAIN validators
      /\ b \in DOMAIN validators =>
           validators'[b] = IF b \in offenders
                            THEN Punished(Released(Governed(b, voted), epoch + 1), epoch + 1)
                            ELSE Released(Governed(b, voted), epoch + 1)
    BY DEF CloseEpoch
<1>3. b \in offenders => Registered(VALIDATOR, b) /\ ~Slashed(VALIDATOR, b)
    BY DEF Reports, Expected, is_active, Slashed
<1> HIDE DEF offenders
<1>4. StakeOf(b)' = IF b \in voted THEN 0 ELSE StakeOf(b)
  <2>1. CASE b \in DOMAIN validators
    <3>1. validators[b] \in Validator
      BY <1>0, <2>1 DEF ValidatorsTyped
    <3>2. PICK g : g = Governed(b, voted)
      OBVIOUS
    <3>3. g \in Validator /\ g.stake = IF b \in voted THEN 0 ELSE validators[b].stake
      BY <3>1, <3>2 DEF Governed, Validator
    <3>4. PICK v : v = Released(g, epoch + 1)
      OBVIOUS
    <3>5. v = g \/ \E act : v = [g EXCEPT !.jailed = FALSE, !.active = act]
      BY <3>4 DEF Released
    <3>6. v.stake = g.stake
      BY <3>3, <3>5 DEF Validator
    <3>7. validators'[b] = v \/ validators'[b] = Punished(v, epoch + 1)
      BY <1>2, <2>1, <3>2, <3>4
    <3>8. DOMAIN v = DOMAIN g /\ "stake" \in DOMAIN g
      BY <3>3, <3>5 DEF Validator
    <3>9. Punished(v, epoch + 1).stake = v.stake
      BY <3>8 DEF Punished
    <3> QED  BY <1>2, <2>1, <3>3, <3>6, <3>7, <3>9 DEF StakeOf
  <2>2. CASE b \notin DOMAIN validators
    BY <1>2, <2>2 DEF StakeOf
  <2> QED  BY <2>1, <2>2
<1>5. /\ DOMAIN registry' = DOMAIN registry
      /\ \A key \in DOMAIN registry : registry'[key].stake \in 0..registry[key].stake
    BY <1>0, <1>2, CutEffect
<1>6. Bonded(b)' <= Bonded(b)
    BY <1>5, BondsCut
<1>7. StakeOf(b)' <= StakeOf(b) /\ StakeOf(b)' \in Nat
    BY <1>n, <1>4
<1>8. Value(b)' <= Value(b) /\ Value(b)' \in Nat
    BY <1>n, <1>m, <1>1, <1>6, <1>7, ValueTerms
<1>9. CASE b \in offenders
  <2>1. registry'[<<VALIDATOR, b>>].status = "Slashed"
    BY <1>0, <1>2, <1>3, <1>9, CutEffect
  <2>2. ~Slashed(VALIDATOR, b) /\ Slashed(VALIDATOR, b)'
    BY <1>3, <1>5, <1>9, <2>1 DEF Slashed, Registered
  <2>3. SlashStep(b)
    BY <2>2 DEF SlashStep, Roles
  <2> QED  BY <1>m, <1>8, <2>3 DEF ValueStep
<1>10. CASE b \notin offenders
  <2>1. \A role \in OtherRoles : Kept(role, b)
    BY <1>0, <1>2, <1>10, CutKeeps
  <2>2. Bonded(b)' = Bonded(b)
    BY <2>1, BondsKept
  <2>3. CASE StakeOf(b)' = StakeOf(b)
    BY <1>n, <1>m, <1>1, <2>2, <2>3, ValueTerms DEF ValueStep
  <2>4. CASE StakeOf(b)' # StakeOf(b)
    <3>1. b \in voted /\ StakeOf(b)' = 0 /\ b \in DOMAIN validators
      BY <1>2, <1>4, <2>4 DEF StakeOf
    <3>2. b \in records /\ validators'[b].stake = 0
      BY <1>2, <3>1 DEF StakeOf
    <3>3. SlashStep(b)
      BY <3>1, <3>2 DEF SlashStep
    <3> QED  BY <1>m, <1>8, <3>3 DEF ValueStep
  <2> QED  BY <2>3, <2>4
<1> QED  BY <1>9, <1>10

\* No sequence of staking, bonding, unbonding, withdrawing, slashing and epoch
\* closes pays an account more than it put in, whatever the accounts, roles,
\* amounts, ratios and periods; value leaves an account only by a slash or by
\* the two ways in which bond_role takes money the registry does not keep.
THEOREM NothingIsPaidTwice == Spec => ValueOnlyLost
<1>1. Init => Typed
    BY TypesInit
<1>2. Typed /\ [Next]_vars => Typed'
    BY TypesStep
<1>3. ASSUME Typed, [Next]_vars, NEW b \in Accounts
      PROVE  ValueStep(b)
  <2>0. Typed'
    BY <1>3, <1>2
  <2>1. CASE UNCHANGED vars
    <3>1. Value(b)' = Value(b)
      BY <2>1 DEF vars, Value, Bonds, Registered
    <3> QED  BY <3>1 DEF ValueStep
  <2>2. ASSUME NEW a \in Accounts, NEW amount \in UNION {OfferedBy(x) : x \in Accounts},
               \/ Stake(a, amount)
               \/ Unstake(a, amount)
               \/ bond_ai_operator(a, amount)
               \/ \E role \in BondRoles : bond_role(a, role, amount)
        PROVE  ValueStep(b)
    <3>1. amount \in Nat /\ amount > 0
      BY AmountsNat
    <3> QED  BY <1>3, <2>0, <2>2, <3>1, TransactionValue
  <2>3. ASSUME NEW a \in Accounts,
               \/ RegisterConsensusKeys(a)
               \/ slash_validator(a)
               \/ slash_from_report(a)
               \/ slash_role_only(a)
               \/ \E role \in BondRoles \union {AI_OPERATOR} :
                     begin_unbonding(a, role) \/ withdraw(a, role)
        PROVE  ValueStep(b)
    BY <1>3, <2>0, <2>3, CallValue
  <2>4. ASSUME NEW producers \in SUBSET Accounts, NEW voted \in SUBSET Accounts,
               CloseEpoch(producers, voted)
        PROVE  ValueStep(b)
    BY <1>3, <2>0, <2>4, CloseEpochValue
  <2> QED  BY <1>3, <2>1, <2>2, <2>3, <2>4 DEF Next
<1>4. Typed /\ [Next]_vars =>
        [\A a \in Accounts :
           \/ Value(a)' = Value(a)
           \/ Value(a)' < Value(a) /\ (SlashStep(a) \/ BondLost(a))]_vars
    BY <1>3 DEF ValueStep
<1> QED  BY <1>1, <1>2, <1>4, PTL DEF Spec, ValueOnlyLost

-----------------------------------------------------------------------------
(* Sets of transactions and the pools that hold exactly them.              *)

\* Same sender, same nonce.
Rival(t, u) == t.from = u.from /\ t.nonce = u.nonce

OneEach(S) == \A t, u \in S : Rival(t, u) => t = u

KeyOf(t) == [from |-> t.from, nonce |-> t.nonce, hash |-> t.hash]
FeeOf(t) == [fee |-> t.fee, hash |-> t.hash]

PoolOf(S) ==
    [transactions |-> S, by_sender |-> {KeyOf(t) : t \in S},
     by_fee |-> {FeeOf(t) : t \in S}, resident_bytes |-> bytes(S)]

SentBy(S, s) == {t \in S : t.from = s}

\* S is within the limits of cfg.
Fits(S, cfg) ==
    /\ S \in SUBSET Txs
    /\ OneEach(S)
    /\ bytes(S) <= cfg.max_pool_bytes
    /\ Cardinality(S) <= cfg.max_size
    /\ \A t \in S : Cardinality(SentBy(S, t.from)) <= cfg.max_per_sender

\* Every set of transactions is finite.
LEMMA TxsFinite ==
    ASSUME NEW S \in SUBSET Txs
    PROVE  IsFiniteSet(S) /\ Cardinality(S) \in Nat
<1>1. IsFiniteSet(S)
    BY MempoolAssumption, FS_Subset
<1> QED  BY <1>1, FS_CardinalityType

\* The fields of a transaction.
LEMMA TxFields ==
    ASSUME NEW t \in Txs
    PROVE  t.hash \in Nat /\ t.nonce \in Nat /\ t.fee \in Nat /\ t.size \in Nat /\ t.size > 0
BY MempoolAssumption

\* A transaction is known by its hash.
LEMMA HashIdentifies ==
    ASSUME NEW t \in Txs, NEW u \in Txs, t.hash = u.hash
    PROVE  t = u
BY MempoolAssumption

\* The sizes, as one function.
Sizes == [t \in Txs |-> t.size]

\* The bytes of a set are the sum of its sizes.
LEMMA BytesAreSum ==
    ASSUME NEW S \in SUBSET Txs
    PROVE  bytes(S) = SumFunctionOnSet(Sizes, S) /\ bytes(S) \in Nat
<1> DEFINE g == [t \in S |-> t.size]
<1>1. IsFiniteSet(S)
    BY TxsFinite
<1>2. DOMAIN g = S
    OBVIOUS
<1>3. \A t \in S : g[t] = Sizes[t] /\ g[t] \in Nat
    BY TxFields DEF Sizes
<1>4. bytes(S) = SumFunctionOnSet(g, S)
    BY <1>2 DEF bytes, SumFunction
<1> HIDE DEF g
<1>5. SumFunctionOnSet(g, S) = SumFunctionOnSet(Sizes, S)
    BY <1>1, <1>3, SumAgree
<1>6. SumFunctionOnSet(g, S) \in Nat
    BY <1>1, <1>3, SumNat
<1> QED  BY <1>4, <1>5, <1>6

\* The bytes of a part and of the rest.
LEMMA BytesSplit ==
    ASSUME NEW S \in SUBSET Txs, NEW T \in SUBSET S
    PROVE  bytes(S) = bytes(T) + bytes(S \ T)
<1>1. IsFiniteSet(S)
    BY TxsFinite
<1>2. \A t \in S : Sizes[t] \in Int
    BY TxFields DEF Sizes
<1>3. SumFunctionOnSet(Sizes, S) = SumFunctionOnSet(Sizes, T) + SumFunctionOnSet(Sizes, S \ T)
    BY <1>1, <1>2, SumSplit
<1>4. T \in SUBSET Txs /\ S \ T \in SUBSET Txs
    OBVIOUS
<1>5. bytes(S) = SumFunctionOnSet(Sizes, S)
    BY BytesAreSum
<1>6. bytes(T) = SumFunctionOnSet(Sizes, T)
    BY <1>4, BytesAreSum
<1>7. bytes(S \ T) = SumFunctionOnSet(Sizes, S \ T)
    BY <1>4, BytesAreSum
<1> QED  BY ONLY <1>3, <1>5, <1>6, <1>7

\* A part has no more bytes than the whole.
LEMMA BytesGrow ==
    ASSUME NEW S \in SUBSET Txs, NEW T \in SUBSET S
    PROVE  bytes(T) <= bytes(S)
<1>1. T \in SUBSET Txs /\ S \ T \in SUBSET Txs
    OBVIOUS
<1>2. bytes(T) \in Nat /\ bytes(S \ T) \in Nat
    BY <1>1, BytesAreSum
<1> QED  BY <1>2, BytesSplit

\* One more transaction.
LEMMA BytesAdd ==
    ASSUME NEW S \in SUBSET Txs, NEW t \in Txs, t \notin S
    PROVE  bytes(S \union {t}) = bytes(S) + t.size
<1>1. IsFiniteSet(S)
    BY TxsFinite
<1>2. \A u \in S \union {t} : Sizes[u] \in Int
    BY TxFields DEF Sizes
<1>3. SumFunctionOnSet(Sizes, S \union {t}) = Sizes[t] + SumFunctionOnSet(Sizes, S)
    BY <1>1, <1>2, SumAdd
<1>4. bytes(S) = SumFunctionOnSet(Sizes, S) /\ bytes(S) \in Nat
    BY BytesAreSum
<1>5. S \union {t} \in SUBSET Txs
    OBVIOUS
<1>6. bytes(S \union {t}) = SumFunctionOnSet(Sizes, S \union {t})
    BY <1>5, BytesAreSum
<1>7. Sizes[t] = t.size /\ t.size \in Nat
    BY TxFields DEF Sizes
<1> QED  BY ONLY <1>3, <1>4, <1>6, <1>7

\* No transactions, no bytes.
LEMMA BytesNone == bytes({}) = 0
BY SumEmpty, BytesAreSum

-----------------------------------------------------------------------------
(* The statements that update the indexes.                                 *)

LEMMA RemovedPool ==
    ASSUME NEW S \in SUBSET Txs, OneEach(S), NEW T \in SUBSET S
    PROVE  remove_all(PoolOf(S), T) = PoolOf(S \ T)
<1> DEFINE p == PoolOf(S)
<1>1. /\ p.transactions = S
      /\ p.by_sender = {KeyOf(t) : t \in S}
      /\ p.by_fee = {FeeOf(t) : t \in S}
      /\ p.resident_bytes = bytes(S)
    BY DEF PoolOf
<1> HIDE DEF p
<1>2. {e \in p.by_sender : \A t \in T : e.from # t.from \/ e.nonce # t.nonce}
        = {KeyOf(t) : t \in S \ T}
    BY <1>1 DEF KeyOf, OneEach, Rival
<1>3. p.by_fee \ {[fee |-> t.fee, hash |-> t.hash] : t \in T} = {FeeOf(t) : t \in S \ T}
  <2>1. \A t, u \in S : FeeOf(t) = FeeOf(u) => t = u
    BY HashIdentifies DEF FeeOf
  <2>2. {[fee |-> t.fee, hash |-> t.hash] : t \in T} = {FeeOf(t) : t \in T}
    BY DEF FeeOf
  <2> QED  BY ONLY <1>1, <2>1, <2>2, T \in SUBSET S
<1>4. Monus(p.resident_bytes, bytes(T)) = bytes(S \ T)
  <2>1. T \in SUBSET Txs /\ S \ T \in SUBSET Txs
    OBVIOUS
  <2>2. bytes(T) \in Nat /\ bytes(S \ T) \in Nat
    BY <2>1, BytesAreSum
  <2> QED  BY <1>1, <2>2, BytesSplit DEF Monus
<1>5. remove_all(p, T) = PoolOf(S \ T)
    BY ONLY <1>1, <1>2, <1>3, <1>4 DEF remove_all, PoolOf
<1> QED  BY <1>5 DEF p

LEMMA InsertedPool ==
    ASSUME NEW S \in SUBSET Txs, NEW tx \in Txs, tx \notin S, \A t \in S : ~Rival(t, tx)
    PROVE  insert(PoolOf(S), tx) = PoolOf(S \union {tx})
<1> DEFINE p == PoolOf(S)
<1>1. /\ p.transactions = S
      /\ p.by_sender = {KeyOf(t) : t \in S}
      /\ p.by_fee = {FeeOf(t) : t \in S}
      /\ p.resident_bytes = bytes(S)
    BY DEF PoolOf
<1> HIDE DEF p
<1>2. {e \in p.by_sender : e.from # tx.from \/ e.nonce # tx.nonce}
        \union {[from |-> tx.from, nonce |-> tx.nonce, hash |-> tx.hash]}
        = {KeyOf(t) : t \in S \union {tx}}
    BY <1>1 DEF KeyOf, Rival
<1>3. p.by_fee \union {[fee |-> tx.fee, hash |-> tx.hash]} = {FeeOf(t) : t \in S \union {tx}}
    BY <1>1 DEF FeeOf
<1>4. p.resident_bytes + tx.size = bytes(S \union {tx})
    BY <1>1, BytesAdd
<1>5. insert(p, tx) = PoolOf(S \union {tx})
    BY ONLY <1>1, <1>2, <1>3, <1>4 DEF insert, PoolOf
<1> QED  BY <1>5 DEF p

\* The look-up by sender and nonce finds the rivals.
LEMMA FoundRivals ==
    ASSUME NEW S \in SUBSET Txs, NEW tx \in Txs
    PROVE  find_tx_by_sender_nonce(PoolOf(S), tx) = {t \in S : Rival(t, tx)}
<1>1. \A t \in S : [from |-> tx.from, nonce |-> tx.nonce, hash |-> t.hash]
                      \in {KeyOf(u) : u \in S} <=> Rival(t, tx)
  <2> SUFFICES ASSUME NEW t \in S
               PROVE  [from |-> tx.from, nonce |-> tx.nonce, hash |-> t.hash]
                         \in {KeyOf(u) : u \in S} <=> Rival(t, tx)
    OBVIOUS
  <2>1. ASSUME NEW u \in S, [from |-> tx.from, nonce |-> tx.nonce, hash |-> t.hash] = KeyOf(u)
        PROVE  Rival(t, tx)
    <3>1. u.from = tx.from /\ u.nonce = tx.nonce /\ u.hash = t.hash
      BY <2>1 DEF KeyOf
    <3>2. u = t
      BY <3>1, HashIdentifies
    <3> QED  BY <3>1, <3>2 DEF Rival
  <2>2. Rival(t, tx) => [from |-> tx.from, nonce |-> tx.nonce, hash |-> t.hash] = KeyOf(t)
    BY DEF Rival, KeyOf
  <2> QED  BY <2>1, <2>2
<1> QED  BY <1>1 DEF find_tx_by_sender_nonce, PoolOf

\* The nonces indexed for a sender are as many as its transactions.
LEMMA SendersCounted ==
    ASSUME NEW S \in SUBSET Txs, NEW s
    PROVE  sender_count(PoolOf(S), s) = Cardinality(SentBy(S, s))
<1> DEFINE A == SentBy(S, s)
           B == {e \in {KeyOf(t) : t \in S} : e.from = s}
           f == [t \in A |-> KeyOf(t)]
<1>1. IsFiniteSet(A)
  <2>1. A \in SUBSET Txs
    BY DEF SentBy
  <2> QED  BY <2>1, TxsFinite
<1>2. f \in [A -> B] /\ \A e \in B : \E t \in A : f[t] = e
  <2>1. \A t \in A : t \in S /\ t.from = s
    BY DEF SentBy
  <2>2. \A t : KeyOf(t).from = t.from
    BY DEF KeyOf
  <2>3. \A t \in A : KeyOf(t) \in B
    BY <2>1, <2>2
  <2>4. ASSUME NEW e \in B
        PROVE  \E t \in A : f[t] = e
    <3>1. PICK t \in S : e = KeyOf(t)
      OBVIOUS
    <3>2. t \in A
      BY <2>2, <3>1 DEF SentBy
    <3> QED  BY <3>1, <3>2
  <2> QED  BY <2>3, <2>4
<1>3. \A t, u \in A : f[t] = f[u] => t = u
    BY HashIdentifies DEF SentBy, KeyOf
<1>4. f \in Bijection(A, B)
    BY <1>2, <1>3 DEF Bijection, Injection, Surjection, IsInjective
<1>5. Cardinality(B) = Cardinality(A)
    BY <1>1, <1>4, FS_Bijection DEF ExistsBijection
<1> QED  BY <1>5 DEF sender_count, PoolOf

-----------------------------------------------------------------------------
(* The order of fees and what it evicts.                                   *)

LEMMA CheaperIsOrder ==
    ASSUME NEW t \in Txs, NEW u \in Txs, NEW v \in Txs
    PROVE  /\ ~Cheaper(t, t)
           /\ ~(Cheaper(t, u) /\ Cheaper(u, t))
           /\ Cheaper(t, u) /\ Cheaper(u, v) => Cheaper(t, v)
           /\ t # u => Cheaper(t, u) \/ Cheaper(u, t)
<1>1. {t.hash, t.fee, u.hash, u.fee, v.hash, v.fee} \subseteq Nat
    BY TxFields
<1>2. t # u => t.hash # u.hash
    BY HashIdentifies
<1> QED  BY <1>1, <1>2 DEF Cheaper

\* The members of C before t in the order of fees.
Before(C, t) == {u \in C : Cheaper(u, t)}

\* A member is before those that all before it are before.
LEMMA BeforeGrows ==
    ASSUME NEW C \in SUBSET Txs, NEW t \in C, NEW u \in C, Cheaper(t, u)
    PROVE  Before(C, t) \subseteq Before(C, u) /\ t \in Before(C, u) /\ t \notin Before(C, t)
<1>1. \A v \in C : Cheaper(v, t) => Cheaper(v, u)
    BY CheaperIsOrder
<1>2. ~Cheaper(t, t)
    BY CheaperIsOrder
<1> QED  BY <1>1, <1>2 DEF Before

\* A set of transactions that is not empty has a cheapest one.
LEMMA CheapestExists ==
    ASSUME NEW C \in SUBSET Txs, C # {}
    PROVE  \E t \in C : \A u \in C \ {t} : Cheaper(t, u)
<1> DEFINE N == {Cardinality(Before(C, t)) : t \in C}
<1>1. \A t \in C : IsFiniteSet(Before(C, t)) /\ Cardinality(Before(C, t)) \in Nat
  <2> SUFFICES ASSUME NEW t \in C
               PROVE  IsFiniteSet(Before(C, t)) /\ Cardinality(Before(C, t)) \in Nat
    OBVIOUS
  <2>1. Before(C, t) \in SUBSET Txs
    BY DEF Before
  <2> QED  BY <2>1, TxsFinite
<1>2. N \in SUBSET Nat /\ N # {}
    BY <1>1
<1>3. PICK n \in N : \A m \in N : n <= m
  <2> HIDE DEF N
  <2> QED  BY <1>2, LeastNatural
<1>4. PICK t \in C : n = Cardinality(Before(C, t))
    BY <1>3
<1>5. ASSUME NEW u \in C \ {t}, ~Cheaper(t, u)
      PROVE  FALSE
  <2>1. Cheaper(u, t)
    BY <1>5, CheaperIsOrder
  <2>2. Before(C, u) \subseteq Before(C, t) /\ u \in Before(C, t) /\ u \notin Before(C, u)
    BY <2>1, BeforeGrows
  <2>3. Cardinality(Before(C, u)) <= Cardinality(Before(C, t))
        /\ Cardinality(Before(C, u)) # Cardinality(Before(C, t))
    BY <1>1, <2>2, FS_Subset
  <2>4. Cardinality(Before(C, u)) \in N
    OBVIOUS
  <2>5. n <= Cardinality(Before(C, u))
    BY <1>3, <2>4
  <2> QED  BY <1>1, <1>4, <2>3, <2>5
<1> QED  BY <1>5

Outbidden(S, tx) == {t \in S : t.from # tx.from /\ t.fee < tx.fee}

LEMMA CandidatesOutbidden ==
    ASSUME NEW S, NEW tx
    PROVE  Candidates(PoolOf(S), tx) = Outbidden(S, tx)
BY DEF Candidates, PoolOf, Outbidden

\* What evict_lowest_fee removes: at most one, before all the others.
CheapestOf(E, C) ==
    /\ E \subseteq C
    /\ \A t \in E : E = {t} /\ \A u \in C \ {t} : Cheaper(t, u)

LEMMA EvictedLowest ==
    ASSUME NEW S \in SUBSET Txs, NEW tx \in Txs
    PROVE  CheapestOf(evict_lowest_fee(PoolOf(S), tx), Outbidden(S, tx))
<1> DEFINE C == Outbidden(S, tx)
           E == {t \in C : \A u \in C \ {t} : Cheaper(t, u)}
<1>1. evict_lowest_fee(PoolOf(S), tx) = E
    BY CandidatesOutbidden DEF evict_lowest_fee
<1>2. C \in SUBSET Txs
    BY DEF Outbidden
<1> HIDE DEF C
<1>3. \A t, u \in E : t = u
    BY <1>2, CheaperIsOrder
<1>4. CheapestOf(E, C)
    BY <1>3 DEF CheapestOf
<1> QED  BY <1>1, <1>4 DEF C

\* What evict_until_bytes_fit removes: nothing, or a run of the cheapest
\* candidates that frees enough.
CheapRun(V, C, needed) ==
    /\ V \subseteq C
    /\ V # {} => needed <= bytes(V)
    /\ \A t \in V : \A u \in C \ V : Cheaper(t, u)

LEMMA EvictedRun ==
    ASSUME NEW S \in SUBSET Txs, NEW tx \in Txs, NEW needed \in Nat
    PROVE  CheapRun(evict_until_bytes_fit(PoolOf(S), tx, needed), Outbidden(S, tx), needed)
<1> DEFINE C == Outbidden(S, tx)
           V == {t \in C : bytes(Before(C, t)) < needed /\ needed <= bytes(C)}
<1>1. evict_until_bytes_fit(PoolOf(S), tx, needed) = V
    BY CandidatesOutbidden DEF evict_until_bytes_fit, Before
<1>2. C \in SUBSET Txs
    BY DEF Outbidden
<1> HIDE DEF C
<1>3. \A t \in C : Before(C, t) \in SUBSET C /\ Before(C, t) \in SUBSET Txs
    BY <1>2 DEF Before
<1>4. \A t \in C : bytes(Before(C, t)) \in Nat
    BY <1>3, BytesAreSum
<1>5. bytes(C) \in Nat /\ V \in SUBSET C /\ V \in SUBSET Txs
    BY <1>2, BytesAreSum
<1>5a. bytes(V) \in Nat
  <2> HIDE DEF V
  <2> QED  BY <1>5, BytesAreSum
<1>6. V # {} => needed <= bytes(V)
  <2> SUFFICES ASSUME V # {}
               PROVE  needed <= bytes(V)
    OBVIOUS
  <2>1. needed <= bytes(C)
    OBVIOUS
  <2>2. CASE V = C
    <3> HIDE DEF V
    <3> QED  BY <2>1, <2>2
  <2>3. CASE V # C
    <3>1. C \ V # {} /\ C \ V \in SUBSET Txs
      BY <1>2, <2>3
    <3>2. PICK m \in C \ V : \A u \in (C \ V) \ {m} : Cheaper(m, u)
      <4> HIDE DEF V
      <4> QED  BY <3>1, CheapestExists
    <3>3. ~(bytes(Before(C, m)) < needed)
      BY <2>1, <3>2
    <3>4. Before(C, m) \subseteq V
      <4> SUFFICES ASSUME NEW u \in C, Cheaper(u, m), u \notin V
                   PROVE  FALSE
        BY DEF Before
      <4>1. u # m
        BY <1>2, <3>2, CheaperIsOrder
      <4>2. Cheaper(m, u)
        BY <3>2, <4>1
      <4>3. u \in Txs /\ m \in Txs
        BY <1>2, <3>2
      <4> QED  BY ONLY <4>2, <4>3, Cheaper(u, m), CheaperIsOrder
    <3>5. bytes(Before(C, m)) <= bytes(V)
      <4> HIDE DEF V
      <4> QED  BY <1>5, <3>4, BytesGrow
    <3>6. bytes(Before(C, m)) \in Nat
      BY <1>4, <3>2
    <3> HIDE DEF V
    <3> QED  BY <1>5a, <3>3, <3>5, <3>6
  <2> QED  BY <2>2, <2>3
<1>7. ASSUME NEW t \in V, NEW u \in C \ V, ~Cheaper(t, u)
      PROVE  FALSE
  <2>1. bytes(Before(C, t)) < needed /\ ~(bytes(Before(C, u)) < needed)
    OBVIOUS
  <2>2. t \in Txs /\ u \in Txs /\ t \in C /\ u \in C /\ t # u
    BY <1>2
  <2> HIDE DEF V
  <2>3. Cheaper(u, t)
    BY <1>7, <2>2, CheaperIsOrder
  <2>4. Before(C, u) \subseteq Before(C, t)
    BY <1>2, <2>2, <2>3, BeforeGrows
  <2>5. bytes(Before(C, u)) <= bytes(Before(C, t))
    BY <1>3, <2>2, <2>4, BytesGrow
  <2>6. bytes(Before(C, u)) \in Nat /\ bytes(Before(C, t)) \in Nat
    BY <1>4, <2>2
  <2> QED  BY ONLY <2>1, <2>5, <2>6, needed \in Nat
<1> HIDE DEF V
<1>8. CheapRun(V, C, needed)
    BY <1>5, <1>6, <1>7 DEF CheapRun
<1> QED  BY <1>1, <1>8 DEF C

-----------------------------------------------------------------------------
(* Admission.                                                              *)

\* Fewer transactions fit as well.
LEMMA FewerFit ==
    ASSUME NEW cfg \in Limits, NEW S, Fits(S, cfg), NEW T \in SUBSET S
    PROVE  Fits(T, cfg)
<1>1. S \in SUBSET Txs /\ T \in SUBSET Txs /\ OneEach(T)
    BY DEF Fits, OneEach
<1>2. bytes(T) <= bytes(S) /\ bytes(T) \in Nat /\ bytes(S) \in Nat
    BY <1>1, BytesGrow, BytesAreSum
<1>3. Cardinality(T) <= Cardinality(S) /\ Cardinality(T) \in Nat /\ Cardinality(S) \in Nat
    BY <1>1, TxsFinite, FS_Subset
<1>4. ASSUME NEW t \in T
      PROVE  Cardinality(SentBy(T, t.from)) <= cfg.max_per_sender
  <2>1. SentBy(T, t.from) \in SUBSET SentBy(S, t.from)
        /\ SentBy(T, t.from) \in SUBSET Txs /\ SentBy(S, t.from) \in SUBSET Txs
    BY <1>1 DEF SentBy
  <2>2. IsFiniteSet(SentBy(S, t.from)) /\ Cardinality(SentBy(S, t.from)) \in Nat
        /\ Cardinality(SentBy(T, t.from)) \in Nat
    BY <2>1, TxsFinite
  <2>3. Cardinality(SentBy(T, t.from)) <= Cardinality(SentBy(S, t.from))
    BY <2>1, <2>2, FS_Subset
  <2>4. Cardinality(SentBy(S, t.from)) <= cfg.max_per_sender /\ cfg.max_per_sender \in Nat
    BY <1>1 DEF Fits, Limits
  <2> QED  BY <2>2, <2>3, <2>4
<1>5. cfg.max_pool_bytes \in Nat /\ cfg.max_size \in Nat
    BY DEF Limits
<1>6. bytes(S) <= cfg.max_pool_bytes /\ Cardinality(S) <= cfg.max_size
    BY DEF Fits
<1>7. bytes(T) <= cfg.max_pool_bytes /\ Cardinality(T) <= cfg.max_size
    BY <1>2, <1>3, <1>5, <1>6
<1> QED  BY <1>1, <1>4, <1>7 DEF Fits

Rivals(S, tx) == {t \in S : Rival(t, tx)}

\* At most one rival in a pool.
LEMMA RivalAlone ==
    ASSUME NEW S, OneEach(S), NEW tx, NEW t \in Rivals(S, tx)
    PROVE  Rivals(S, tx) = {t}
BY DEF OneEach, Rivals, Rival

LEMMA ReplacedPool ==
    ASSUME NEW S \in SUBSET Txs, OneEach(S), NEW tx \in Txs, tx \notin S
    PROVE  Replaced(PoolOf(S), tx) = PoolOf((S \ Rivals(S, tx)) \union {tx})
<1>1. find_tx_by_sender_nonce(PoolOf(S), tx) = Rivals(S, tx)
    BY FoundRivals DEF Rivals
<1>2. Rivals(S, tx) \in SUBSET S
    BY DEF Rivals
<1>3. remove_all(PoolOf(S), Rivals(S, tx)) = PoolOf(S \ Rivals(S, tx))
    BY <1>2, RemovedPool
<1>4. \A t \in S \ Rivals(S, tx) : ~Rival(t, tx)
    BY DEF Rivals
<1>5. insert(PoolOf(S \ Rivals(S, tx)), tx) = PoolOf((S \ Rivals(S, tx)) \union {tx})
    BY <1>4, InsertedPool
<1> QED  BY ONLY <1>1, <1>3, <1>5 DEF Replaced

\* A replacement pays more than what it replaces.
LEMMA BumpPositive ==
    ASSUME NEW t \in Txs, NEW tx \in Txs, NEW cfg \in Limits, tx.fee >= min_new_fee(t, cfg)
    PROVE  t.fee < tx.fee
<1> DEFINE k == (t.fee * cfg.rbf_bump_percent + 99) \div 100
<1>1. t.fee \in Nat /\ tx.fee \in Nat /\ cfg.rbf_bump_percent \in Nat
    BY TxFields DEF Limits
<1>2. t.fee * cfg.rbf_bump_percent \in Nat
    BY <1>1
<1>3. k \in Int
    BY <1>2
<1>4. min_new_fee(t, cfg) = t.fee + Max({1, k})
    BY DEF min_new_fee
<1> HIDE DEF k
<1>5. Max({1, k}) \in Int /\ Max({1, k}) >= 1
    BY <1>3, MaxOfTwo, SMTT(20)
<1> QED  BY <1>1, <1>4, <1>5

\* What an admissible transaction knows of the pool.
LEMMA AdmissibleFacts ==
    ASSUME NEW S \in SUBSET Txs, NEW tx \in Txs, NEW cfg \in Limits,
           Admissible(PoolOf(S), cfg, tx)
    PROVE  /\ tx \notin S
           /\ \A t \in Rivals(S, tx) : t.fee < tx.fee
           /\ Rivals(S, tx) = {} => Cardinality(SentBy(S, tx.from)) < cfg.max_per_sender
<1>1. find_tx_by_sender_nonce(PoolOf(S), tx) = Rivals(S, tx)
    BY FoundRivals DEF Rivals
<1>2. tx \notin S /\ \A t \in Rivals(S, tx) : tx.fee >= min_new_fee(t, cfg)
    BY <1>1 DEF Admissible, PoolOf
<1>3. \A t \in Rivals(S, tx) : t \in Txs
    BY DEF Rivals
<1>4. Rivals(S, tx) = {} => sender_count(PoolOf(S), tx.from) < cfg.max_per_sender
    BY <1>1 DEF Admissible
<1> QED  BY <1>2, <1>3, <1>4, BumpPositive, SendersCounted

\* What the newcomer tx makes of the transactions S.
Outbid(S, R, tx, cfg) ==
    /\ R \subseteq S \union {tx}
    /\ \A t \in S \ R : t.fee < tx.fee /\ (t.from = tx.from => Rival(t, tx))
    /\ \A t \in S \ R : ~Rival(t, tx) =>
          \A u \in S \cap R : u.from # tx.from => Cheaper(t, u)
    /\ tx \notin R /\ S \ R # {} =>
          FullByCount(PoolOf(S), cfg, tx) /\ Cardinality(S \ R) = 1

\* What stands between the checks of admission and the insertion: E made room
\* by count, V by bytes.
Cleared(S, E, V, tx, cfg) ==
    /\ CheapestOf(E, Outbidden(S, tx))
    /\ Rivals(S, tx) # {} => E = {}
    /\ Rivals(S, tx) = {} =>
          IF E = {} THEN Cardinality(S) < cfg.max_size ELSE FullByCount(PoolOf(S), cfg, tx)
    /\ \E needed \in Nat :
          /\ CheapRun(V, Outbidden(S \ E, tx), needed)
          /\ needed = 0 \/ V # {}
          /\ needed = Monus(Monus(bytes(S \ E), bytes(Rivals(S, tx))) + tx.size,
                            cfg.max_pool_bytes)

\* The bytes of what is held after the insertion.
LEMMA ClearedBytes ==
    ASSUME NEW S \in SUBSET Txs, NEW tx \in Txs, tx \notin S, NEW cfg \in Limits,
           NEW E, NEW V, Cleared(S, E, V, tx, cfg)
    PROVE  bytes((((S \ E) \ V) \ Rivals(S, tx)) \union {tx}) <= cfg.max_pool_bytes
<1> DEFINE X == Rivals(S, tx)
           A == S \ E
           B == A \ V
           D == B \ X
<1>1. PICK needed \in Nat :
        /\ CheapRun(V, Outbidden(S \ E, tx), needed)
        /\ needed = 0 \/ V # {}
        /\ needed = Monus(Monus(bytes(S \ E), bytes(Rivals(S, tx))) + tx.size, cfg.max_pool_bytes)
    BY DEF Cleared
<1>2. V \in SUBSET A /\ (V # {} => needed <= bytes(V)) /\ \A t \in V : t.from # tx.from
    BY <1>1 DEF CheapRun, Outbidden
<1>3. \A t \in E : t.from # tx.from
    BY DEF Cleared, CheapestOf, Outbidden
<1>4. X \in SUBSET B /\ X \in SUBSET A
    BY <1>2, <1>3 DEF Rivals, Rival
<1>5. A \in SUBSET Txs /\ B \in SUBSET Txs /\ D \in SUBSET Txs /\ X \in SUBSET Txs /\ V \in SUBSET Txs
    BY <1>2, <1>4
<1>5a. tx \notin D
    OBVIOUS
<1>5b. needed = Monus(Monus(bytes(A), bytes(X)) + tx.size, cfg.max_pool_bytes)
    BY <1>1
<1>5c. V \in SUBSET A /\ B = A \ V /\ D = B \ X
    BY <1>2
<1> HIDE DEF A, B, D, X
<1>6. bytes(A) \in Nat /\ bytes(B) \in Nat /\ bytes(D) \in Nat /\ bytes(X) \in Nat /\ bytes(V) \in Nat
    BY <1>5, BytesAreSum
<1>7. bytes(A) = bytes(V) + bytes(B)
    BY <1>5, <1>5c, BytesSplit
<1>8. bytes(B) = bytes(X) + bytes(D)
    BY <1>4, <1>5, <1>5c, BytesSplit
<1>9. bytes(D \union {tx}) = bytes(D) + tx.size
    BY <1>5, <1>5a, BytesAdd
<1>10. tx.size \in Nat /\ cfg.max_pool_bytes \in Nat
    BY TxFields DEF Limits
<1>11. V = {} => bytes(V) = 0
    BY BytesNone
<1>12. bytes(D) + tx.size <= cfg.max_pool_bytes
    BY ONLY <1>1, <1>2, <1>5b, <1>6, <1>7, <1>8, <1>10, <1>11 DEF Monus
<1> QED  BY <1>9, <1>12 DEF A, B, D, X

\* One more element.
LEMMA OneMore ==
    ASSUME NEW A, IsFiniteSet(A), NEW x
    PROVE  /\ IsFiniteSet(A \union {x})
           /\ Cardinality(A \union {x}) \in Nat
           /\ Cardinality(A \union {x}) <= Cardinality(A) + 1
<1>1. Cardinality(A) \in Nat
    BY FS_CardinalityType
<1>2. IsFiniteSet(A \union {x})
    BY FS_AddElement
<1>3. Cardinality(A \union {x}) = IF x \in A THEN Cardinality(A) ELSE Cardinality(A) + 1
    BY FS_AddElement
<1> QED  BY <1>1, <1>2, <1>3

\* The number of what is held after the insertion.
LEMMA ClearedCount ==
    ASSUME NEW S \in SUBSET Txs, OneEach(S), NEW tx \in Txs, tx \notin S, NEW cfg \in Limits,
           Cardinality(S) <= cfg.max_size, NEW E, NEW V, Cleared(S, E, V, tx, cfg)
    PROVE  Cardinality((((S \ E) \ V) \ Rivals(S, tx)) \union {tx}) <= cfg.max_size
<1> DEFINE X == Rivals(S, tx)
           D == ((S \ E) \ V) \ X
<1>1. IsFiniteSet(S) /\ Cardinality(S) \in Nat /\ cfg.max_size \in Nat
    BY TxsFinite DEF Limits
<1>2. D \in SUBSET S /\ IsFiniteSet(D) /\ Cardinality(D) \in Nat
    BY TxsFinite
<1>3. Cardinality(D) + 1 <= cfg.max_size
  <2>1. CASE X = {} /\ E = {}
    <3>1. Cardinality(S) < cfg.max_size
      BY <2>1 DEF Cleared
    <3>2. Cardinality(D) <= Cardinality(S)
      BY <1>1, <1>2, FS_Subset
    <3> HIDE DEF D
    <3> QED  BY <1>1, <1>2, <3>1, <3>2
  <2>2. ASSUME NEW t \in S, t \notin D
        PROVE  Cardinality(D) + 1 <= cfg.max_size
    <3>1. D \in SUBSET (S \ {t})
      BY <1>2, <2>2
    <3>2. IsFiniteSet(S \ {t}) /\ Cardinality(S \ {t}) = Cardinality(S) - 1
      BY <1>1, FS_RemoveElement
    <3> HIDE DEF D
    <3>3. Cardinality(D) <= Cardinality(S \ {t})
      BY <3>1, <3>2, FS_Subset
    <3> QED  BY <1>1, <1>2, <3>2, <3>3
  <2>3. CASE X # {}
    <3>1. PICK t \in X : TRUE
      BY <2>3
    <3>2. t \in S /\ t \notin D
      BY <3>1 DEF Rivals
    <3> HIDE DEF D, X
    <3> QED  BY <2>2, <3>2
  <2>4. CASE E # {}
    <3>1. PICK t \in E : TRUE
      BY <2>4
    <3>2. t \in S /\ t \notin D
      BY <3>1 DEF Cleared, CheapestOf, Outbidden
    <3> HIDE DEF D, X
    <3> QED  BY <2>2, <3>2
  <2> QED  BY <2>1, <2>3, <2>4
<1> HIDE DEF D
<1>4. Cardinality(D \union {tx}) <= Cardinality(D) + 1
      /\ Cardinality(D \union {tx}) \in Nat
    BY <1>2, OneMore
<1>5. Cardinality(D \union {tx}) <= cfg.max_size
    BY <1>1, <1>2, <1>3, <1>4
<1> QED  BY <1>5 DEF D

\* The senders of what is held after the insertion.
LEMMA ClearedSenders ==
    ASSUME NEW S \in SUBSET Txs, OneEach(S), NEW tx \in Txs, tx \notin S, NEW cfg \in Limits,
           \A t \in S : Cardinality(SentBy(S, t.from)) <= cfg.max_per_sender,
           Rivals(S, tx) = {} => Cardinality(SentBy(S, tx.from)) < cfg.max_per_sender,
           NEW T \in SUBSET S,
           NEW R, R = (T \ Rivals(S, tx)) \union {tx}
    PROVE  \A t \in R : Cardinality(SentBy(R, t.from)) <= cfg.max_per_sender
<1> SUFFICES ASSUME NEW t \in R
             PROVE  Cardinality(SentBy(R, t.from)) <= cfg.max_per_sender
    OBVIOUS
<1> DEFINE A == SentBy(S, t.from)
           B == SentBy(R, t.from)
<1>0. A \in SUBSET Txs /\ B \in SUBSET Txs
    BY DEF SentBy
<1>1. IsFiniteSet(A) /\ Cardinality(A) \in Nat /\ IsFiniteSet(B) /\ Cardinality(B) \in Nat
      /\ cfg.max_per_sender \in Nat
    BY <1>0, TxsFinite DEF Limits
<1>2. CASE t.from # tx.from
  <2>1. t \in S /\ B \in SUBSET A
    BY <1>2 DEF SentBy
  <2>2. Cardinality(A) <= cfg.max_per_sender
    BY <2>1
  <2> HIDE DEF A, B
  <2>3. Cardinality(B) <= Cardinality(A)
    BY <1>1, <2>1, FS_Subset
  <2>4. Cardinality(B) <= cfg.max_per_sender
    BY <1>1, <2>2, <2>3
  <2> QED  BY <2>4 DEF B
<1>3. CASE t.from = tx.from
  <2>1. CASE Rivals(S, tx) = {}
    <3>1. B \in SUBSET (A \union {tx})
      BY <1>3 DEF SentBy
    <3>2. Cardinality(A) < cfg.max_per_sender
      BY <1>3, <2>1
    <3> HIDE DEF A, B
    <3>3. IsFiniteSet(A \union {tx}) /\ Cardinality(A \union {tx}) <= Cardinality(A) + 1
      BY <1>1, OneMore
    <3>3a. Cardinality(A \union {tx}) \in Nat
      BY <1>1, OneMore
    <3>4. Cardinality(B) <= Cardinality(A \union {tx})
      BY <3>1, <3>3, FS_Subset
    <3>5. Cardinality(B) <= cfg.max_per_sender
      BY <1>1, <3>2, <3>3, <3>3a, <3>4
    <3> QED  BY <3>5 DEF B
  <2>2. CASE Rivals(S, tx) # {}
    <3>1. PICK r \in Rivals(S, tx) : TRUE
      BY <2>2
    <3>2. r \in S /\ r.from = tx.from /\ r \in A /\ B \in SUBSET ((A \ {r}) \union {tx})
      BY <1>3, <3>1 DEF SentBy, Rivals, Rival
    <3>3. Cardinality(A) <= cfg.max_per_sender
      BY <1>3, <3>2
    <3> HIDE DEF A, B
    <3>4. IsFiniteSet(A \ {r}) /\ Cardinality(A \ {r}) = Cardinality(A) - 1
      BY <1>1, <3>2, FS_RemoveElement
    <3>5. IsFiniteSet((A \ {r}) \union {tx})
          /\ Cardinality((A \ {r}) \union {tx}) <= Cardinality(A \ {r}) + 1
      BY <3>4, OneMore
    <3>5a. Cardinality((A \ {r}) \union {tx}) \in Nat
      BY <3>4, OneMore
    <3>6. Cardinality(B) <= Cardinality((A \ {r}) \union {tx})
      BY <3>2, <3>5, FS_Subset
    <3>7. Cardinality(B) <= cfg.max_per_sender
      BY <1>1, <3>3, <3>4, <3>5, <3>5a, <3>6
    <3> QED  BY <3>7 DEF B
  <2> QED  BY <2>1, <2>2
<1> QED  BY <1>2, <1>3

\* The insertion keeps the limits.
LEMMA ClearedFits ==
    ASSUME NEW cfg \in Limits, NEW S, Fits(S, cfg), NEW tx \in Txs, tx \notin S,
           Rivals(S, tx) = {} => Cardinality(SentBy(S, tx.from)) < cfg.max_per_sender,
           NEW E, NEW V, Cleared(S, E, V, tx, cfg)
    PROVE  Fits((((S \ E) \ V) \ Rivals(S, tx)) \union {tx}, cfg)
<1> DEFINE T == (S \ E) \ V
           R == (T \ Rivals(S, tx)) \union {tx}
<1>1. S \in SUBSET Txs /\ OneEach(S)
    BY DEF Fits
<1>2. R \in SUBSET Txs /\ OneEach(R)
    BY <1>1 DEF OneEach, Rivals, Rival
<1>3. bytes(R) <= cfg.max_pool_bytes
    BY <1>1, ClearedBytes
<1>4. Cardinality(R) <= cfg.max_size
  <2>1. Cardinality(S) <= cfg.max_size
    BY DEF Fits
  <2> QED  BY <1>1, <2>1, ClearedCount
<1>5. \A t \in R : Cardinality(SentBy(R, t.from)) <= cfg.max_per_sender
  <2>1. \A t \in S : Cardinality(SentBy(S, t.from)) <= cfg.max_per_sender
    BY DEF Fits
  <2>2. T \in SUBSET S /\ R = (T \ Rivals(S, tx)) \union {tx}
    OBVIOUS
  <2> HIDE DEF T, R
  <2> QED  BY <1>1, <2>1, <2>2, ClearedSenders
<1> HIDE DEF R
<1>6. Fits(R, cfg)
    BY <1>2, <1>3, <1>4, <1>5 DEF Fits
<1> QED  BY <1>6 DEF R, T

\* Whoever goes was outbid, and the cheaper ones went first.
LEMMA ClearedOutbid ==
    ASSUME NEW cfg \in Limits, NEW S \in SUBSET Txs, NEW tx \in Txs, tx \notin S,
           \A t \in Rivals(S, tx) : t.fee < tx.fee,
           NEW E, NEW V, Cleared(S, E, V, tx, cfg)
    PROVE  Outbid(S, (((S \ E) \ V) \ Rivals(S, tx)) \union {tx}, tx, cfg)
<1> DEFINE R == (((S \ E) \ V) \ Rivals(S, tx)) \union {tx}
<1>1. CheapestOf(E, Outbidden(S, tx))
    BY DEF Cleared
<1>2. PICK needed \in Nat : CheapRun(V, Outbidden(S \ E, tx), needed)
    BY DEF Cleared
<1>3. \A t \in E \union V : t \in S /\ t.fee < tx.fee /\ t.from # tx.from
    BY <1>1, <1>2 DEF CheapestOf, CheapRun, Outbidden
<1>4. \A t \in S \ R : t \in E \union V \/ t \in Rivals(S, tx)
    OBVIOUS
<1>5. \A t \in S \ R : t.fee < tx.fee /\ (t.from = tx.from => Rival(t, tx))
    BY <1>3, <1>4 DEF Rivals
<1>6. ASSUME NEW t \in S \ R, ~Rival(t, tx), NEW u \in S \cap R, u.from # tx.from
      PROVE  Cheaper(t, u)
  <2>1. t \in E \union V /\ t.fee < tx.fee
    BY <1>3, <1>4, <1>6 DEF Rivals
  <2>2. u \notin E /\ u \notin V /\ u \in S
    OBVIOUS
  <2>3. t.fee \in Nat /\ u.fee \in Nat /\ tx.fee \in Nat
    BY TxFields
  <2>4. CASE ~(u.fee < tx.fee)
    BY <2>1, <2>3, <2>4 DEF Cheaper
  <2>5. CASE u.fee < tx.fee /\ t \in E
    <3>1. u \in Outbidden(S, tx) \ {t}
      BY <1>6, <2>2, <2>5 DEF Outbidden
    <3> QED  BY ONLY <1>1, <2>5, <3>1 DEF CheapestOf
  <2>6. CASE u.fee < tx.fee /\ t \in V
    <3>1. u \in Outbidden(S \ E, tx) \ V
      BY <1>6, <2>2, <2>6 DEF Outbidden
    <3> QED  BY ONLY <1>2, <2>6, <3>1 DEF CheapRun
  <2> QED  BY <2>1, <2>4, <2>5, <2>6
<1>7. R \subseteq S \union {tx} /\ tx \in R
    OBVIOUS
<1> HIDE DEF R
<1>8. Outbid(S, R, tx, cfg)
    BY <1>5, <1>6, <1>7 DEF Outbid
<1> QED  BY <1>8 DEF R

\* The parts of add_transaction at the pool that holds S.
ByCount(S, cfg, tx) ==
    IF FullByCount(PoolOf(S), cfg, tx) THEN evict_lowest_fee(PoolOf(S), tx) ELSE {}

Needed(S, cfg, tx) == Excess(PoolOf(S), cfg, tx)

ByBytes(S, cfg, tx) ==
    IF Needed(S, cfg, tx) = 0 THEN {}
    ELSE evict_until_bytes_fit(PoolOf(S), tx, Needed(S, cfg, tx))

RoomMade(S, E, V, cfg, tx) ==
    /\ ~(FullByCount(PoolOf(S), cfg, tx) /\ E = {})
    /\ ~(Needed(S \ E, cfg, tx) > 0 /\ V = {})

LEMMA EvictionsClear ==
    ASSUME NEW cfg \in Limits, NEW S, Fits(S, cfg), NEW tx \in Txs,
           NEW E, E = ByCount(S, cfg, tx), NEW V, V = ByBytes(S \ E, cfg, tx),
           RoomMade(S, E, V, cfg, tx)
    PROVE  Cleared(S, E, V, tx, cfg)
<1> DEFINE needed == Needed(S \ E, cfg, tx)
<1>d. ~(FullByCount(PoolOf(S), cfg, tx) /\ E = {}) /\ ~(needed > 0 /\ V = {})
    BY DEF RoomMade
<1>a. E = IF FullByCount(PoolOf(S), cfg, tx) THEN evict_lowest_fee(PoolOf(S), tx) ELSE {}
    BY DEF ByCount
<1>b. needed = Excess(PoolOf(S \ E), cfg, tx)
    BY DEF Needed
<1>c. V = IF needed = 0 THEN {} ELSE evict_until_bytes_fit(PoolOf(S \ E), tx, needed)
    BY DEF ByBytes
<1> HIDE DEF needed
<1>0. S \in SUBSET Txs /\ OneEach(S) /\ tx.size \in Nat /\ cfg.max_pool_bytes \in Nat
      /\ cfg.max_size \in Nat
    BY TxFields DEF Fits, Limits
<1>1. CheapestOf(E, Outbidden(S, tx))
  <2>1. CheapestOf({}, Outbidden(S, tx))
    BY DEF CheapestOf
  <2> QED  BY <1>a, <1>0, <2>1, EvictedLowest
<1>2. S \ E \in SUBSET Txs
    BY <1>0
<1>3. Rivals(S \ E, tx) = Rivals(S, tx)
    BY <1>1 DEF CheapestOf, Outbidden, Rivals, Rival
<1>4. find_tx_by_sender_nonce(PoolOf(S \ E), tx) = Rivals(S, tx)
    BY <1>2, <1>3, FoundRivals DEF Rivals
<1>5. needed = Monus(Monus(bytes(S \ E), bytes(Rivals(S, tx))) + tx.size, cfg.max_pool_bytes)
  <2>1. PoolOf(S \ E).resident_bytes = bytes(S \ E)
    BY DEF PoolOf
  <2> QED  BY <1>b, <1>4, <2>1 DEF Excess
<1>6. Rivals(S, tx) \in SUBSET Txs
    BY <1>0 DEF Rivals
<1>7. bytes(S \ E) \in Nat /\ bytes(Rivals(S, tx)) \in Nat
    BY <1>2, <1>6, BytesAreSum
<1>8. needed \in Nat
    BY ONLY <1>0, <1>5, <1>7 DEF Monus
<1>9. CheapRun(V, Outbidden(S \ E, tx), needed)
  <2>1. CheapRun({}, Outbidden(S \ E, tx), needed)
    BY DEF CheapRun
  <2> QED  BY <1>c, <1>2, <1>8, <2>1, EvictedRun
<1>10. needed = 0 \/ V # {}
    BY <1>d, <1>8
<1>11. find_tx_by_sender_nonce(PoolOf(S), tx) = Rivals(S, tx)
    BY <1>0, FoundRivals DEF Rivals
<1>12. Rivals(S, tx) # {} => E = {}
    BY <1>a, <1>11 DEF FullByCount
<1>13. PoolOf(S).transactions = S
    BY DEF PoolOf
<1>14. Cardinality(S) \in Nat
    BY <1>0, TxsFinite
<1>15. Rivals(S, tx) = {} =>
          IF E = {} THEN Cardinality(S) < cfg.max_size ELSE FullByCount(PoolOf(S), cfg, tx)
    BY <1>a, <1>d, <1>0, <1>11, <1>13, <1>14 DEF FullByCount
<1> QED  BY <1>1, <1>5, <1>8, <1>9, <1>10, <1>12, <1>15 DEF Cleared

\* A newcomer that is refused for its bytes leaves the eviction behind.
LEMMA RefusedOutbid ==
    ASSUME NEW cfg \in Limits, NEW S \in SUBSET Txs, NEW tx \in Txs, tx \notin S,
           NEW E, CheapestOf(E, Outbidden(S, tx)),
           E = {} \/ FullByCount(PoolOf(S), cfg, tx)
    PROVE  Outbid(S, S \ E, tx, cfg)
<1>1. \A t \in E : t \in S /\ t.fee < tx.fee /\ t.from # tx.from
    BY DEF CheapestOf, Outbidden
<1>2. S \ (S \ E) = E
    BY <1>1
<1>3. E # {} => FullByCount(PoolOf(S), cfg, tx) /\ Cardinality(E) = 1
  <2>1. ASSUME NEW t \in E
        PROVE  Cardinality(E) = 1
    <3>1. E = {t}
      BY DEF CheapestOf
    <3> QED  BY <3>1, FS_Singleton
  <2> QED  BY <2>1
<1>4. ASSUME NEW t \in E, NEW u \in S \ E, u.from # tx.from
      PROVE  Cheaper(t, u)
  <2>1. t.fee \in Nat /\ u.fee \in Nat /\ tx.fee \in Nat /\ t.fee < tx.fee
    BY <1>1, TxFields
  <2>2. CASE u.fee < tx.fee
    <3>1. u \in Outbidden(S, tx) \ {t}
      BY <1>4, <2>2 DEF Outbidden
    <3> QED  BY <3>1 DEF CheapestOf
  <2>3. CASE ~(u.fee < tx.fee)
    BY <2>1, <2>3 DEF Cheaper
  <2> QED  BY <2>2, <2>3
<1> QED  BY <1>1, <1>2, <1>3, <1>4 DEF Outbid

\* Mempool::add_transaction turns a pool that holds exactly S, within the
\* limits, into one that holds exactly R, within the limits, and what is gone
\* was outbid.
LEMMA AddedPool ==
    ASSUME NEW cfg \in Limits, NEW S, Fits(S, cfg), NEW tx \in Txs
    PROVE  \E R : /\ Fits(R, cfg)
                  /\ add_transaction(PoolOf(S), cfg, tx) = PoolOf(R)
                  /\ Outbid(S, R, tx, cfg)
<1> DEFINE p == PoolOf(S)
           E == IF FullByCount(p, cfg, tx) THEN evict_lowest_fee(p, tx) ELSE {}
           room == remove_all(p, E)
           needed == Excess(room, cfg, tx)
           V == IF needed = 0 THEN {} ELSE evict_until_bytes_fit(room, tx, needed)
<1>1. add_transaction(p, cfg, tx) =
        IF ~Admissible(p, cfg, tx) \/ (FullByCount(p, cfg, tx) /\ E = {}) THEN p
        ELSE IF needed > 0 /\ V = {} THEN room ELSE Replaced(remove_all(room, V), tx)
    BY DEF add_transaction
<1>2. S \in SUBSET Txs /\ OneEach(S)
    BY DEF Fits
<1>3. CheapestOf(E, Outbidden(S, tx))
  <2>1. CheapestOf({}, Outbidden(S, tx))
    BY DEF CheapestOf
  <2> QED  BY <1>2, <2>1, EvictedLowest
<1>4. E \in SUBSET S
    BY <1>3 DEF CheapestOf, Outbidden
<1>4a. E = IF FullByCount(PoolOf(S), cfg, tx) THEN evict_lowest_fee(PoolOf(S), tx) ELSE {}
    OBVIOUS
<1> HIDE DEF E
<1>5. room = PoolOf(S \ E)
    BY <1>2, <1>4, RemovedPool
<1>5a. needed = Needed(S \ E, cfg, tx)
    BY <1>5 DEF Needed
<1>5b. V = ByBytes(S \ E, cfg, tx)
    BY <1>5 DEF ByBytes, Needed
<1>5c. E = ByCount(S, cfg, tx)
    BY <1>4a DEF ByCount
<1> HIDE DEF room, needed, V, p
<1>6. ASSUME add_transaction(p, cfg, tx) = p
      PROVE  \E R : /\ Fits(R, cfg)
                    /\ add_transaction(PoolOf(S), cfg, tx) = PoolOf(R)
                    /\ Outbid(S, R, tx, cfg)
  <2>1. Outbid(S, S, tx, cfg)
    BY DEF Outbid
  <2> QED  BY <1>6, <2>1 DEF p
<1>7. CASE Admissible(p, cfg, tx) /\ ~(FullByCount(p, cfg, tx) /\ E = {}) /\ needed > 0 /\ V = {}
  <2>1. add_transaction(p, cfg, tx) = PoolOf(S \ E)
    BY <1>1, <1>5, <1>7
  <2>2. Fits(S \ E, cfg)
    BY FewerFit
  <2>3. tx \notin S
    BY <1>2, <1>7, AdmissibleFacts DEF p
  <2>4. Outbid(S, S \ E, tx, cfg)
    BY <1>2, <1>3, <1>4a, <2>3, RefusedOutbid
  <2> QED  BY <2>1, <2>2, <2>4 DEF p
<1>8. CASE Admissible(p, cfg, tx) /\ ~(FullByCount(p, cfg, tx) /\ E = {}) /\ ~(needed > 0 /\ V = {})
  <2>1. add_transaction(p, cfg, tx) = Replaced(remove_all(room, V), tx)
    BY <1>1, <1>8
  <2>2. Cleared(S, E, V, tx, cfg) /\ V \subseteq S \ E
    <3>1. RoomMade(S, E, V, cfg, tx)
      BY <1>5a, <1>8 DEF p, RoomMade
    <3>2. Cleared(S, E, V, tx, cfg)
      BY <1>5b, <1>5c, <3>1, EvictionsClear, Zenon
    <3> QED  BY <3>2 DEF Cleared, CheapRun, Outbidden
  <2> DEFINE T == (S \ E) \ V
             R == (T \ Rivals(S, tx)) \union {tx}
  <2>3. /\ tx \notin S
        /\ \A t \in Rivals(S, tx) : t.fee < tx.fee
        /\ Rivals(S, tx) = {} => Cardinality(SentBy(S, tx.from)) < cfg.max_per_sender
    BY <1>2, <1>8, AdmissibleFacts DEF p
  <2>4. OneEach(S \ E) /\ OneEach(T)
    BY <1>2 DEF OneEach
  <2>5. remove_all(room, V) = PoolOf(T)
    BY <1>2, <1>5, <2>2, <2>4, RemovedPool
  <2>6. Rivals(T, tx) = Rivals(S, tx) \ (E \union V)
    BY DEF Rivals
  <2>6a. \A t \in E \union V : ~Rival(t, tx)
    BY <2>2 DEF Cleared, CheapestOf, CheapRun, Outbidden, Rival
  <2>6b. Rivals(T, tx) = Rivals(S, tx)
    BY <2>6, <2>6a DEF Rivals
  <2>7. Replaced(PoolOf(T), tx) = PoolOf(R)
    <3>1. T \in SUBSET Txs /\ tx \notin T
      BY <1>2, <2>3
    <3> HIDE DEF T
    <3> QED  BY <2>4, <2>6b, <3>1, ReplacedPool
  <2>8. Fits(R, cfg)
    BY <2>2, <2>3, ClearedFits
  <2>9. Outbid(S, R, tx, cfg)
    BY <1>2, <2>2, <2>3, ClearedOutbid
  <2> HIDE DEF R, T
  <2> QED  BY <2>1, <2>5, <2>7, <2>8, <2>9 DEF p
<1>9. CASE ~Admissible(p, cfg, tx) \/ (FullByCount(p, cfg, tx) /\ E = {})
  <2>1. add_transaction(p, cfg, tx) = p
    BY <1>1, <1>9
  <2> QED  BY <1>6, <2>1
<1> QED  BY <1>7, <1>8, <1>9

-----------------------------------------------------------------------------
(* Transactions in order.                                                  *)

Orders(before, S) ==
    /\ \A t \in S : <<t, t>> \notin before
    /\ \A t, u, v \in S : <<t, u>> \in before /\ <<u, v>> \in before => <<t, v>> \in before
    /\ \A t, u \in S : t # u => <<t, u>> \in before \/ <<u, t>> \in before

LEMMA BothOrder == Orders(Dearer, Txs) /\ Orders(HashOrder, Txs)
<1>1. \A t \in Txs : t.hash \in Nat /\ t.fee \in Nat
    BY TxFields
<1>2. \A t, u \in Txs : t # u => t.hash # u.hash
    BY HashIdentifies
<1>3. \A t, u \in Txs : <<t, u>> \in HashOrder <=> t.hash < u.hash
    BY DEF HashOrder
<1>4. \A t, u \in Txs : <<t, u>> \in Dearer <=>
         t.fee > u.fee \/ (t.fee = u.fee /\ t.hash < u.hash)
    BY DEF Dearer
<1>5. Orders(HashOrder, Txs)
    BY <1>1, <1>2, <1>3 DEF Orders
<1>6. Orders(Dearer, Txs)
    BY <1>1, <1>2, <1>4 DEF Orders
<1> QED  BY <1>5, <1>6

\* Every place in the order is taken.
LEMMA PlacesTaken ==
    ASSUME NEW S, IsFiniteSet(S), NEW before, Orders(before, S), NEW i \in 1..Cardinality(S)
    PROVE  \E t \in S : Cardinality({u \in S : <<u, t>> \in before}) = i - 1
<1> DEFINE n == Cardinality(S)
           Pre(t) == {u \in S : <<u, t>> \in before}
           rank == [t \in S |-> Cardinality(Pre(t))]
<1>1. n \in Nat
    BY FS_CardinalityType
<1>2. ASSUME NEW t \in S
      PROVE  /\ IsFiniteSet(Pre(t)) /\ Cardinality(Pre(t)) \in Nat
             /\ rank[t] = Cardinality(Pre(t)) /\ rank[t] \in 0..(n - 1)
  <2>1. Pre(t) \in SUBSET S /\ t \notin Pre(t)
    BY DEF Orders
  <2>2. Pre(t) \in SUBSET (S \ {t})
    BY <2>1
  <2>3. IsFiniteSet(S \ {t}) /\ Cardinality(S \ {t}) = n - 1
    BY FS_RemoveElement
  <2>4. rank[t] = Cardinality(Pre(t))
    OBVIOUS
  <2> HIDE DEF Pre, rank
  <2>5. IsFiniteSet(Pre(t)) /\ Cardinality(Pre(t)) <= n - 1
    BY <2>2, <2>3, FS_Subset
  <2>6. Cardinality(Pre(t)) \in Nat
    BY <2>5, FS_CardinalityType
  <2> HIDE DEF n
  <2> QED  BY <1>1, <2>4, <2>5, <2>6
<1>3. ASSUME NEW t \in S, NEW u \in S, <<t, u>> \in before
      PROVE  rank[t] # rank[u]
  <2>1. Pre(t) \in SUBSET Pre(u) /\ t \in Pre(u) /\ t \notin Pre(t)
    BY <1>3 DEF Orders
  <2>2. IsFiniteSet(Pre(u)) /\ rank[t] = Cardinality(Pre(t)) /\ rank[u] = Cardinality(Pre(u))
    BY <1>2
  <2> HIDE DEF Pre, rank
  <2> QED  BY <2>1, <2>2, FS_Subset
<1>4. \A t, u \in S : rank[t] = rank[u] => t = u
  <2> HIDE DEF rank
  <2> QED  BY <1>3 DEF Orders
<1>5. rank \in [S -> 0..(n - 1)]
  <2>1. \A t \in S : rank[t] \in 0..(n - 1)
    BY <1>2
  <2> QED  BY <2>1
<1> HIDE DEF rank
<1>6. rank \in Injection(S, 0..(n - 1))
    BY <1>4, <1>5 DEF Injection, IsInjective
<1>7. IsFiniteSet(0..(n - 1)) /\ Cardinality(0..(n - 1)) = n
  <2> HIDE DEF n
  <2>1. 0 \in Int /\ n - 1 \in Int
    BY <1>1
  <2>2. IsFiniteSet(0..(n - 1))
        /\ Cardinality(0..(n - 1)) = IF 0 > n - 1 THEN 0 ELSE (n - 1) - 0 + 1
    BY ONLY <2>1, FS_Interval
  <2> QED  BY <1>1, <2>2
<1>8. rank \in Surjection(S, 0..(n - 1))
    BY <1>6, <1>7, FS_Injection
<1>9. i - 1 \in 0..(n - 1)
    BY <1>1
<1>10. \E t \in S : rank[t] = i - 1
    BY <1>8, <1>9 DEF Surjection
<1> QED  BY <1>2, <1>10

LEMMA SortedSeq ==
    ASSUME NEW S \in SUBSET Txs, NEW before, Orders(before, Txs)
    PROVE  Sorted(S, before) \in Seq(S) /\ Len(Sorted(S, before)) = Cardinality(S)
<1>1. IsFiniteSet(S) /\ Cardinality(S) \in Nat
    BY TxsFinite
<1>2. Orders(before, S)
    BY DEF Orders
<1>3. \A i \in 1..Cardinality(S) :
         (CHOOSE t \in S : Cardinality({u \in S : <<u, t>> \in before}) = i - 1) \in S
    BY <1>1, <1>2, PlacesTaken
<1>4. Sorted(S, before) \in [1..Cardinality(S) -> S]
    BY <1>3 DEF Sorted
<1> QED  BY <1>1, <1>4

\* The transactions a producer or a reorganisation looks at.
LEMMA SortedHeld ==
    ASSUME NEW S \in SUBSET Txs, NEW limit \in Nat
    PROVE  /\ get_sorted_transactions(PoolOf(S), limit) \in Seq(S)
           /\ Len(get_sorted_transactions(PoolOf(S), limit)) <= limit
<1> DEFINE sorted == Sorted(S, Dearer)
           m == Min({limit, Len(sorted)})
<1>1. get_sorted_transactions(PoolOf(S), limit) = SubSeq(sorted, 1, m)
    BY DEF get_sorted_transactions, PoolOf
<1>2. sorted \in Seq(S) /\ Len(sorted) \in Nat
    BY SortedSeq, BothOrder, LenProperties
<1> HIDE DEF sorted
<1>3. m \in {limit, Len(sorted)} /\ m <= limit /\ m <= Len(sorted)
  <2>1. limit \in Int /\ Len(sorted) \in Int
    BY <1>2
  <2> QED  BY <2>1, MinOfTwo
<1> HIDE DEF m
<1>4. m \in Nat /\ m <= limit /\ m <= Len(sorted)
    BY <1>2, <1>3
<1>5. SubSeq(sorted, 1, m) \in Seq(S) /\ Len(SubSeq(sorted, 1, m)) = m
    BY <1>2, <1>4, SubSeqProperties
<1> QED  BY <1>1, <1>4, <1>5

\* A pool filled from any transactions keeps the limits.
LEMMA FilledFits ==
    ASSUME NEW cfg \in Limits, NEW txs \in Seq(Txs)
    PROVE  \E R : Fits(R, cfg) /\ Filled(cfg, txs) = PoolOf(R)
<1> DEFINE Good == {PoolOf(S) : S \in {U \in SUBSET Txs : Fits(U, cfg)}}
           n == Len(txs)
           F == [e \in Good \X (1..n) |-> add_transaction(e[1], cfg, txs[e[2]])]
           A == CHOOSE g : g = [k \in 0..n |-> IF k = 0 THEN EmptyPool
                                               ELSE add_transaction(g[k - 1], cfg, txs[k])]
<1>0. n \in Nat /\ \A i \in 1..n : txs[i] \in Txs
    BY LenProperties, ElementOfSeq
<1>1. Filled(cfg, txs) = A[n]
    BY DEF Filled
<1>2. \A x : x \in Good <=> \E S : Fits(S, cfg) /\ x = PoolOf(S)
    BY DEF Fits
<1>3. \A x \in Good : \A i \in 1..n : F[<<x, i>>] = add_transaction(x, cfg, txs[i])
    OBVIOUS
<1>4. EmptyPool \in Good
  <2>1. EmptyPool = PoolOf({})
    BY BytesNone DEF EmptyPool, PoolOf
  <2>2. cfg.max_pool_bytes \in Nat /\ cfg.max_size \in Nat
    BY DEF Limits
  <2>3. Fits({}, cfg)
    BY <2>2, BytesNone, FS_EmptySet DEF Fits, OneEach
  <2> QED  BY <1>2, <2>1, <2>3
<1> HIDE DEF Good, F, n
<1>5. \A x \in Good : \A i \in 1..n : add_transaction(x, cfg, txs[i]) \in Good
    BY <1>0, <1>2, AddedPool
<1>6. PICK T \in [0..n -> Good] : IsRunOf(T, F, EmptyPool, n)
  <2>1. \A x \in Good : \A i \in 1..n : F[<<x, i>>] \in Good
    BY <1>3, <1>5
  <2> QED  BY <1>0, <1>4, <2>1, RunExists
<1>7. \A k \in 0..n : T[k] = IF k = 0 THEN EmptyPool ELSE add_transaction(T[k - 1], cfg, txs[k])
  <2>1. T[0] = EmptyPool
    BY <1>6 DEF IsRunOf
  <2>2. ASSUME NEW k \in 1..n
        PROVE  T[k] = add_transaction(T[k - 1], cfg, txs[k])
    <3>1. T[k] = F[<<T[k - 1], k>>]
      BY <1>6 DEF IsRunOf
    <3>2. T[k - 1] \in Good
      BY <1>0, <1>6
    <3> QED  BY <1>3, <3>1, <3>2
  <2>3. \A k \in 0..n : k # 0 => k \in 1..n
    BY <1>0
  <2> QED  BY <2>1, <2>2, <2>3
<1>8. T = [k \in 0..n |-> IF k = 0 THEN EmptyPool ELSE add_transaction(T[k - 1], cfg, txs[k])]
    BY <1>6, <1>7
<1>9. A = [k \in 0..n |-> IF k = 0 THEN EmptyPool ELSE add_transaction(A[k - 1], cfg, txs[k])]
    BY <1>8
<1> HIDE DEF A
<1>10. A[0] \in Good /\ \A i \in 1..n : A[i - 1] \in Good => A[i] \in Good
    BY <1>0, <1>4, <1>5, <1>9
<1>11. A[n] \in Good
    BY <1>0, <1>10, TableStays
<1> QED  BY <1>1, <1>2, <1>11

-----------------------------------------------------------------------------
(* Blocks.                                                                 *)

\* The fee after a block.
LEMMA FeeAdjusted ==
    ASSUME NEW fee \in Nat, NEW block \in SUBSET Txs
    PROVE  adjust_base_fee(fee, block) \in Nat
<1>1. Cardinality(block) \in Nat /\ Target \in Nat /\ MaxBaseFee \in Nat
    BY TxsFinite, MempoolAssumption
<1>2. fee + fee \div 8 \in Nat /\ fee - fee \div 8 \in Nat
    OBVIOUS
<1>3. Min({fee + fee \div 8, MaxBaseFee}) \in Nat
  <2>1. fee + fee \div 8 \in Int /\ MaxBaseFee \in Int
    BY <1>1, <1>2
  <2>2. Min({fee + fee \div 8, MaxBaseFee}) \in {fee + fee \div 8, MaxBaseFee}
    BY ONLY <2>1, MinOfTwo
  <2> QED  BY <1>1, <1>2, <2>2
<1>4. Max({fee - fee \div 8, 1}) \in Nat
  <2>1. fee - fee \div 8 \in Int /\ 1 \in Int
    BY <1>2
  <2>2. Max({fee - fee \div 8, 1}) \in {fee - fee \div 8, 1}
    BY ONLY <2>1, MaxOfTwo
  <2> QED  BY <1>2, <2>2
<1>5. Cardinality(block) > Target =>
         adjust_base_fee(fee, block) = Min({fee + fee \div 8, MaxBaseFee})
    BY <1>1 DEF adjust_base_fee
<1>6. Cardinality(block) < Target =>
         adjust_base_fee(fee, block) = Max({fee - fee \div 8, 1})
    BY <1>1 DEF adjust_base_fee
<1>7. Cardinality(block) = Target => adjust_base_fee(fee, block) = fee
    BY <1>1 DEF adjust_base_fee
<1> QED  BY <1>1, <1>3, <1>4, <1>5, <1>6, <1>7

LEMMA BaseFeeNat ==
    ASSUME NEW c \in Seq(SUBSET Txs)
    PROVE  base_fee(c) \in Nat
<1> DEFINE n == Len(c)
           F == [e \in Nat \X (1..n) |-> adjust_base_fee(e[1], c[e[2]])]
           A == CHOOSE g : g = [k \in 0..n |-> IF k = 0 THEN GenesisFee
                                               ELSE adjust_base_fee(g[k - 1], c[k])]
<1>0. n \in Nat /\ \A i \in 1..n : c[i] \in SUBSET Txs
    BY LenProperties, ElementOfSeq
<1>1. base_fee(c) = A[n]
    BY DEF base_fee
<1>2. \A x \in Nat : \A i \in 1..n : F[<<x, i>>] = adjust_base_fee(x, c[i])
    OBVIOUS
<1>3. GenesisFee \in Nat
    BY MempoolAssumption
<1> HIDE DEF F, n
<1>4. \A x \in Nat : \A i \in 1..n : adjust_base_fee(x, c[i]) \in Nat
    BY <1>0, FeeAdjusted
<1>5. PICK T \in [0..n -> Nat] : IsRunOf(T, F, GenesisFee, n)
  <2>1. \A x \in Nat : \A i \in 1..n : F[<<x, i>>] \in Nat
    BY <1>2, <1>4
  <2> QED  BY <1>0, <1>3, <2>1, RunExists
<1>6. \A k \in 0..n : T[k] = IF k = 0 THEN GenesisFee ELSE adjust_base_fee(T[k - 1], c[k])
  <2>1. T[0] = GenesisFee
    BY <1>5 DEF IsRunOf
  <2>2. ASSUME NEW k \in 1..n
        PROVE  T[k] = adjust_base_fee(T[k - 1], c[k])
    <3>1. T[k] = F[<<T[k - 1], k>>]
      BY <1>5 DEF IsRunOf
    <3>2. T[k - 1] \in Nat
      BY <1>0, <1>5
    <3> QED  BY <1>2, <3>1, <3>2
  <2>3. \A k \in 0..n : k # 0 => k \in 1..n
    BY <1>0
  <2> QED  BY <2>1, <2>2, <2>3
<1>7. T = [k \in 0..n |-> IF k = 0 THEN GenesisFee ELSE adjust_base_fee(T[k - 1], c[k])]
    BY <1>5, <1>6
<1>8. A = [k \in 0..n |-> IF k = 0 THEN GenesisFee ELSE adjust_base_fee(A[k - 1], c[k])]
    BY <1>7
<1> HIDE DEF A
<1>9. A[0] \in Nat /\ \A i \in 1..n : A[i - 1] \in Nat => A[i] \in Nat
  <2>1. 0 \in 0..n /\ \A i \in 1..n : i \in 0..n /\ i # 0
    BY <1>0
  <2>2. A[0] = GenesisFee /\ \A i \in 1..n : A[i] = adjust_base_fee(A[i - 1], c[i])
    BY ONLY <1>8, <2>1
  <2> QED  BY ONLY <1>3, <1>4, <2>2
<1>10. A[n] \in Nat
    BY <1>0, <1>9, TableStays
<1> QED  BY <1>1, <1>10

\* Nothing of pending outside b is valid after b.
Settled(b, pending) ==
    \A k \in 1..Len(pending) : pending[k] \in b \/ ~Valid(pending[k], chain, b)

\* A round keeps what was taken, takes only what is pending, and takes
\* something unless nothing is left to take.
LEMMA RoundTakes ==
    ASSUME NEW P, NEW pending \in Seq(P), NEW taken \in SUBSET P
    PROVE  /\ Round(taken, pending) \in SUBSET P
           /\ taken \subseteq Round(taken, pending)
           /\ Round(taken, pending) = taken => Settled(taken, pending)
           /\ Settled(taken, pending) => Round(taken, pending) = taken
<1> DEFINE n == Len(pending)
           Pass(b, k) == b \union {tx \in {pending[k]} \ b : Valid(tx, chain, b)}
           F == [e \in (SUBSET P) \X (1..n) |-> Pass(e[1], e[2])]
           A == CHOOSE g : g = [k \in 0..n |-> IF k = 0 THEN taken
                   ELSE g[k - 1] \union
                          {tx \in {pending[k]} \ g[k - 1] : Valid(tx, chain, g[k - 1])}]
<1>0. n \in Nat /\ \A i \in 1..n : pending[i] \in P
    BY LenProperties, ElementOfSeq
<1>1. Round(taken, pending) = A[n]
    BY DEF Round
<1>2. \A x \in SUBSET P : \A i \in 1..n : F[<<x, i>>] = Pass(x, i)
    OBVIOUS
<1>3. \A x \in SUBSET P : \A i \in 1..n : Pass(x, i) \in SUBSET P
    BY <1>0
<1> HIDE DEF F, n
<1>5. PICK T \in [0..n -> SUBSET P] : IsRunOf(T, F, taken, n)
  <2> HIDE DEF Pass
  <2>1. \A x \in SUBSET P : \A i \in 1..n : F[<<x, i>>] \in SUBSET P
    BY <1>2, <1>3
  <2> QED  BY <1>0, <2>1, RunExists
<1>6. \A k \in 0..n : T[k] = IF k = 0 THEN taken
        ELSE T[k - 1] \union {tx \in {pending[k]} \ T[k - 1] : Valid(tx, chain, T[k - 1])}
  <2>1. T[0] = taken
    BY <1>5 DEF IsRunOf
  <2>2. ASSUME NEW k \in 1..n
        PROVE  T[k] = Pass(T[k - 1], k)
    <3> HIDE DEF Pass
    <3>1. T[k] = F[<<T[k - 1], k>>]
      BY <1>5 DEF IsRunOf
    <3>2. T[k - 1] \in SUBSET P
      BY <1>0, <1>5
    <3> QED  BY <1>2, <3>1, <3>2
  <2>3. \A k \in 0..n : k # 0 => k \in 1..n
    BY <1>0
  <2> QED  BY <2>1, <2>2, <2>3
<1>7. T = [k \in 0..n |-> IF k = 0 THEN taken
        ELSE T[k - 1] \union {tx \in {pending[k]} \ T[k - 1] : Valid(tx, chain, T[k - 1])}]
    BY <1>5, <1>6
<1>8. A = [k \in 0..n |-> IF k = 0 THEN taken
        ELSE A[k - 1] \union {tx \in {pending[k]} \ A[k - 1] : Valid(tx, chain, A[k - 1])}]
    BY <1>7
<1> HIDE DEF A
<1>9. A[0] = taken /\ \A k \in 1..n : A[k] = Pass(A[k - 1], k)
  <2>1. 0 \in 0..n /\ \A i \in 1..n : i \in 0..n /\ i # 0
    BY <1>0
  <2> QED  BY ONLY <1>8, <2>1
<1>10. A[n] \in SUBSET P
  <2>1. \A i \in 1..n : A[i - 1] \in SUBSET P => A[i] \in SUBSET P
    <3> HIDE DEF Pass
    <3> QED  BY <1>3, <1>9
  <2> QED  BY <1>0, <1>9, <2>1, TableStays
<1>11. \A k \in 0..n : taken \subseteq A[k] /\ \A j \in 0..k : A[j] \subseteq A[k]
  <2> DEFINE Q == {k \in 0..n : taken \subseteq A[k] /\ \A j \in 0..k : A[j] \subseteq A[k]}
  <2>1. 0 \in Q
    BY <1>0, <1>9
  <2>2. ASSUME NEW i \in 1..n, i - 1 \in Q
        PROVE  i \in Q
    <3>1. A[i - 1] \subseteq A[i]
      BY <1>9
    <3>2. \A j \in 0..i : j = i \/ j \in 0..(i - 1)
      OBVIOUS
    <3>3. taken \subseteq A[i - 1] /\ \A j \in 0..(i - 1) : A[j] \subseteq A[i - 1]
      BY <2>2
    <3>4. i \in 0..n
      BY <1>0
    <3> QED  BY <3>1, <3>2, <3>3, <3>4
  <2>3. \A k : k \in Q => taken \subseteq A[k] /\ \A j \in 0..k : A[j] \subseteq A[k]
    OBVIOUS
  <2> HIDE DEF Q
  <2>4. \A k \in 0..n : k \in Q
    BY <1>0, <2>1, <2>2, CountUp
  <2> QED  BY <2>3, <2>4
<1>12. taken \subseteq A[n]
    BY <1>0, <1>11
<1>13. ASSUME A[n] = taken
       PROVE  Settled(taken, pending)
  <2>1. \A k \in 0..n : A[k] = taken
    <3>1. \A k \in 0..n : k \in 0..n /\ n \in 0..n
      BY <1>0
    <3>2. \A k \in 0..n : taken \subseteq A[k] /\ A[k] \subseteq A[n]
      BY <1>11, <3>1
    <3> QED  BY ONLY <1>13, <3>2
  <2>2. ASSUME NEW k \in 1..n
        PROVE  pending[k] \in taken \/ ~Valid(pending[k], chain, taken)
    <3>1. A[k - 1] = taken /\ A[k] = taken
      BY <1>0, <2>1
    <3> QED  BY <1>9, <3>1
  <2> QED  BY <2>2 DEF Settled, n
<1>14. ASSUME Settled(taken, pending)
       PROVE  A[n] = taken
  <2>1. \A k \in 1..n : pending[k] \in taken \/ ~Valid(pending[k], chain, taken)
    BY <1>14 DEF Settled, n
  <2>2. \A k \in 1..n : A[k - 1] \in {taken} => A[k] \in {taken}
    <3> SUFFICES ASSUME NEW k \in 1..n, A[k - 1] = taken
                 PROVE  A[k] = taken
      OBVIOUS
    <3>1. A[k] = Pass(taken, k)
      BY <1>9
    <3>2. pending[k] \in taken \/ ~Valid(pending[k], chain, taken)
      BY <2>1
    <3> QED  BY ONLY <3>1, <3>2
  <2>3. A[0] \in {taken}
    BY <1>9
  <2>4. A[n] \in {taken}
    BY <1>0, <2>2, <2>3, TableStays
  <2> QED  BY <2>4
<1> QED  BY <1>1, <1>10, <1>12, <1>13, <1>14

\* After its rounds the producer has taken only what it looked at, and nothing
\* that it looked at and left is valid.
LEMMA CollectedAll ==
    ASSUME NEW S \in SUBSET Txs,
           NEW pending, pending = get_sorted_transactions(PoolOf(S), MaxPerBlock),
           NEW block, block = collect_block_transactions(PoolOf(S))
    PROVE  block \in SUBSET S /\ Settled(block, pending)
<1> DEFINE m == MaxPerBlock
           P == Range(pending)
           F == [e \in (SUBSET P) \X (1..m) |-> Round(e[1], pending)]
           A == CHOOSE g : g = [k \in 0..m |-> IF k = 0 THEN {} ELSE Round(g[k - 1], pending)]
<1>0. m \in Nat /\ pending \in Seq(S) /\ Len(pending) \in Nat /\ Len(pending) <= m
  <2>1. m \in Nat
    BY MempoolAssumption
  <2> QED  BY <2>1, SortedHeld, LenProperties
<1>1. block = A[m]
    BY DEF collect_block_transactions
<1>2. pending \in Seq(P) /\ P \in SUBSET S
  <2>1. DOMAIN pending = 1..Len(pending) /\ pending \in [1..Len(pending) -> S]
    BY <1>0, LenProperties
  <2>2. pending \in [1..Len(pending) -> P]
    BY <2>1 DEF Range
  <2>3. pending \in Seq(P)
    <3> HIDE DEF P
    <3> QED  BY <1>0, <2>2
  <2>4. P \in SUBSET S
    BY <2>1 DEF Range
  <2> QED  BY <2>3, <2>4
<1>3. IsFiniteSet(P) /\ Cardinality(P) <= m /\ Cardinality(P) \in Nat
  <2>1. pending \in Surjection(1..Len(pending), P)
    <3>1. DOMAIN pending = 1..Len(pending) /\ pending \in [1..Len(pending) -> P]
      BY <1>2, LenProperties
    <3> QED  BY <3>1 DEF Surjection, Range
  <2>2. IsFiniteSet(1..Len(pending)) /\ Cardinality(1..Len(pending)) = Len(pending)
    <3>1. 1 \in Int /\ Len(pending) \in Int
      BY <1>0
    <3>2. IsFiniteSet(1..Len(pending))
          /\ Cardinality(1..Len(pending)) = IF 1 > Len(pending) THEN 0 ELSE Len(pending) - 1 + 1
      BY ONLY <3>1, FS_Interval
    <3> QED  BY <1>0, <3>2
  <2>3. IsFiniteSet(P) /\ Cardinality(P) <= Cardinality(1..Len(pending))
    BY <2>1, <2>2, FS_Surjection
  <2>4. Cardinality(P) \in Nat
    BY <2>3, FS_CardinalityType
  <2> HIDE DEF P, m
  <2> QED  BY <1>0, <2>2, <2>3, <2>4
<1>4. \A x \in SUBSET P : \A i \in 1..m : F[<<x, i>>] = Round(x, pending)
    OBVIOUS
<1> HIDE DEF F, P, m
<1>5. \A x \in SUBSET P : /\ Round(x, pending) \in SUBSET P
                          /\ x \subseteq Round(x, pending)
                          /\ Round(x, pending) = x => Settled(x, pending)
                          /\ Settled(x, pending) => Round(x, pending) = x
    BY <1>2, RoundTakes
<1>6. PICK T \in [0..m -> SUBSET P] : IsRunOf(T, F, {}, m)
  <2>1. \A x \in SUBSET P : \A i \in 1..m : F[<<x, i>>] \in SUBSET P
    <3> SUFFICES ASSUME NEW x \in SUBSET P, NEW i \in 1..m
                 PROVE  F[<<x, i>>] \in SUBSET P
      OBVIOUS
    <3>1. F[<<x, i>>] = Round(x, pending)
      BY <1>4
    <3>2. Round(x, pending) \in SUBSET P
      BY <1>5
    <3> QED  BY ONLY <3>1, <3>2
  <2>2. {} \in SUBSET P
    OBVIOUS
  <2> QED  BY <1>0, <2>1, <2>2, RunExists
<1>7. \A k \in 0..m : T[k] = IF k = 0 THEN {} ELSE Round(T[k - 1], pending)
  <2>1. T[0] = {}
    BY <1>6 DEF IsRunOf
  <2>2. ASSUME NEW k \in 1..m
        PROVE  T[k] = Round(T[k - 1], pending)
    <3>1. T[k] = F[<<T[k - 1], k>>]
      BY <1>6 DEF IsRunOf
    <3>2. T[k - 1] \in SUBSET P
      BY <1>0, <1>6
    <3> QED  BY <1>4, <3>1, <3>2
  <2>3. \A k \in 0..m : k # 0 => k \in 1..m
    BY <1>0
  <2> QED  BY <2>1, <2>2, <2>3
<1>8. T = [k \in 0..m |-> IF k = 0 THEN {} ELSE Round(T[k - 1], pending)]
    BY <1>6, <1>7
<1>9. A = [k \in 0..m |-> IF k = 0 THEN {} ELSE Round(A[k - 1], pending)]
    BY <1>8 DEF m
<1> HIDE DEF A
<1>10. A[0] = {} /\ \A k \in 1..m : A[k] = Round(A[k - 1], pending)
  <2>1. 0 \in 0..m /\ \A i \in 1..m : i \in 0..m /\ i # 0
    BY <1>0
  <2> QED  BY ONLY <1>9, <2>1
<1> DEFINE Q == {k \in 0..m : A[k] \in SUBSET P
                               /\ (Cardinality(A[k]) >= k \/ Settled(A[k], pending))}
<1>11. \A k : k \in Q <=> k \in 0..m /\ A[k] \in SUBSET P
                            /\ (Cardinality(A[k]) >= k \/ Settled(A[k], pending))
    OBVIOUS
<1> HIDE DEF Q
<1>12. 0 \in Q
  <2>1. A[0] = {} /\ {} \in SUBSET P /\ 0 \in 0..m /\ Cardinality({}) = 0
    BY <1>0, <1>10, FS_EmptySet
  <2>2. Cardinality(A[0]) >= 0
    BY <2>1
  <2> QED  BY <1>11, <2>1, <2>2
<1>13. ASSUME NEW k \in 1..m, k - 1 \in Q
       PROVE  k \in Q
  <2>1. A[k - 1] \in SUBSET P /\ A[k] = Round(A[k - 1], pending)
    BY <1>10, <1>11, <1>13
  <2>2. A[k] \in SUBSET P /\ A[k - 1] \subseteq A[k] /\ k \in 0..m
    BY <1>0, <1>5, <2>1
  <2>3. CASE Settled(A[k - 1], pending)
    <3>1. A[k] = A[k - 1]
      BY <1>5, <2>1, <2>3
    <3> QED  BY <1>11, <2>2, <2>3, <3>1
  <2>4. CASE ~Settled(A[k - 1], pending)
    <3>1. A[k] # A[k - 1] /\ Cardinality(A[k - 1]) >= k - 1
      BY <1>5, <1>11, <1>13, <2>1, <2>4
    <3>2. IsFiniteSet(A[k]) /\ Cardinality(A[k]) \in Nat
      BY <1>3, <2>2, FS_Subset, FS_CardinalityType
    <3>3. IsFiniteSet(A[k - 1]) /\ Cardinality(A[k - 1]) \in Nat
      BY <1>3, <2>1, FS_Subset, FS_CardinalityType
    <3>4. Cardinality(A[k - 1]) <= Cardinality(A[k])
          /\ Cardinality(A[k - 1]) # Cardinality(A[k])
      BY <2>2, <3>1, <3>2, FS_Subset
    <3>5. Cardinality(A[k]) >= k
      BY <3>1, <3>2, <3>3, <3>4
    <3> QED  BY <1>11, <2>2, <3>5
  <2> QED  BY <2>3, <2>4
<1>14. m \in Q
  <2>1. \A k \in 0..m : k \in Q
    BY <1>0, <1>12, <1>13, CountUp
  <2> QED  BY <1>0, <2>1
<1>15. block \in SUBSET P /\ (Cardinality(block) >= m \/ Settled(block, pending))
    BY <1>1, <1>11, <1>14
<1>16. CASE Cardinality(block) >= m
  <2>1. Cardinality(block) <= Cardinality(P) /\ (Cardinality(P) = Cardinality(block) => P = block)
    BY <1>3, <1>15, FS_Subset
  <2>2. Cardinality(block) \in Nat
    BY <1>3, <1>15, FS_Subset, FS_CardinalityType
  <2>3. P = block
    BY <1>0, <1>3, <1>16, <2>1, <2>2
  <2>4. \A k \in 1..Len(pending) : pending[k] \in P
    BY <1>2, ElementOfSeq
  <2> QED  BY <1>2, <2>3, <2>4 DEF Settled
<1> QED  BY <1>2, <1>15, <1>16

-----------------------------------------------------------------------------
(* The invariant.                                                          *)

PoolInv ==
    /\ chain \in Seq(SUBSET Txs)
    /\ config \in Limits
    /\ \E S : Fits(S, config) /\ pool = PoolOf(S)
    /\ rows \in SUBSET Txs
    /\ aged \in SUBSET pool.transactions

\* The parts of a pool, by name.
LEMMA PoolParts ==
    ASSUME NEW S
    PROVE  /\ PoolOf(S).transactions = S
           /\ PoolOf(S).by_sender = {KeyOf(t) : t \in S}
           /\ PoolOf(S).by_fee = {FeeOf(t) : t \in S}
           /\ PoolOf(S).resident_bytes = bytes(S)
BY DEF PoolOf

LEMMA InvConsistent == PoolInv => PoolConsistent
<1> SUFFICES ASSUME PoolInv
             PROVE  PoolConsistent
    OBVIOUS
<1>1. PICK S : Fits(S, config) /\ pool = PoolOf(S)
    BY DEF PoolInv
<1>2. /\ pool.transactions = S /\ pool.by_sender = {KeyOf(t) : t \in S}
      /\ pool.by_fee = {FeeOf(t) : t \in S} /\ pool.resident_bytes = bytes(S)
    BY <1>1, PoolParts
<1>3. S \in SUBSET Txs /\ OneEach(S)
    BY <1>1 DEF Fits
<1>4. \A e, f \in pool.by_sender : e.from = f.from /\ e.nonce = f.nonce => e = f
  <2> SUFFICES ASSUME NEW t \in S, NEW u \in S,
                      KeyOf(t).from = KeyOf(u).from, KeyOf(t).nonce = KeyOf(u).nonce
               PROVE  KeyOf(t) = KeyOf(u)
    BY <1>2
  <2>1. Rival(t, u)
    BY DEF KeyOf, Rival
  <2> QED  BY <1>3, <2>1 DEF OneEach
<1>5. \A t \in S : sender_count(pool, t.from) <= config.max_per_sender
  <2>1. \A t \in S : sender_count(pool, t.from) = Cardinality(SentBy(S, t.from))
    BY <1>1, <1>3, SendersCounted
  <2> QED  BY <1>1, <2>1 DEF Fits
<1>6. pool.resident_bytes <= config.max_pool_bytes /\ Cardinality(S) <= config.max_size
    BY <1>1, <1>2 DEF Fits
<1>7. pool.by_sender = {[from |-> t.from, nonce |-> t.nonce, hash |-> t.hash] : t \in S}
      /\ pool.by_fee = {[fee |-> t.fee, hash |-> t.hash] : t \in S}
    BY <1>2 DEF KeyOf, FeeOf
<1>8. rows \subseteq Txs /\ aged \subseteq S /\ config \in Limits
    BY <1>2 DEF PoolInv
<1> QED  BY ONLY <1>2, <1>3, <1>4, <1>5, <1>6, <1>7, <1>8 DEF PoolConsistent

\* The fee floor is no limit of what is held.
LEMMA FitsAnyFloor ==
    ASSUME NEW cfg \in Limits, NEW S, Fits(S, cfg), NEW fee \in Nat
    PROVE  [cfg EXCEPT !.min_fee = fee] \in Limits /\ Fits(S, [cfg EXCEPT !.min_fee = fee])
<1> DEFINE c == [cfg EXCEPT !.min_fee = fee]
<1>1. c \in Limits
    BY DEF Limits
<1>2. c.max_pool_bytes = cfg.max_pool_bytes /\ c.max_size = cfg.max_size
      /\ c.max_per_sender = cfg.max_per_sender
    BY DEF Limits
<1> HIDE DEF c
<1>3. Fits(S, c)
    BY <1>2 DEF Fits
<1> QED  BY <1>1, <1>3 DEF c

LEMMA SubmitStep ==
    ASSUME PoolInv, NEW tx \in Txs, submit(tx)
    PROVE  PoolInv'
<1>1. PICK S : Fits(S, config) /\ pool = PoolOf(S)
    BY DEF PoolInv
<1>2. config \in Limits /\ rows \in SUBSET Txs /\ chain \in Seq(SUBSET Txs)
    BY DEF PoolInv
<1>3. PICK R : Fits(R, config) /\ add_transaction(PoolOf(S), config, tx) = PoolOf(R)
    BY <1>1, <1>2, AddedPool
<1>4. /\ pool' = PoolOf(R) /\ aged' = aged \cap pool'.transactions
      /\ rows' \in SUBSET Txs /\ chain' = chain /\ config' = config
    BY <1>1, <1>2, <1>3 DEF submit
<1>5. Fits(R, config')
    BY <1>3, <1>4
<1> QED  BY <1>2, <1>4, <1>5 DEF PoolInv

LEMMA CommitStep ==
    ASSUME PoolInv, NEW block \in SUBSET Txs, Commit(block)
    PROVE  PoolInv'
<1>1. PICK S : Fits(S, config) /\ pool = PoolOf(S)
    BY DEF PoolInv
<1>2. config \in Limits /\ rows \in SUBSET Txs /\ chain \in Seq(SUBSET Txs)
    BY DEF PoolInv
<1>3. pool.transactions = S /\ aged \in SUBSET S /\ S \in SUBSET Txs /\ OneEach(S)
    BY <1>1, PoolParts DEF PoolInv, Fits
<1>4. /\ chain' = Append(chain, block)
      /\ pool' = remove_all(PoolOf(S), block \cap S)
      /\ aged' = aged \ block /\ rows' = rows \ block
      /\ config' = [config EXCEPT !.min_fee = base_fee(chain')]
    BY <1>1, <1>3 DEF Commit
<1>5. chain' \in Seq(SUBSET Txs)
    BY <1>2, <1>4, AppendProperties
<1>6. base_fee(chain') \in Nat
    BY <1>5, BaseFeeNat
<1>7. pool' = PoolOf(S \ (block \cap S))
    BY <1>3, <1>4, RemovedPool
<1>8. Fits(S \ (block \cap S), config)
    BY <1>1, <1>2, FewerFit
<1>9. config' \in Limits /\ Fits(S \ (block \cap S), config')
    BY <1>2, <1>4, <1>6, <1>8, FitsAnyFloor
<1>10. pool'.transactions = S \ (block \cap S)
    BY <1>7, PoolParts
<1>11. aged' \in SUBSET pool'.transactions /\ rows' \in SUBSET Txs
    BY <1>2, <1>3, <1>4, <1>10
<1> QED  BY <1>5, <1>7, <1>9, <1>11 DEF PoolInv

LEMMA ProduceStep ==
    ASSUME PoolInv, produce_block
    PROVE  PoolInv'
<1>1. PICK S : Fits(S, config) /\ pool = PoolOf(S)
    BY DEF PoolInv
<1>2. S \in SUBSET Txs
    BY <1>1 DEF Fits
<1>3. collect_block_transactions(pool) \in SUBSET S
    BY <1>1, <1>2, CollectedAll
<1>4. Commit(collect_block_transactions(pool))
    BY DEF produce_block
<1>5. collect_block_transactions(pool) \in SUBSET Txs
    BY <1>2, <1>3
<1> QED  BY <1>4, <1>5, CommitStep

LEMMA RestartStep ==
    ASSUME PoolInv, NEW c \in Seq(SUBSET Txs), Restart(c)
    PROVE  PoolInv'
<1>1. rows \in SUBSET Txs /\ Network \in Limits
    BY MempoolAssumption DEF PoolInv
<1>2. Sorted(rows, HashOrder) \in Seq(rows)
    BY <1>1, SortedSeq, BothOrder
<1>3. Sorted(rows, HashOrder) \in Seq(Txs)
    BY <1>1, <1>2
<1>4. PICK R : Fits(R, Network) /\ Filled(Network, Sorted(rows, HashOrder)) = PoolOf(R)
    BY <1>1, <1>3, FilledFits
<1>5. chain' = c /\ pool' = PoolOf(R) /\ config' = Network /\ aged' = {} /\ rows' = rows
    BY <1>4 DEF Restart
<1>6. Fits(R, config')
    BY <1>4, <1>5
<1> QED  BY <1>1, <1>5, <1>6 DEF PoolInv

LEMMA PoolReorgStep ==
    ASSUME PoolInv, Reorg
    PROVE  PoolInv'
<1>1. PICK fork \in 0..(Len(chain) - 1) :
        \E b \in Blocks(SubSeq(chain, 1, fork)) \ {chain[fork + 1]} :
           \E c \in Blocks(Append(SubSeq(chain, 1, fork), b)) : try_reorg(fork, <<b, c>>)
    BY DEF Reorg
<1>2. PICK b \in SUBSET Txs : \E c \in SUBSET Txs : try_reorg(fork, <<b, c>>)
    BY <1>1 DEF Blocks
<1>3. PICK c \in SUBSET Txs : try_reorg(fork, <<b, c>>)
    BY <1>2
<1>4. chain \in Seq(SUBSET Txs) /\ Len(chain) \in Nat /\ rows \in SUBSET Txs /\ Default \in Limits
    BY MempoolAssumption, LenProperties DEF PoolInv
<1>5. SubSeq(chain, 1, fork) \in Seq(SUBSET Txs)
    BY <1>4, SubSeqProperties
<1>6. <<b, c>> \in Seq(SUBSET Txs)
    OBVIOUS
<1>7. chain' \in Seq(SUBSET Txs)
    BY <1>3, <1>5, <1>6, ConcatProperties DEF try_reorg
<1>8. PICK S : Fits(S, config) /\ pool = PoolOf(S)
    BY DEF PoolInv
<1>9. S \in SUBSET Txs /\ ReorgKeep \in Nat
    BY <1>8, MempoolAssumption DEF Fits
<1> DEFINE best == Range(get_sorted_transactions(pool, ReorgKeep))
<1>10. best \in SUBSET Txs
  <2>1. get_sorted_transactions(pool, ReorgKeep) \in Seq(S)
    BY <1>8, <1>9, SortedHeld
  <2>2. \A i \in DOMAIN get_sorted_transactions(pool, ReorgKeep) :
           get_sorted_transactions(pool, ReorgKeep)[i] \in S
    BY <2>1, ElementOfSeq, LenProperties
  <2> QED  BY <1>9, <2>2 DEF Range
<1>11. /\ pool' = Filled(Default, Sorted(best \ Included(chain'), Dearer))
       /\ config' = [Default EXCEPT !.min_fee = base_fee(chain')]
       /\ aged' = {} /\ rows' = rows
    BY <1>3 DEF try_reorg
<1> HIDE DEF best
<1>12. PICK K \in SUBSET Txs : K = best \ Included(chain')
    BY <1>10
<1>13. Sorted(K, Dearer) \in Seq(Txs)
  <2>1. Sorted(K, Dearer) \in Seq(K)
    BY SortedSeq, BothOrder
  <2> QED  BY <2>1
<1>14. PICK R : Fits(R, Default) /\ Filled(Default, Sorted(K, Dearer)) = PoolOf(R)
    BY <1>4, <1>13, FilledFits
<1>15. base_fee(chain') \in Nat
    BY <1>7, BaseFeeNat
<1>16. config' \in Limits /\ Fits(R, config')
    BY <1>4, <1>11, <1>14, <1>15, FitsAnyFloor
<1>17. pool' = PoolOf(R)
    BY <1>11, <1>12, <1>14
<1> QED  BY <1>4, <1>7, <1>11, <1>16, <1>17 DEF PoolInv

LEMMA CleanupStep ==
    ASSUME PoolInv, cleanup_expired
    PROVE  PoolInv'
<1>1. PICK S : Fits(S, config) /\ pool = PoolOf(S)
    BY DEF PoolInv
<1>2. config \in Limits /\ rows \in SUBSET Txs /\ chain \in Seq(SUBSET Txs)
    BY DEF PoolInv
<1>3. aged \in SUBSET S /\ S \in SUBSET Txs /\ OneEach(S)
    BY <1>1, PoolParts DEF PoolInv, Fits
<1>4. /\ pool' = remove_all(PoolOf(S), aged) /\ aged' = {}
      /\ chain' = chain /\ config' = config /\ rows' = rows
    BY <1>1 DEF cleanup_expired
<1>5. pool' = PoolOf(S \ aged)
    BY <1>3, <1>4, RemovedPool
<1>6. Fits(S \ aged, config)
    BY <1>1, <1>2, FewerFit
<1>7. Fits(S \ aged, config')
    BY <1>4, <1>6
<1> QED  BY <1>2, <1>4, <1>5, <1>7 DEF PoolInv

LEMMA PoolInvInit == PoolInit => PoolInv
<1> SUFFICES ASSUME PoolInit
             PROVE  PoolInv
    OBVIOUS
<1>1. EmptyPool = PoolOf({}) /\ Network \in Limits
    BY BytesNone, MempoolAssumption DEF EmptyPool, PoolOf
<1>2. Network.max_pool_bytes \in Nat /\ Network.max_size \in Nat
    BY <1>1 DEF Limits
<1>3. Fits({}, Network)
    BY <1>2, BytesNone, FS_EmptySet DEF Fits, OneEach
<1>4. chain = <<>> /\ pool = EmptyPool /\ config = Network /\ aged = {} /\ rows = {}
    BY DEF PoolInit
<1>5. Fits({}, config) /\ pool = PoolOf({})
    BY <1>1, <1>3, <1>4
<1> QED  BY <1>1, <1>4, <1>5 DEF PoolInv

LEMMA PoolInvStep == PoolInv /\ [PoolNext]_poolVars => PoolInv'
<1> SUFFICES ASSUME PoolInv, [PoolNext]_poolVars
             PROVE  PoolInv'
    OBVIOUS
<1>0. chain \in Seq(SUBSET Txs)
    BY DEF PoolInv
<1>1. ASSUME NEW tx \in Txs, submit(tx)
      PROVE  PoolInv'
    BY <1>1, SubmitStep
<1>2. CASE produce_block
    BY <1>2, ProduceStep
<1>3. ASSUME NEW block \in Blocks(chain), validate_and_add_block(block)
      PROVE  PoolInv'
    BY <1>3, CommitStep DEF validate_and_add_block, Blocks
<1>4. ASSUME NEW block \in Blocks(chain), crash_in_commit(block)
      PROVE  PoolInv'
  <2>1. block \in SUBSET Txs
    BY DEF Blocks
  <2>2. Append(chain, block) \in Seq(SUBSET Txs)
    BY <1>0, <2>1, AppendProperties
  <2> QED  BY <1>4, <2>2, RestartStep DEF crash_in_commit
<1>5. CASE Reorg
    BY <1>5, PoolReorgStep
<1>6. CASE time_passes
    BY <1>6 DEF time_passes, PoolInv
<1>7. CASE cleanup_expired
    BY <1>7, CleanupStep
<1>8. CASE restart
    BY <1>0, <1>8, RestartStep DEF restart
<1>9. CASE UNCHANGED poolVars
    BY <1>9 DEF poolVars, PoolInv
<1> QED  BY <1>1, <1>2, <1>3, <1>4, <1>5, <1>6, <1>7, <1>8, <1>9 DEF PoolNext

\* Whatever is admitted, replaced, evicted, expired, committed, abandoned or
\* restored, the three indexes of the pool hold the same transactions, its
\* byte count is exact, and the limits in force hold.
THEOREM PoolStaysConsistent == PoolSpec => []PoolConsistent
<1>1. PoolSpec => []PoolInv
    BY PoolInvInit, PoolInvStep, PTL DEF PoolSpec
<1> QED  BY <1>1, InvConsistent, PTL

\* A submission that costs others their place, at a pool the node can have.
LEMMA SubmitOutbids ==
    ASSUME PoolInv, NEW tx \in Txs, submit(tx)
    PROVE  \E S, R : /\ pool = PoolOf(S) /\ pool' = PoolOf(R)
                     /\ Outbid(S, R, tx, config)
<1>1. PICK S : Fits(S, config) /\ pool = PoolOf(S)
    BY DEF PoolInv
<1>2. config \in Limits
    BY DEF PoolInv
<1>3. PICK R : add_transaction(PoolOf(S), config, tx) = PoolOf(R) /\ Outbid(S, R, tx, config)
    BY <1>1, <1>2, AddedPool
<1>4. pool' = PoolOf(R)
    BY <1>1, <1>3 DEF submit
<1> QED  BY <1>1, <1>3, <1>4

\* A transaction loses its place to a newcomer only when it is outbid, the
\* cheaper ones first.
THEOREM OnlyOutbidLoses == PoolSpec => OutbidOnly
<1>1. PoolSpec => []PoolInv
    BY PoolInvInit, PoolInvStep, PTL DEF PoolSpec
<1> DEFINE Lost(tx) ==
             LET held == pool.transactions
                 gone == held \ pool'.transactions
                 stay == held \cap pool'.transactions
                 same(t) == t.from = tx.from /\ t.nonce = tx.nonce
             IN  gone # {} /\ submit(tx) =>
                 /\ \A t \in gone : t.fee < tx.fee /\ (t.from = tx.from => same(t))
                 /\ \A t \in gone : ~same(t) =>
                       \A u \in stay : u.from # tx.from => Cheaper(t, u)
<1>2. ASSUME PoolInv, NEW tx \in Txs, submit(tx)
      PROVE  Lost(tx)
  <2>1. PICK S, R : pool = PoolOf(S) /\ pool' = PoolOf(R) /\ Outbid(S, R, tx, config)
    BY <1>2, SubmitOutbids
  <2>2. pool.transactions = S /\ pool'.transactions = R
    BY <2>1, PoolParts
  <2> QED  BY <2>1, <2>2 DEF Outbid, Rival
<1>3. PoolInv => \A tx \in Txs : Lost(tx)
    BY <1>2
<1>4. PoolInv => [\A tx \in Txs : Lost(tx)]_poolVars
    BY <1>3
<1>5. PoolSpec => [][\A tx \in Txs : Lost(tx)]_poolVars
    BY <1>1, <1>4, PTL
<1> QED  BY <1>5 DEF OutbidOnly

\* When the rounds of the producer end, none of the transactions it looked at
\* and left behind is valid after its block.
THEOREM ProducerLeavesNothing == PoolSpec => ProducerTakesAll
<1>1. PoolSpec => []PoolInv
    BY PoolInvInit, PoolInvStep, PTL DEF PoolSpec
<1> DEFINE Took ==
             Len(chain') > Len(chain) /\ produce_block =>
               \A tx \in Range(get_sorted_transactions(pool, MaxPerBlock)) \cap pool'.transactions :
                  ~Valid(tx, chain, chain'[Len(chain')])
<1>2. ASSUME PoolInv, produce_block,
             NEW tx \in Range(get_sorted_transactions(pool, MaxPerBlock)) \cap pool'.transactions
      PROVE  ~Valid(tx, chain, chain'[Len(chain')])
  <2>1. PICK S : Fits(S, config) /\ pool = PoolOf(S)
    BY <1>2 DEF PoolInv
  <2>2. S \in SUBSET Txs /\ OneEach(S) /\ chain \in Seq(SUBSET Txs) /\ Len(chain) \in Nat
    BY <1>2, <2>1, LenProperties DEF Fits, PoolInv
  <2>3. PICK block : block = collect_block_transactions(pool)
    OBVIOUS
  <2>4. PICK pending : pending = get_sorted_transactions(pool, MaxPerBlock)
    OBVIOUS
  <2>5. block \in SUBSET S /\ Settled(block, pending)
    BY <2>1, <2>2, <2>3, <2>4, CollectedAll
  <2>6. chain' = Append(chain, block) /\ pool' = remove_all(PoolOf(S), block \cap S)
    BY <1>2, <2>1, <2>3, PoolParts DEF produce_block, Commit
  <2>7. chain'[Len(chain')] = block
    BY <2>2, <2>5, <2>6, AppendProperties
  <2>8. pool'.transactions = S \ (block \cap S)
    BY <2>2, <2>6, RemovedPool, PoolParts
  <2>9. pending \in Seq(S)
    BY <2>1, <2>2, <2>4, SortedHeld, MempoolAssumption
  <2>10. PICK k \in 1..Len(pending) : tx = pending[k]
    BY <1>2, <2>4, <2>9, LenProperties DEF Range
  <2>11. tx \notin block
    BY <1>2, <2>8
  <2> QED  BY <2>5, <2>7, <2>10, <2>11 DEF Settled
<1>3. PoolInv => Took
    BY <1>2
<1>4. PoolInv => [Took]_poolVars
    BY <1>3
<1>5. PoolSpec => [][Took]_poolVars
    BY <1>1, <1>4, PTL
<1> QED  BY <1>5 DEF ProducerTakesAll
=============================================================================
