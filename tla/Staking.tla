------------------------------ MODULE Staking ------------------------------
(***************************************************************************)
(* Stake, role bonds, unbonding and slashing of one chain's account state:  *)
(*   src/src/core/account.rs             validators, unbonding queue, epoch *)
(*   src/src/registry/permissionless.rs  the role registry                  *)
(*   src/src/registry/liveness.rs        missed-epoch counters              *)
(*   src/src/execution/executor.rs       the stake and operator transactions*)
(*   src/src/chain/blockchain.rs         slashing at block application      *)
(*                                                                          *)
(* A validator's stake is kept twice: in `validators`, which consensus      *)
(* counts and which Unstake pays out, and in the registry under VALIDATOR,  *)
(* which liveness and the reports of the voting loop consult and cut.  The  *)
(* other roles' bonds live in the registry alone.                           *)
(*                                                                          *)
(* Fees are left out (they move to the block producer and are not bonds),   *)
(* and so are the nonces.  The unbonding queue's entries for one account    *)
(* and one release epoch are kept as their sum: they are released together. *)
(***************************************************************************)
EXTENDS Integers, FiniteSets, FiniteSetsExt

CONSTANTS
    Accounts,
    BondRoles,          \* roles bonded by a direct debit: RELAYER, PROVER, ...
    InitialBalance,     \* [Accounts -> Nat]
    NetworkMinStake,    \* Network::min_stake, below which a validator is idle
    RegistryMinStake,   \* RegistryParams::min_stake, below which no new entry
    UnbondingEpochs,    \* RegistryParams::unbonding_epochs
    JailEpochs,         \* 7 in the code, for both slashing paths
    Scale,              \* FIXED_POINT_SCALE
    EvidenceRatio,      \* slash_ratio of block evidence and fault proofs
    ReportRatio,        \* slash_ratio of reports against the registry
    MaxMissed,          \* RegistryParams::liveness_max_missed_epochs
    LivenessSlashing,   \* RegistryParams::liveness_slashing_enabled
    MaxEpoch            \* bound: the epochs explored

VALIDATOR == "VALIDATOR"
AI_OPERATOR == "AI_OPERATOR"
Roles == {VALIDATOR, AI_OPERATOR} \union BondRoles

\* RegistryParams::validate refuses an unbonding period of zero epochs.
ASSUME StakingAssumption ==
    /\ InitialBalance \in [Accounts -> Nat]
    /\ {VALIDATOR, AI_OPERATOR} \cap BondRoles = {} /\ IsFiniteSet(BondRoles)
    /\ {NetworkMinStake, RegistryMinStake, UnbondingEpochs, Scale, MaxMissed}
          \subseteq Nat \ {0}
    /\ {JailEpochs, MaxEpoch} \subseteq Nat
    /\ {EvidenceRatio, ReportRatio} \subseteq 0..Scale
    /\ LivenessSlashing \in BOOLEAN

VARIABLES
    epoch,       \* epoch_index
    balance,     \* accounts: the liquid balance
    validators,  \* validators: a function on the accounts that ever staked
    unbonding,   \* unbonding_queue: what each release epoch pays each account
    registry,    \* registrations: a function on a set of <<role, account>>
    missed,      \* LivenessTracker::missed
    reported,    \* LivenessTracker::reported
    records      \* accounts with a VALIDATOR entry in slashing_history

vars == <<epoch, balance, validators, unbonding, registry, missed, reported,
          records>>

Releases == 0..(MaxEpoch + UnbondingEpochs)

Validator == [stake: Nat, active: BOOLEAN, slashed: BOOLEAN, jailed: BOOLEAN,
              jail_until: 0..(MaxEpoch + JailEpochs), ready: BOOLEAN]

Registration == [stake: Nat, status: {"Active", "Unbonding", "Slashed"},
                 release_epoch: Releases]

-----------------------------------------------------------------------------
(* The registry *)

\* f with x mapped to y, whether or not x was in its domain.
With(f, x, y) == [z \in DOMAIN f \union {x} |-> IF z = x THEN y ELSE f[z]]

Without(f, x) == [z \in DOMAIN f \ {x} |-> f[z]]

Registered(role, a) == <<role, a>> \in DOMAIN registry

is_active(role, a) ==
    Registered(role, a) /\ registry[<<role, a>>].status = "Active"

NewEntry(amount) ==
    [stake |-> amount, status |-> "Active", release_epoch |-> 0]

\* The stake of an entry is replaced, not raised.  A slashed entry stays even
\* at zero; an unknown one appears only from the minimum up.
upsert_stake(role, a, total) ==
    LET key == <<role, a>> IN
    IF key \in DOMAIN registry
    THEN IF total = 0 /\ registry[key].status # "Slashed"
         THEN Without(registry, key)
         ELSE [registry EXCEPT ![key].stake = total]
    ELSE IF total >= RegistryMinStake
         THEN With(registry, key, NewEntry(total))
         ELSE registry

slash_penalty(stake, ratio) == Min({stake, (stake * ratio) \div Scale})

Slashed(role, a) ==
    Registered(role, a) /\ registry[<<role, a>>].status = "Slashed"

\* slash: the role itself and then, across roles, every other entry of the
\* account that is not yet slashed.  Refused, and nothing swept, when the
\* account has no entry for the role or that one is already slashed.
slash(role, a, ratio) ==
    IF Registered(role, a) /\ ~Slashed(role, a)
    THEN [key \in DOMAIN registry |->
            IF key[2] = a /\ registry[key].status # "Slashed"
            THEN [registry[key] EXCEPT
                    !.stake = @ - slash_penalty(@, ratio),
                    !.status = "Slashed"]
            ELSE registry[key]]
    ELSE registry

-----------------------------------------------------------------------------
(* Transactions *)

\* Admission (validate_transaction) asks for the whole amount in the liquid
\* balance of every transaction, Unstake included.
Affords(a, amount) == amount > 0 /\ balance[a] >= amount

NewValidator(amount) ==
    [stake |-> amount, active |-> FALSE, slashed |-> FALSE, jailed |-> FALSE,
     jail_until |-> 0, ready |-> FALSE]

\* Mutant: the registry is not told that the stake went down.
Mirrored_never(a, stake) == registry

\* sync_validator_registration.
Mirrored(a, stake) == upsert_stake(VALIDATOR, a, stake)

\* Stake.  A new validator has no consensus keys, so it starts inactive.
Stake(a, amount) ==
    /\ Affords(a, amount)
    /\ LET v == IF a \in DOMAIN validators
                THEN [validators[a] EXCEPT
                        !.stake = @ + amount,
                        !.active = /\ validators[a].stake + amount >= NetworkMinStake
                                   /\ validators[a].ready]
                ELSE NewValidator(amount)
       IN  /\ validators' = With(validators, a, v)
           /\ registry' = Mirrored(a, v.stake)
    /\ balance' = [balance EXCEPT ![a] = @ - amount]
    /\ UNCHANGED <<epoch, unbonding, missed, reported, records>>

\* RegisterConsensusKeys, with a valid proof of possession.
RegisterConsensusKeys(a) ==
    /\ a \in DOMAIN validators
    /\ ~validators[a].active
    /\ validators' = [validators EXCEPT
                        ![a].ready = TRUE,
                        ![a].active = validators[a].stake >= NetworkMinStake]
    /\ UNCHANGED <<epoch, balance, unbonding, registry, missed, reported, records>>

\* Unstake.  A slashed validator takes out what the slash left.
Unstake(a, amount) ==
    /\ Affords(a, amount)
    /\ a \in DOMAIN validators
    /\ validators[a].stake >= amount
    /\ LET left == validators[a].stake - amount IN
       /\ validators' = [validators EXCEPT
                           ![a].stake = left,
                           ![a].active = @ /\ left # 0]
       /\ registry' = Mirrored(a, left)
    /\ unbonding' = [unbonding EXCEPT ![a][epoch + UnbondingEpochs] = @ + amount]
    /\ UNCHANGED <<epoch, balance, missed, reported, records>>

\* AiOperatorBond: registered first, so a second bond is refused unpaid.
bond_ai_operator(a, amount) ==
    /\ Affords(a, amount)
    /\ amount >= NetworkMinStake /\ amount >= RegistryMinStake
    /\ ~Registered(AI_OPERATOR, a)
    /\ registry' = With(registry, <<AI_OPERATOR, a>>, NewEntry(amount))
    /\ balance' = [balance EXCEPT ![a] = @ - amount]
    /\ UNCHANGED <<epoch, validators, unbonding, missed, reported, records>>

-----------------------------------------------------------------------------
(* Operator calls and the bonds they unwind *)

\* bond_relayer, bond_prover, bond_storage_operator: debited first, then the
\* registry's entry is set to this amount.
bond_role(a, role, amount) ==
    /\ Affords(a, amount)
    /\ balance' = [balance EXCEPT ![a] = @ - amount]
    /\ registry' = upsert_stake(role, a, amount)
    /\ UNCHANGED <<epoch, validators, unbonding, missed, reported, records>>

\* begin_role_bond_unbonding and AiOperatorUnbond (whose open obligations are
\* an outside condition: the call may simply not come).
begin_unbonding(a, role) ==
    /\ is_active(role, a)
    /\ registry' = [registry EXCEPT
                      ![<<role, a>>].status = "Unbonding",
                      ![<<role, a>>].release_epoch = epoch + UnbondingEpochs]
    /\ UNCHANGED <<epoch, balance, validators, unbonding, missed, reported, records>>

\* Mutant: only the release epoch is looked at, not whether the entry is in
\* fact unbonding.
Matured_any_status(a, role) ==
    Registered(role, a) /\ registry[<<role, a>>].release_epoch <= epoch

Matured(a, role) ==
    /\ Registered(role, a)
    /\ registry[<<role, a>>].status = "Unbonding"
    /\ registry[<<role, a>>].release_epoch <= epoch

\* Mutant: the registration survives its withdrawal.
Closed_not(role, a) == registry

\* A withdrawn registration is removed.
Closed(role, a) == Without(registry, <<role, a>>)

\* withdraw_role_bond and AiOperatorWithdraw.
withdraw(a, role) ==
    /\ Matured(a, role)
    /\ balance' = [balance EXCEPT ![a] = @ + registry[<<role, a>>].stake]
    /\ registry' = Closed(role, a)
    /\ UNCHANGED <<epoch, validators, unbonding, missed, reported, records>>

-----------------------------------------------------------------------------
(* Slashing *)

\* slash_validator, by slashing evidence in a block or by a QC fault proof.
\* A second slash of the same validator changes nothing.  The unbonding queue
\* is not touched.
slash_validator(a) ==
    /\ a \in DOMAIN validators
    /\ ~validators[a].slashed
    /\ validators' = [validators EXCEPT
                        ![a].stake = @ - slash_penalty(@, EvidenceRatio),
                        ![a].slashed = TRUE,
                        ![a].active = FALSE,
                        ![a].jailed = TRUE,
                        ![a].jail_until = epoch + JailEpochs]
    /\ registry' = slash(VALIDATOR, a, EvidenceRatio)
    /\ UNCHANGED <<epoch, balance, unbonding, missed, reported, records>>

\* submit_registry_slashing_report with a report the voting loop verified
\* (equivocation, or too many invalid signatures): the registry alone is cut.
slash_from_report(a) ==
    /\ Registered(VALIDATOR, a) /\ ~Slashed(VALIDATOR, a)
    /\ registry' = slash(VALIDATOR, a, ReportRatio)
    /\ records' = records \union {a}
    /\ UNCHANGED <<epoch, balance, validators, unbonding, missed, reported>>

\* AiDisputeSlash: the whole bond of the one role.
slash_role_only(a) ==
    /\ is_active(AI_OPERATOR, a)
    /\ registry' = [registry EXCEPT ![<<AI_OPERATOR, a>>].stake = 0,
                                    ![<<AI_OPERATOR, a>>].status = "Slashed"]
    /\ UNCHANGED <<epoch, balance, validators, unbonding, missed, reported, records>>

-----------------------------------------------------------------------------
(* The block that closes an epoch *)

\* Governance (execute_proposal): a passed SlashValidator proposal that names
\* a recorded report takes the whole stake, of `validators` alone.
Governed(a, voted) ==
    IF a \in voted
    THEN [validators[a] EXCEPT !.stake = 0, !.slashed = TRUE, !.active = FALSE]
    ELSE validators[a]

\* The jail term ends.  `slashed` stays.
Released(v, now) ==
    IF v.jailed /\ v.jail_until <= now
    THEN [v EXCEPT !.jailed = FALSE,
                   !.active = v.stake > 0 /\ ~v.slashed /\ v.ready]
    ELSE v

\* Mutant: an entry is due only after its release epoch has passed.
Due_late(r, now) == r < now

\* process_unbonding: an entry is paid when its epoch is reached.
Due(r, now) == r <= now

Owed(a, now) == SumFunctionOnSet(unbonding[a], {r \in Releases : Due(r, now)})

\* record_epoch: the accounts whose duty was expected and not done.
Expected == {a \in DOMAIN validators : is_active(VALIDATOR, a)}

Reports(absent) == {a \in absent : missed[a] + 1 >= MaxMissed} \ reported

\* What a liveness report does to a validator: out and jailed, stake uncut.
Punished(v, now) ==
    IF v.slashed
    THEN v
    ELSE [v EXCEPT !.slashed = TRUE, !.active = FALSE, !.jailed = TRUE,
                   !.jail_until = now + JailEpochs]

\* slash_from_report for every report of the epoch.  They are all against
\* active entries, and each touches its own account's entries alone.
Cut(offenders) ==
    [key \in DOMAIN registry |->
        IF key[2] \in offenders
        THEN slash(VALIDATOR, key[2], ReportRatio)[key]
        ELSE registry[key]]

\* advance_epoch and then apply_epoch_close_liveness, in one block.
\* `producers` made a block in the epoch, `voted` are the targets of the
\* governance proposals that are executed.
CloseEpoch(producers, voted) ==
    LET now == epoch + 1
        absent == Expected \ producers
        offenders == IF LivenessSlashing THEN Reports(absent) ELSE {}
    IN  /\ epoch < MaxEpoch
        /\ voted \subseteq (records \cap DOMAIN validators)
        /\ epoch' = now
        /\ balance' = [a \in Accounts |-> balance[a] + Owed(a, now)]
        /\ unbonding' = [a \in Accounts |-> [r \in Releases |->
                            IF Due(r, now) THEN 0 ELSE unbonding[a][r]]]
        /\ validators' = [a \in DOMAIN validators |->
                            LET v == Released(Governed(a, voted), now) IN
                            IF a \in offenders THEN Punished(v, now) ELSE v]
        /\ missed' = [a \in Accounts |->
                        CASE a \in absent -> missed[a] + 1
                          [] a \in Expected \cap producers -> 0
                          [] OTHER -> missed[a]]
        /\ reported' = (reported \ (Expected \cap producers)) \union Reports(absent)
        /\ registry' = Cut(offenders)
        /\ records' = records \union offenders

-----------------------------------------------------------------------------
Init ==
    /\ epoch = 0
    /\ balance = InitialBalance
    /\ validators = [a \in {} |-> NewValidator(0)]
    /\ unbonding = [a \in Accounts |-> [r \in Releases |-> 0]]
    /\ registry = [key \in {} |-> NewEntry(0)]
    /\ missed = [a \in Accounts |-> 0]
    /\ reported = {}
    /\ records = {}

OfferedBy(a) == 1..InitialBalance[a]

Next ==
    \/ \E a \in Accounts, amount \in UNION {OfferedBy(b) : b \in Accounts} :
          \/ Stake(a, amount)
          \/ Unstake(a, amount)
          \/ bond_ai_operator(a, amount)
          \/ \E role \in BondRoles : bond_role(a, role, amount)
    \/ \E a \in Accounts :
          \/ RegisterConsensusKeys(a)
          \/ slash_validator(a)
          \/ slash_from_report(a)
          \/ slash_role_only(a)
          \/ \E role \in BondRoles \union {AI_OPERATOR} :
                begin_unbonding(a, role) \/ withdraw(a, role)
    \/ \E producers, voted \in SUBSET Accounts : CloseEpoch(producers, voted)

Spec == Init /\ [][Next]_vars

-----------------------------------------------------------------------------
(* Properties *)

\* Types.  Nothing the unbonding queue still holds is overdue: what Unstake
\* queued is paid by the first epoch close that reaches its release epoch.
TypeOK ==
    /\ epoch \in 0..MaxEpoch
    /\ balance \in [Accounts -> Nat]
    /\ DOMAIN validators \subseteq Accounts
    /\ \A a \in DOMAIN validators : validators[a] \in Validator
    /\ unbonding \in [Accounts -> [Releases -> Nat]]
    /\ DOMAIN registry \subseteq Roles \X Accounts
    /\ \A key \in DOMAIN registry : registry[key] \in Registration
    /\ missed \in [Accounts -> 0..MaxEpoch]
    /\ reported \subseteq Accounts /\ records \subseteq Accounts
    /\ \A a \in Accounts, r \in Releases :
          unbonding[a][r] > 0 => epoch < r

\* An account's bonds in the roles that are not mirrored, role by role.
Bonds(a) == [role \in Roles \ {VALIDATOR} |->
                IF Registered(role, a) THEN registry[<<role, a>>].stake ELSE 0]

\* What an account owns: its liquid balance, its stake, its unbonding stake
\* and its bonds (the terms total_bud_committed adds up).
Value(a) ==
    balance[a]
    + (IF a \in DOMAIN validators THEN validators[a].stake ELSE 0)
    + SumFunctionOnSet(unbonding[a], Releases)
    + SumFunctionOnSet(Bonds(a), Roles \ {VALIDATOR})

\* The step slashes the account in one of its roles, or as a validator, or by
\* a governance proposal on a recorded report.
SlashStep(a) ==
    \/ \E role \in Roles : ~Slashed(role, a) /\ Slashed(role, a)'
    \/ /\ a \in DOMAIN validators
       /\ \/ ~validators[a].slashed /\ validators'[a].slashed
          \/ a \in records /\ validators'[a].stake = 0

\* The step bonds a role whose registration the registry replaces (the bond
\* that was there is gone) or does not open (the amount is below the minimum).
BondLost(a) ==
    \E role \in BondRoles :
       LET amount == balance[a] - balance'[a] IN
       /\ amount > 0
       /\ IF Registered(role, a)
          THEN registry'[<<role, a>>].stake = amount
          ELSE amount < RegistryMinStake

\* No sequence of staking, bonding, unbonding, withdrawing, slashing and epoch
\* closes pays an account more than it put in, and value only leaves it by a
\* slash or by the two ways in which bond_role takes the money and the
\* registry does not keep it.
ValueOnlyLost ==
    [][\A a \in Accounts :
         \/ Value(a)' = Value(a)
         \/ Value(a)' < Value(a) /\ (SlashStep(a) \/ BondLost(a))]_vars

\* "Keep the on-chain validator's bonded stake in lock-step with its
\* PermissionlessRegistry membership": while no report has cut the registry's
\* side alone, the two copies of the stake are equal, and a validator without
\* a registration is below the registry's minimum.
MirrorInStep ==
    \A a \in DOMAIN validators \ records :
       IF Registered(VALIDATOR, a)
       THEN registry[<<VALIDATOR, a>>].stake = validators[a].stake
       ELSE validators[a].stake < RegistryMinStake

Counted(a) ==
    a \in DOMAIN validators /\ validators[a].active /\ ~validators[a].slashed

\* A liveness report is on the account: its absence was punished, and the
\* penalty is meant to carry a term (LIVENESS_JAIL_EPOCHS in params.rs).
PunishedForAbsence(a) == LivenessSlashing /\ a \in reported

\* A punishment for what a validator did is final, whether evidence, a report
\* of the voting loop, a dispute or a vote brought it: until the account is
\* also reported absent, a slashed registration is never lifted, removed or
\* paid out, whatever is bonded, unstaked or unbonded later, and a slashed
\* validator never again counts in get_total_stake, not even when its jail
\* term ends (the test in account.rs that releases one and finds it inactive).
PunishmentIsFinal ==
    [][\A a \in Accounts : ~PunishedForAbsence(a) =>
         /\ \A role \in Roles : Slashed(role, a) => Slashed(role, a)'
         /\ (a \in DOMAIN validators /\ validators[a].slashed) => ~Counted(a)']_vars

\* A punishment for absence ends: when the epoch close releases a validator
\* that was jailed for it, with its keys registered and its stake above the
\* minimum, the validator counts again.  params.rs and the liveness test say
\* so; advance_epoch asks for `!slashed`, which apply_epoch_close_liveness has
\* set and nothing clears.
AbsenceEnds ==
    [][\A a \in DOMAIN validators :
         /\ PunishedForAbsence(a)
         /\ validators[a].jailed /\ ~validators'[a].jailed
         /\ validators[a].ready /\ validators'[a].stake >= NetworkMinStake
         => Counted(a)']_vars
=============================================================================
