---------------------------- MODULE StorageDeals ----------------------------
(***************************************************************************)
(* Storage deals, retrieval challenges and repair tickets                  *)
(* (src/src/domain/storage_deal.rs), with the balances that the chain      *)
(* moves for them (src/src/chain/blockchain.rs) and the maintenance that   *)
(* the chain actor runs after every block (src/src/chain/chain_actor.rs).  *)
(*                                                                         *)
(* One object, coded into Shards of which any K restore it.  Every method  *)
(* of the registry and of the accounting is an operator from books to      *)
(* books; an action is one command of the chain actor, and a block runs    *)
(* the whole of run_storage_maintenance.                                   *)
(*                                                                         *)
(* Left out: proofs and signatures (a proof is present or not, and is not  *)
(* checked: storage_challenge_proofs_are_checkable is false), operator     *)
(* classes, demand and placement advice, reorganisations and restarts.  A  *)
(* refused call changes nothing and is no action, with one exception.      *)
(***************************************************************************)
EXTENDS Integers, FiniteSets, FiniteSetsExt, Sequences, SequencesExt

CONSTANTS
    Operators, Client,     \* who serves deals; who pays for and challenges them
    NoOperator,            \* Address::zero()
    Shards, K,             \* the object's shards, and how many restore it
    RepairMargin,          \* ErasureScheme::repair_margin
    Slots,                 \* replica indexes offered; 0 is the primary
    ReplicationTarget,     \* STORAGE_REPLICATION_TARGET
    Bond,                  \* operator_bond of every deal
    FeeRate, FeeScale,     \* price of the shard per epoch, FEE_RATE_SCALE
    OpenerBond, RangeKiB,  \* what an opener pays; the range asked for
    AutoInterval,          \* DEFAULT_CHALLENGE_INTERVAL
    AutoDeadline,          \* epochs an automatic challenge leaves
    MinGap,                \* MIN_OPERATOR_MANIFEST_CHALLENGE_EPOCHS
    MaxOpenPerDeal,        \* MAX_OPEN_CHALLENGES_PER_DEAL
    MaxOpenPerOperator,    \* MAX_OPEN_CHALLENGES_PER_OPERATOR
    AcceptanceEpochs,      \* REALLOCATION_ACCEPTANCE_EPOCHS
    RetentionEpochs,       \* REALLOCATION_RECORD_RETENTION_EPOCHS
    OperatorFunds, ClientFunds,
    Terms, Windows,        \* epoch ranges of deals and challenges requested
    MaxEpoch, MaxDeals, MaxPrunes,      \* bounds
    MaxChallenges                       \* bound on the requested challenges

Payers == Operators \cup {Client}

ASSUME StorageAssumption ==
    /\ Client \notin Operators /\ NoOperator \notin Payers
    /\ IsFiniteSet(Operators) /\ IsFiniteSet(Shards)
    /\ K \in 1..Cardinality(Shards)
    /\ {Bond, FeeRate, OpenerBond, OperatorFunds, ClientFunds, AcceptanceEpochs,
        RetentionEpochs, MaxEpoch} \subseteq Nat
    /\ {FeeScale, RangeKiB, AutoInterval, AutoDeadline} \subseteq Nat \ {0}
    /\ \A t \in Terms \cup Windows : t[1] \in Nat /\ t[2] \in Nat /\ t[1] < t[2]

VARIABLES
    registered,     \* the manifest is in the registry
    deals,          \* deal_id -> StorageDeal
    challenges,     \* challenge_id -> RetrievalChallenge
    results,        \* challenge_id -> ChallengeOutcome
    reallocations,  \* ticket_id -> StorageReallocationTicket
    next_reallocation_id,
    operator_cooldowns,         \* operators that sit out
    balance,
    storage_last_reward_epoch,  \* deal_id -> epoch paid through
    epoch,
    prunes

dealVars == <<registered, deals, challenges, results, reallocations, next_reallocation_id,
          operator_cooldowns, balance, storage_last_reward_epoch, epoch, prunes>>

-----------------------------------------------------------------------------
(* The books *)

Books ==
    [deals |-> deals, challenges |-> challenges, results |-> results,
     reallocations |-> reallocations, next |-> next_reallocation_id,
     cooldowns |-> operator_cooldowns, balance |-> balance,
     paid |-> storage_last_reward_epoch]

Become(b) ==
    /\ deals' = b.deals
    /\ challenges' = b.challenges
    /\ results' = b.results
    /\ reallocations' = b.reallocations
    /\ next_reallocation_id' = b.next
    /\ operator_cooldowns' = b.cooldowns
    /\ balance' = b.balance
    /\ storage_last_reward_epoch' = b.paid

\* A loop over a map keyed by consecutive ids, in the order of the ids, which
\* are counted from 0.
InOrder(Step(_, _), b, map) ==
    LET after[i \in 0..Cardinality(DOMAIN map)] ==
            IF i = 0 THEN b ELSE Step(after[i - 1], i - 1)
    IN  after[Cardinality(DOMAIN map)]

Enter(f, k, v) == [x \in DOMAIN f \cup {k} |-> IF x = k THEN v ELSE f[x]]

Credit(b, who, amount) == [b EXCEPT !.balance[who] = @ + amount]

Debit(b, who, amount) == [b EXCEPT !.balance[who] = @ - amount]

total_fee(epochs) == (FeeRate * epochs + FeeScale - 1) \div FeeScale

is_active(b, d) == b.deals[d].status = "Active"

OnShard(b, s) == {d \in DOMAIN b.deals : b.deals[d].shard = s}

active_replica_count(b, s) == Cardinality({d \in OnShard(b, s) : is_active(b, d)})

live_shard_count(b) == Cardinality({s \in Shards : active_replica_count(b, s) > 0})

-----------------------------------------------------------------------------
(* Deals *)

open_deal(b, s, op, i, term) ==
    LET d == Cardinality(DOMAIN b.deals) IN
    [b EXCEPT !.deals = Enter(@, d, [shard |-> s, operator |-> op, replica_index |-> i,
                                   start |-> term[1], end |-> term[2],
                                   status |-> "Active"]),
              !.paid = Enter(@, d, term[1])]

\* The debits of a placement, in the order of the code: the fee, then the bond.
Escrowed(b, op, payer, term) ==
    Debit(Debit(b, payer, total_fee(term[2] - term[1])), op, Bond)

CanPayFee(payer, term) == balance[payer] >= total_fee(term[2] - term[1])

CanPostBond(op, payer, term) ==
    Debit(Books, payer, total_fee(term[2] - term[1])).balance[op] >= Bond

Duplicate(s, op, i, term) ==
    \E d \in OnShard(Books, s) :
        /\ is_active(Books, d)
        /\ deals[d].operator = op /\ deals[d].replica_index = i
        /\ <<deals[d].start, deals[d].end>> = term

open_storage_deal_with_escrow(s, op, payer, i, term) ==
    /\ Cardinality(DOMAIN deals) < MaxDeals
    /\ op \notin operator_cooldowns
    /\ ~Duplicate(s, op, i, term)
    /\ CanPayFee(payer, term)
    /\ CanPostBond(op, payer, term)
    /\ Become(open_deal(Escrowed(Books, op, payer, term), s, op, i, term))
    /\ registered' = TRUE
    /\ UNCHANGED <<epoch, prunes>>

-----------------------------------------------------------------------------
(* Repair tickets *)

Waiting(t) == t.status \in {"Pending", "UnderReplicated"}

OpenTicket(b, failed, cause, s, i, barred, now) ==
    [b EXCEPT
        !.reallocations = Enter(@, b.next,
            [failed_deal_id |-> failed, cause |-> cause, shard |-> s, replica_index |-> i,
             slashed_operator |-> barred, opened |-> now,
             deadline |-> now + AcceptanceEpochs, status |-> "Pending",
             replacement |-> -1, settled |-> -1]),
        !.next = @ + 1]

\* A ticket for a deal, unless some ticket already carries its id.  The id of
\* a ticket for a shard that was never placed is 0, which is also a deal's.
TicketForDeal(b, d, barred, now) ==
    IF \E t \in DOMAIN b.reallocations : b.reallocations[t].failed_deal_id = d
    THEN b
    ELSE OpenTicket(b, d, "FailedDeal", b.deals[d].shard, b.deals[d].replica_index,
                    barred, now)

open_expiry_reallocation(b, d, now) == TicketForDeal(b, d, NoOperator, now)

open_never_placed_ticket(b, s, i, now) ==
    IF \E t \in DOMAIN b.reallocations :
           LET ticket == b.reallocations[t] IN
           /\ ticket.cause = "NeverPlaced" /\ Waiting(ticket)
           /\ ticket.shard = s /\ ticket.replica_index = i
    THEN b
    ELSE OpenTicket(b, 0, "NeverPlaced", s, i, NoOperator, now)

\* Whether the ticket may be taken up, up to the money.
Acceptable(t, op) ==
    /\ Waiting(reallocations[t])
    /\ op # reallocations[t].slashed_operator
    /\ op \notin operator_cooldowns
    /\ registered

accept_reallocation_ticket(b, t, op, term) ==
    LET ticket == b.reallocations[t] IN
    [open_deal(b, ticket.shard, op, ticket.replica_index, term) EXCEPT
        !.reallocations[t] =
            [@ EXCEPT !.status = "ActiveReplacement",
                      !.replacement = Cardinality(DOMAIN b.deals),
                      !.settled = Max({term[1], ticket.opened})]]

accept_storage_reallocation_with_escrow(t, op, payer, term) ==
    /\ Cardinality(DOMAIN deals) < MaxDeals
    /\ Acceptable(t, op)
    /\ CanPayFee(payer, term)
    /\ CanPostBond(op, payer, term)
    /\ Become(accept_reallocation_ticket(Escrowed(Books, op, payer, term), t, op, term))
    /\ UNCHANGED <<registered, epoch, prunes>>

\* The bond turns out to be short after the fee was taken: the call returns
\* without giving the fee back.
AcceptShortOfBond(t, op, payer, term) ==
    /\ Acceptable(t, op)
    /\ CanPayFee(payer, term)
    /\ ~CanPostBond(op, payer, term)
    /\ Become(Debit(Books, payer, total_fee(term[2] - term[1])))
    /\ UNCHANGED <<registered, epoch, prunes>>

-----------------------------------------------------------------------------
(* Challenges *)

Open(b, c) == c \notin DOMAIN b.results

required_opener_bond == Max({1, RangeKiB})

OperatorOf(b, c) == b.deals[b.challenges[c].deal].operator

MayChallenge(b, d, from, deadline, bond) ==
    LET op == b.deals[d].operator
        ofOperator == {c \in DOMAIN b.challenges : OperatorOf(b, c) = op}
    IN  /\ bond >= required_opener_bond
        /\ from < deadline
        /\ is_active(b, d)
        /\ \A c \in ofOperator : from >= b.challenges[c].from + MinGap
        /\ Cardinality({c \in ofOperator : b.challenges[c].deal = d /\ Open(b, c)})
             < MaxOpenPerDeal
        /\ Cardinality({c \in ofOperator : Open(b, c)}) < MaxOpenPerOperator

open_challenge(b, d, from, deadline) ==
    [b EXCEPT !.challenges = Enter(@, Cardinality(DOMAIN @),
                                 [deal |-> d, from |-> from, deadline |-> deadline])]

\* OpenStorageChallenge.  The bond is taken first and given back if the
\* registry refuses; once the challenge is open nothing returns it.
OpenStorageChallenge(opener, d, window) ==
    /\ Cardinality(DOMAIN challenges) < MaxChallenges
    /\ OpenerBond > 0 /\ balance[opener] >= OpenerBond
    /\ MayChallenge(Books, d, window[1], window[2], OpenerBond)
    /\ Become(open_challenge(Debit(Books, opener, OpenerBond), d, window[1], window[2]))
    /\ UNCHANGED <<registered, epoch, prunes>>

\* apply_storage_bond_slash: the operator sits out, and the amount is burned
\* from his balance as far as it goes, though the bond was debited before.
apply_storage_bond_slash(b, op) ==
    [b EXCEPT !.cooldowns = @ \cup {op},
              !.balance[op] = @ - Min({@, Bond})]

Slashed(b, c, outcome) ==
    LET d == b.challenges[c].deal IN
    [apply_storage_bond_slash(b, b.deals[d].operator) EXCEPT
        !.deals[d].status = "Slashed",
        !.results = Enter(@, c, outcome)]

\* AnswerStorageChallenge by the operator, who also names the epoch of his
\* answer.  Without a proof the answer is wrong; no ticket is opened here.
AnswerStorageChallenge(c, proof) ==
    /\ Open(Books, c)
    /\ is_active(Books, challenges[c].deal)
    /\ Become(IF proof THEN [Books EXCEPT !.results = Enter(@, c, "Answered")]
                       ELSE Slashed(Books, c, "Mismatched"))
    /\ UNCHANGED <<registered, epoch, prunes>>

-----------------------------------------------------------------------------
(* Maintenance after a block *)

\* Mutant: the interval since the last payment is priced, and rounded, by itself.
Owed_fresh(deal, paid, until) == total_fee(until - paid)

\* The delta of two totals, each rounded up, since the rest was paid before.
Owed(deal, paid, until) ==
    total_fee(until - deal.start) - total_fee(paid - deal.start)

PayOperator(b, d, now) ==
    LET deal == b.deals[d]
        until == Min({now, deal.end})
    IN  IF ~is_active(b, d) \/ until <= b.paid[d] \/ Owed(deal, b.paid[d], until) = 0
        THEN b
        ELSE [Credit(b, deal.operator, Owed(deal, b.paid[d], until)) EXCEPT !.paid[d] = until]

accrue_storage_operator_rewards(b, now) ==
    InOrder(LAMBDA x, d : PayOperator(x, d, now), b, b.deals)

\* Automatic challenges come with a bond of 1, which nobody pays, and are
\* dropped silently where the registry refuses them.
IssueChallenge(b, d, now) ==
    LET elapsed == now - b.deals[d].start IN
    IF /\ elapsed > 0 /\ elapsed % AutoInterval = 0
       /\ MayChallenge(b, d, now, now + AutoDeadline, 1)
    THEN open_challenge(b, d, now, now + AutoDeadline)
    ELSE b

issue_storage_challenges(b, now) ==
    InOrder(LAMBDA x, d : IssueChallenge(x, d, now), b, b.deals)

Missed(b, c, now) ==
    /\ Open(b, c)
    /\ now > b.challenges[c].deadline
    /\ is_active(b, b.challenges[c].deal)

FinalizeMissed(b, c, now) ==
    LET d == b.challenges[c].deal IN
    IF Missed(b, c, now)
    THEN TicketForDeal(Slashed(b, c, "Missed"), d, b.deals[d].operator, now)
    ELSE b

finalize_missed_storage_challenges(b, now) ==
    InOrder(LAMBDA x, c : FinalizeMissed(x, c, now), b, b.challenges)

permanence_floor == Max({K, 1})

\* Mutant: the floor itself may still be given up.
WouldStrand_below(b, d) ==
    /\ active_replica_count(b, b.deals[d].shard) <= 1
    /\ live_shard_count(b) < permanence_floor

WouldStrand(b, d) ==
    /\ active_replica_count(b, b.deals[d].shard) <= 1
    /\ live_shard_count(b) <= permanence_floor

Expired(b, d) ==
    Credit([b EXCEPT !.deals[d].status = "Expired"], b.deals[d].operator, Bond)

FinalizeExpired(b, d, now) ==
    IF ~is_active(b, d) \/ b.deals[d].end > now THEN b
    ELSE open_expiry_reallocation(IF WouldStrand(b, d) THEN b ELSE Expired(b, d), d, now)

finalize_expired_storage_deals(b, now) ==
    InOrder(LAMBDA x, d : FinalizeExpired(x, d, now), b, b.deals)

RepairShard(b, s, now) ==
    IF active_replica_count(b, s) > 0 THEN b
    ELSE IF OnShard(b, s) # {}
         THEN open_expiry_reallocation(b, Max(OnShard(b, s)), now)
         ELSE open_never_placed_ticket(b, s, 0, now)

\* The repair band: shards nobody holds, of an object with little headroom.
open_repair_band_tickets(b, now) ==
    LET live == live_shard_count(b)
        order == SetToSeq(Shards)
    IN  IF registered /\ live >= K /\ live < K + RepairMargin
        THEN InOrder(LAMBDA x, i : RepairShard(x, order[i + 1], now), b, order)
        ELSE b

FreeSlot(b, d) ==
    ~\E l \in OnShard(b, b.deals[d].shard) :
        is_active(b, l) /\ b.deals[l].replica_index = b.deals[d].replica_index

\* One slot each for expired deals of shards below their target, in the order
\* of the deals (the code goes shard by shard, which only numbers the tickets).
ReopenSlot(b, d, now) ==
    IF /\ b.deals[d].status = "Expired"
       /\ active_replica_count(b, b.deals[d].shard) < ReplicationTarget
       /\ FreeSlot(b, d)
    THEN open_expiry_reallocation(b, d, now)
    ELSE b

open_repair_tickets_for_free_slots(b, now) ==
    InOrder(LAMBDA x, d : ReopenSlot(x, d, now), b, b.deals)

mark_overdue_reallocations_under_replicated(b, now) ==
    [b EXCEPT !.reallocations = [t \in DOMAIN @ |->
        IF @[t].status = "Pending" /\ now > @[t].deadline
        THEN [@[t] EXCEPT !.status = "UnderReplicated"]
        ELSE @[t]]]

\* Mutant: the age alone decides, counted from the opening.
SweptTicket_any(t, now) == t.opened <= now - RetentionEpochs

SweptTicket(t, now) ==
    t.status = "ActiveReplacement" /\ t.settled <= now - RetentionEpochs

sweep_settled_reallocations(b, now) ==
    LET kept == {t \in DOMAIN b.reallocations : ~SweptTicket(b.reallocations[t], now)}
    IN  [b EXCEPT !.reallocations = [t \in kept |-> @[t]]]

prune_expired_cooldowns(b, lapsed) == [b EXCEPT !.cooldowns = @ \ lapsed]

run_storage_maintenance(b, now, vrf) ==
    LET b1 == accrue_storage_operator_rewards(b, now)
        b2 == IF vrf THEN issue_storage_challenges(b1, now) ELSE b1
        b3 == finalize_missed_storage_challenges(b2, now)
        b4 == finalize_expired_storage_deals(b3, now)
        b5 == open_repair_band_tickets(b4, now)
        b6 == open_repair_tickets_for_free_slots(b5, now)
        b7 == mark_overdue_reallocations_under_replicated(b6, now)
    IN  sweep_settled_reallocations(b7, now)

\* A block, in the same epoch or opening the next, with or without the VRF
\* output from which automatic challenges draw their range.  Cooldowns are
\* seconds of block time: seen in epochs, a block ends any of them.
Block(vrf, lapsed) ==
    /\ epoch' \in {e \in {epoch, epoch + 1} : e <= MaxEpoch}
    /\ Become(run_storage_maintenance(prune_expired_cooldowns(Books, lapsed), epoch', vrf))
    /\ UNCHANGED <<registered, prunes>>

-----------------------------------------------------------------------------
(* The manifest *)

RegisterStorageManifest ==
    /\ ~registered
    /\ registered' = TRUE
    /\ UNCHANGED <<deals, challenges, results, reallocations, next_reallocation_id,
                   operator_cooldowns, balance, storage_last_reward_epoch, epoch, prunes>>

\* A burned NFT or a StoragePrune command: the deals end without their bonds.
prune_content ==
    /\ registered /\ prunes < MaxPrunes
    /\ registered' = FALSE
    /\ prunes' = prunes + 1
    /\ deals' = [d \in DOMAIN deals |->
                    IF is_active(Books, d) THEN [deals[d] EXCEPT !.status = "Expired"]
                                           ELSE deals[d]]
    /\ UNCHANGED <<challenges, results, reallocations, next_reallocation_id,
                   operator_cooldowns, balance, storage_last_reward_epoch, epoch>>

-----------------------------------------------------------------------------
DealInit ==
    /\ registered = FALSE
    /\ deals = <<>> /\ challenges = <<>> /\ results = <<>> /\ reallocations = <<>>
    /\ next_reallocation_id = 0
    /\ operator_cooldowns = {}
    /\ balance = [a \in Payers |-> IF a = Client THEN ClientFunds ELSE OperatorFunds]
    /\ storage_last_reward_epoch = <<>>
    /\ epoch = 0 /\ prunes = 0

DealNext ==
    \/ \E s \in Shards, op \in Operators, i \in Slots, term \in Terms :
           open_storage_deal_with_escrow(s, op, Client, i, term)
    \/ \E t \in DOMAIN reallocations, op \in Operators, term \in Terms :
           \/ accept_storage_reallocation_with_escrow(t, op, Client, term)
           \/ AcceptShortOfBond(t, op, Client, term)
    \/ \E d \in DOMAIN deals, window \in Windows : OpenStorageChallenge(Client, d, window)
    \/ \E c \in DOMAIN challenges, proof \in BOOLEAN : AnswerStorageChallenge(c, proof)
    \/ \E vrf \in BOOLEAN, lapsed \in SUBSET operator_cooldowns : Block(vrf, lapsed)
    \/ RegisterStorageManifest
    \/ prune_content

DealSpec == DealInit /\ [][DealNext]_dealVars

-----------------------------------------------------------------------------
(* Properties *)

\* What the chain has still to pay for a deal: the bond and the rest of the fee.
Outstanding(b, d) ==
    IF is_active(b, d)
    THEN Bond + total_fee(b.deals[d].end - b.deals[d].start)
           - total_fee(b.paid[d] - b.deals[d].start)
    ELSE 0

Supply == ClientFunds + Cardinality(Operators) * OperatorFunds

\* What accounts hold and what active deals will still be paid never exceeds
\* what there was at the start: rewards rounded up at every tick, bonds
\* returned by the sweep and held deals are all covered by earlier debits.
Solvent ==
    SumFunction(balance)
        + SumFunction([d \in DOMAIN deals |-> Outstanding(Books, d)]) <= Supply

Guilty(b, d) ==
    {c \in DOMAIN b.results : b.challenges[c].deal = d /\ b.results[c] # "Answered"}

\* A deal is slashed for exactly one challenge, however many were open, whether
\* answered wrongly or missed; and only a slashed deal has lost one.
SlashedOnce ==
    \A d \in DOMAIN deals :
        Cardinality(Guilty(Books, d)) = IF deals[d].status = "Slashed" THEN 1 ELSE 0

\* A bond is settled once: it is slashed for one challenge at most, and what
\* the chain owes to operators is covered by what it took.
BondsSettledOnce == SlashedOnce /\ Solvent

Ticketed(b, d) ==
    \E t \in DOMAIN b.reallocations :
        /\ b.reallocations[t].failed_deal_id = d
        /\ b.reallocations[t].cause = "FailedDeal" \/ d = 0

Ended(d) == is_active(Books, d) /\ ~is_active(Books, d)'

\* The gap a deal leaves is never forgotten.  A deal that ends by its term or
\* by a missed challenge has a ticket of its own (deal 0 may find its id taken
\* by a ticket for a shard that was never placed); only a pruned object and a
\* wrong answer leave none.  And a ticket that waits for a taker waits until a
\* deal on its slot has replaced the lost one.
GapsStayTicketed ==
    [][ /\ \A d \in DOMAIN deals : Ended(d) =>
              \/ Ticketed(Books, d)' \/ Ticketed(Books, d)
              \/ ~registered'
              \/ \E c \in Guilty(Books, d)' : results'[c] = "Mismatched"
        /\ \A t \in DOMAIN reallocations : Waiting(reallocations[t]) =>
              /\ t \in DOMAIN reallocations'
              /\ LET now == reallocations'[t] IN
                 \/ Waiting(now)
                 \/ /\ now.replacement \in DOMAIN deals'
                    /\ deals'[now.replacement].status = "Active"
                    /\ deals'[now.replacement].shard = now.shard
                    /\ deals'[now.replacement].replica_index = now.replica_index ]_dealVars

\* Shards that someone still holds when the deals slashed in this step are gone.
HeldUnslashed ==
    {s \in Shards : \E d \in OnShard(Books, s) :
        is_active(Books, d) /\ deals'[d].status # "Slashed"}

\* "A term ending must not be a way to lose an object": however many deals
\* mature in one sweep, an object that could be restored without the deals
\* slashed in that step can be restored after it.
ExpiryKeepsObject ==
    [][ (Cardinality(HeldUnslashed) >= K /\ registered') => live_shard_count(Books)' >= K ]_dealVars
=============================================================================
