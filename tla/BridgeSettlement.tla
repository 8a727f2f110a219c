-------------------------- MODULE BridgeSettlement --------------------------
(***************************************************************************)
(* The bridge as a node runs it: the entry points of                       *)
(* src/src/chain/blockchain.rs (operator calls that change state between   *)
(* blocks), the RelayerResult arm of src/src/execution/executor.rs (the    *)
(* same transitions as a transaction inside a block), the relay queue of   *)
(* src/src/cross_domain/relayer.rs, the account balances, and the end of a *)
(* block, which refunds expired locks.                                     *)
(*                                                                         *)
(* The chain actor handles one message at a time, so a call is one step.   *)
(* A block is several: it opens, its transactions run, it commits.  The    *)
(* clock of the operator calls and of the block is the same chain.len().   *)
(*                                                                         *)
(* Left out: that a domain is registered, active and bridge-enabled, and   *)
(* that an event proof verifies.  Both only disable an action; a call that *)
(* would be refused for them is a stutter here.  Transaction fees belong   *)
(* to the executor.  No balance overflows u64: all are below the cap plus  *)
(* what the bridge pays out, far below 2^64.                               *)
(***************************************************************************)
EXTENDS BridgeState, FiniteSetsExt

CONSTANTS
  Relayers,        \* accounts with a slashable RELAYER registration
  InitialBalance,  \* account -> genesis balance
  SupplyCap,       \* BUD_TOTAL_SUPPLY less what is staked or bonded
  FeePpm,          \* bridge_relayer_fee_ppm
  MinFees,         \* values governance may give bridge_relayer_min_fee
  BurnExpiries     \* expiry heights of burn messages; 0 means none

ASSUME SettlementConstants ==
  /\ Relayers \subseteq Accounts
  /\ InitialBalance \in [Accounts -> Nat]
  /\ SupplyCap \in Nat
  /\ FeePpm \in Nat /\ FeePpm < 1000000
  /\ MinFees \subseteq Nat
  /\ BurnExpiries \subseteq Nat

VARIABLES
  balance,    \* account -> liquid balance
  messages,   \* message_registry: ids of the registered messages
  pending,    \* UniversalRelayer: message id -> pending relay
  relayed,    \* RelayLedger: set of [id, height]
  min_fee,    \* RegistryParams: bridge_relayer_min_fee
  in_block,   \* TRUE while the transactions of a block run
  ledger      \* history: what each transfer took and paid so far

settlementVars == <<balance, messages, pending, relayed, min_fee, in_block,
                    ledger>>
vars == <<bridgeVars, settlementVars>>

----------------------------------------------------------------------------
PendingRelay ==
  [kind : {"BridgeLock", "BridgeBurn"}, transfer : MessageId, expiry : Nat]

Entry == [locked : Nat, mint : Nat, refund : Nat, unlock : Nat]

Circulating == SumFunction(balance)

\* supply_capacity_remaining: a lock's amount has left the balances, so it
\* counts as headroom.
Headroom == IF Circulating > SupplyCap THEN 0 ELSE SupplyCap - Circulating

RowAmounts == [m \in DOMAIN transfers |-> transfers[m].amount]

LockedRows == {m \in DOMAIN transfers : transfers[m].status.kind = "Locked"}

locked_amount_total == SumFunctionOnSet(RowAmounts, LockedRows)

\* split_bridge_fee refuses an amount the minimum fee would eat up.
CoversFee(amount) == amount > min_fee

Proportional(amount) == (amount * FeePpm) \div 1000000

\* The relayer's share; the rest is the recipient's.
Fee(amount) == Max({Proportional(amount), min_fee})

CanPay(account, amount) == balance[account] >= amount

\* A mutant of Credit: the fee is paid on top of the full amount.
CreditGross(account, relayer, amount) ==
  [a \in Accounts |-> balance[a] + (IF a = account THEN amount ELSE 0)
                                 + (IF a = relayer THEN Fee(amount) ELSE 0)]

\* The balances once amount has been split between account and relayer.
Credit(account, relayer, amount) ==
  [a \in Accounts |-> balance[a]
     + (IF a = account THEN amount - Fee(amount) ELSE 0)
     + (IF a = relayer THEN Fee(amount) ELSE 0)]

\* A mutant of Expired: one block of grace.
ExpiredLate(expiry) == expiry > 0 /\ chain_height > expiry + 1

\* submit_cross_domain_message refuses a message past its expiry, and
\* process_relay a relay.
Expired(expiry) == expiry > 0 /\ chain_height > expiry

----------------------------------------------------------------------------
(* Registering messages and relays.                                        *)

\* submit_cross_domain_message, then enqueue_bridge_relay.  An expired
\* message is refused, and the caller has already changed the bridge.
Publish(id, kind, m, expiry) ==
  IF Expired(expiry)
  THEN UNCHANGED <<messages, pending>>
  ELSE /\ messages' = messages \cup {id}
       /\ pending' = Put(pending, id,
            [kind |-> kind, transfer |-> m, expiry |-> expiry])

\* sweep_retired, once per committed block.
RetireRelays ==
  /\ pending' = [id \in {i \in DOMAIN pending :
                           pending[i].expiry = 0 \/ pending[i].expiry > cutoff}
                   |-> pending[id]]
  /\ relayed' = {r \in relayed : r.height > cutoff}

----------------------------------------------------------------------------
(* Operator calls, between blocks.                                         *)

register_bridge_asset(a, d) ==
  /\ ~ in_block
  /\ register_asset(a, d)
  /\ UNCHANGED settlementVars

\* source_height is the caller's, so any expiry above 0 may be asked for,
\* one that has passed too: then the debit stands and the call fails.
\* (Bound: no lock once the chain has reached MaxHeight.)
lock_bridge_transfer(d, a, recipient, amount, expiry) ==
  /\ ~ in_block
  /\ chain_height < MaxHeight
  /\ expiry > 0
  /\ CanPay(d.sender, amount)
  /\ lock(d, a, recipient, amount, expiry)
  /\ balance' = [balance EXCEPT ![d.sender] = @ - amount]
  /\ Publish(LockMessage(d), "BridgeLock", LockMessage(d), expiry)
  /\ ledger' = [ledger EXCEPT ![LockMessage(d)].locked = amount]
  /\ UNCHANGED <<relayed, min_fee, in_block>>

\* What every mint path settles before the bridge state moves.
MintFunded(m) ==
  /\ m \in DOMAIN transfers
  /\ CoversFee(transfers[m].amount)
  /\ transfers[m].amount <= Headroom

\* The bridge transition of a mint with both credits.
MintAndCredit(m, relayer) ==
  /\ mint(m)
  /\ balance' = Credit(transfers[m].recipient, relayer, transfers[m].amount)
  /\ ledger' = [ledger EXCEPT ![m].mint = @ + transfers[m].amount]

mint_bridge_transfer_from_verified_event(m, relayer) ==
  /\ ~ in_block
  /\ MintFunded(m)
  /\ MintAndCredit(m, relayer)
  /\ UNCHANGED <<messages, pending, relayed, min_fee, in_block>>

\* No balance is debited: what was minted stays with its holder.
burn_bridge_transfer_with_event(m, d, expiry) ==
  /\ ~ in_block
  /\ burn_with_event(m, d)
  /\ Publish(BurnMessage(m), "BridgeBurn", m, expiry)
  /\ UNCHANGED <<balance, relayed, min_fee, in_block, ledger>>

\* The burn message's domains, sender and recipient are compared with the
\* row; burn_with_event took them from it.  Nobody is credited.
unlock_bridge_transfer_from_verified_event(m) ==
  /\ ~ in_block
  /\ unlock(m, Target(m))
  /\ UNCHANGED settlementVars

----------------------------------------------------------------------------
(* submit_relay_proof: the relay queue first, the bridge second.           *)

\* process_relay records the relay and removes it from the queue, whatever
\* the bridge says afterwards.
TakeRelay(id) ==
  /\ relayed' = relayed \cup {[id |-> id, height |-> chain_height]}
  /\ pending' = [i \in DOMAIN pending \ {id} |-> pending[i]]

\* The kinds process_relay accepts: queued, not recorded, not expired.
Relayable(id, kind) ==
  /\ id \in DOMAIN pending
  /\ pending[id].kind = kind
  /\ id \notin {r.id : r \in relayed}
  /\ ~ Expired(pending[id].expiry)

RelayMint(id, relayer) ==
  /\ ~ in_block
  /\ Relayable(id, "BridgeLock")
  /\ TakeRelay(id)
  /\ MintFunded(id)
  /\ MintAndCredit(id, relayer)
  /\ UNCHANGED <<messages, min_fee, in_block>>

\* The relay is spent and the bridge refuses the mint.
RelayMintRefused(id) ==
  /\ ~ in_block
  /\ Relayable(id, "BridgeLock")
  /\ TakeRelay(id)
  /\ ~ (MintFunded(id) /\ CanMint(id))
  /\ UNCHANGED <<bridgeVars, balance, messages, min_fee, in_block, ledger>>

\* unlock comes before the fee is split, so a row the minimum fee has
\* outgrown is unlocked and nobody is paid.
RelayUnlock(id, relayer) ==
  LET m == pending[id].transfer
      x == transfers[m].amount
  IN  /\ ~ in_block
      /\ Relayable(id, "BridgeBurn")
      /\ TakeRelay(id)
      /\ unlock(m, id.dir.source)
      /\ IF CoversFee(x)
         THEN /\ balance' = Credit(Owner(m), relayer, x)
              /\ ledger' = [ledger EXCEPT ![m].unlock = @ + x]
         ELSE UNCHANGED <<balance, ledger>>
      /\ UNCHANGED <<messages, min_fee, in_block>>

RelayUnlockRefused(id) ==
  /\ ~ in_block
  /\ Relayable(id, "BridgeBurn")
  /\ TakeRelay(id)
  /\ ~ CanUnlock(pending[id].transfer, id.dir.source)
  /\ UNCHANGED <<bridgeVars, balance, messages, min_fee, in_block, ledger>>

----------------------------------------------------------------------------
(* Blocks.                                                                 *)

BeginBlock ==
  /\ ~ in_block
  /\ chain_height < MaxHeight
  /\ in_block' = TRUE
  /\ UNCHANGED <<bridgeVars, balance, messages, pending, relayed, min_fee,
                 ledger>>

\* A RelayerResult transaction that carries a lock message.
ResultMint(m, relayer) ==
  /\ in_block
  /\ MintFunded(m)
  /\ MintAndCredit(m, relayer)
  /\ UNCHANGED <<messages, pending, relayed, min_fee, in_block>>

\* A RelayerResult transaction that carries a burn message: an error after
\* the unlock discards the transaction, unlock included.
ResultUnlock(m, relayer) ==
  /\ in_block
  /\ unlock(m, Target(m))
  /\ CoversFee(transfers[m].amount)
  /\ balance' = Credit(Owner(m), relayer, transfers[m].amount)
  /\ ledger' = [ledger EXCEPT ![m].unlock = @ + transfers[m].amount]
  /\ UNCHANGED <<messages, pending, relayed, min_fee, in_block>>

\* A governance proposal that passed sets the minimum relayer fee.
ChangeMinFee(fee) ==
  /\ in_block
  /\ fee # min_fee
  /\ min_fee' = fee
  /\ UNCHANGED <<bridgeVars, balance, messages, pending, relayed, in_block,
                 ledger>>

\* What the sweep returns to an owner.
Refund(account) ==
  SumFunctionOnSet(RowAmounts, {m \in Released : Owner(m) = account})

\* apply_bridge_sweep_to_state, the durable commit, sweep_retired_relays.
EndBlock ==
  /\ in_block
  /\ CommitBlock
  /\ balance' = [a \in Accounts |-> balance[a] + Refund(a)]
  /\ ledger' = [m \in MessageId |->
       IF m \in Released
       THEN [ledger[m] EXCEPT !.refund = @ + transfers[m].amount]
       ELSE ledger[m]]
  /\ RetireRelays
  /\ in_block' = FALSE
  /\ UNCHANGED <<messages, min_fee>>

----------------------------------------------------------------------------
Init ==
  /\ BridgeInit
  /\ balance = InitialBalance
  /\ messages = {}
  /\ pending = [id \in {} |-> id]
  /\ relayed = {}
  /\ min_fee \in MinFees
  /\ in_block = FALSE
  /\ ledger = [m \in MessageId |->
                 [locked |-> 0, mint |-> 0, refund |-> 0, unlock |-> 0]]

OperatorCall ==
  \/ \E a \in Assets, d \in Domains : register_bridge_asset(a, d)
  \/ \E d \in Direction, a \in Assets, r \in Recipients, x \in Amounts,
        e \in Expiries : lock_bridge_transfer(d, a, r, x, e)
  \/ \E m \in DOMAIN transfers, r \in Relayers :
        mint_bridge_transfer_from_verified_event(m, r)
  \/ \E m \in DOMAIN transfers, d \in Domains, e \in BurnExpiries :
        burn_bridge_transfer_with_event(m, d, e)
  \/ \E m \in DOMAIN transfers : unlock_bridge_transfer_from_verified_event(m)

submit_relay_proof ==
  \/ \E id \in DOMAIN pending, r \in Relayers :
        RelayMint(id, r) \/ RelayUnlock(id, r)
  \/ \E id \in DOMAIN pending : RelayMintRefused(id) \/ RelayUnlockRefused(id)

Transaction ==
  \/ \E m \in DOMAIN transfers, r \in Relayers :
        ResultMint(m, r) \/ ResultUnlock(m, r)
  \/ \E f \in MinFees : ChangeMinFee(f)

Next == OperatorCall \/ submit_relay_proof \/ BeginBlock \/ Transaction \/ EndBlock

Spec == Init /\ [][Next]_vars

\* Blocks keep being produced and a block that opened commits; nothing else
\* has to happen.
FairSpec == Spec /\ WF_vars(BeginBlock) /\ WF_vars(EndBlock)

----------------------------------------------------------------------------
(* Properties.                                                             *)

\* The type of the settlement state.
SettlementTypeOK ==
  /\ balance \in [Accounts -> Nat]
  /\ messages \subseteq MessageId
  /\ DOMAIN pending \subseteq MessageId
  /\ \A id \in DOMAIN pending : pending[id] \in PendingRelay
  /\ relayed \subseteq [id : MessageId, height : Nat]
  /\ min_fee \in MinFees
  /\ in_block \in BOOLEAN
  /\ ledger \in [MessageId -> Entry]

\* A lock is paid out once: what its transfer minted or refunded never
\* exceeds what it took from the owner, whichever of the three mint paths,
\* the sweep and the retention came first, and it unlocks no more than it
\* minted.
PaidOutOnce ==
  \A m \in MessageId : /\ ledger[m].mint + ledger[m].refund <= ledger[m].locked
                       /\ ledger[m].unlock <= ledger[m].mint

\* Balances and locked rows account for the supply: locking, minting, fee
\* splitting and refunding create and lose nothing; an unlock that pays adds
\* what it pays.
ValueAccounted ==
  Circulating + locked_amount_total =
    SumFunction(InitialBalance)
      + SumFunctionOnSet([m \in MessageId |-> ledger[m].unlock], MessageId)

\* The relay deadline and the refund never overlap: once the sweep has given
\* a lock back, or dropped its row, a relay still queued for it is expired.
RefundedLockNotRelayable ==
  \A id \in DOMAIN pending :
    pending[id].kind = "BridgeLock" /\ ledger[id].refund > 0 =>
      ~ Relayable(id, "BridgeLock")

\* Dropping old ledger records cannot bring a relay back: a recorded relay
\* has left the queue, and a queued one was published and never settled by
\* an earlier relay.
RecordedRelayLeftQueue ==
  \A r \in relayed : r.id \notin DOMAIN pending /\ r.id \in messages

\* A lock does not stay Locked for ever: relayed, refused, passed over by a
\* later nonce or forgotten, the sweep gives it back.
LockResolves ==
  \A m \in MessageId :
    HasStatus(m, Locked(Source(m))) ~> ~ HasStatus(m, Locked(Source(m)))

\* A lock a later nonce of the same sender has overtaken is refunded in
\* full: it can no longer be minted and its owner loses nothing.
OvertakenLockRefunded ==
  \A m \in MessageId :
    HasStatus(m, Locked(Source(m))) /\ is_processed(m)
      ~> ledger[m].refund = ledger[m].locked

============================================================================
