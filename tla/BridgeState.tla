---------------------------- MODULE BridgeState ----------------------------
(***************************************************************************)
(* The bridge state machine of src/src/cross_domain/bridge.rs together     *)
(* with the replay store of src/src/cross_domain/nonce.rs: which asset     *)
(* sits where, the transfer rows, the two height-keyed queues that move or *)
(* drop rows without anybody asking, and the nonces that refuse a second   *)
(* mint.                                                                   *)
(*                                                                         *)
(* The balances, the relay queue and the entry points that call this state *)
(* machine are in module BridgeSettlement, which extends this one.         *)
(*                                                                         *)
(* Abstractions.  A message id is a hash over the message's fields; two    *)
(* messages never share direction, sender and nonce, because next_nonce    *)
(* issues a nonce once, so the quadruple stands for the id.  The payload   *)
(* hash binds asset and amount of the row the id names and so adds         *)
(* nothing to the id.  chain_height is chain.len(): the index of the block *)
(* about to be built, and the height every operation records.              *)
(***************************************************************************)
EXTENDS Integers, FiniteSets

CONSTANTS
  Domains,      \* domain ids of the consensus domains the bridge connects
  Assets,       \* asset ids
  Accounts,     \* addresses that own, receive or relay
  Recipients,   \* the accounts a lock may name as its recipient
  Amounts,      \* amounts a transfer may carry (base units, non-zero)
  Expiries,     \* expiry heights a caller may ask for; 0 means none
  Retention,    \* SETTLED_RETENTION_BLOCKS
  MaxNonce,     \* bound: nonces issued per direction and sender
  MaxHeight     \* bound: length of the chain

\* Domain ids are u32 and addresses 32 bytes, so there are finitely many.
ASSUME BridgeConstants ==
  /\ IsFiniteSet(Domains)
  /\ IsFiniteSet(Accounts)
  /\ Recipients \subseteq Accounts
  /\ Amounts \subseteq Nat \ {0}
  /\ Expiries \subseteq Nat
  /\ Retention \in Nat \ {0}
  /\ MaxNonce \in Nat
  /\ MaxHeight \in Nat \ {0}

VARIABLES
  asset_locations,       \* asset -> status, for the registered assets
  transfers,             \* message id -> transfer row
  expiry_queue,          \* set of [height, id]: the locks to look at then
  settled_queue,         \* set of [height, id]: the rows that settled then
  outbound_nonces,       \* direction -> next nonce to issue
  processed_high_water,  \* direction -> last nonce minted, -1 for no row
  chain_height           \* chain.len()

bridgeVars == <<asset_locations, transfers, expiry_queue, settled_queue,
                outbound_nonces, processed_high_water, chain_height>>

----------------------------------------------------------------------------
(* Data.                                                                   *)

Kinds == {"Active", "Locked", "Minted", "Burned", "Unlocked"}
BridgeStatus == [kind : Kinds, domain : Domains]

Active(d)   == [kind |-> "Active",   domain |-> d]
Locked(d)   == [kind |-> "Locked",   domain |-> d]
Minted(d)   == [kind |-> "Minted",   domain |-> d]
Burned(d)   == [kind |-> "Burned",   domain |-> d]
Unlocked(d) == [kind |-> "Unlocked", domain |-> d]

Direction == {d \in [source : Domains, target : Domains, sender : Accounts] :
                d.source # d.target}
MessageId == [dir : Direction, nonce : 0..MaxNonce]

BridgeTransfer == [asset : Assets, recipient : Accounts, amount : Amounts,
                   expiry : Expiries, status : BridgeStatus]

QueueEntry == [height : Nat, id : MessageId]

\* The row's source_domain, target_domain and owner: those of its message.
Source(m) == m.dir.source
Target(m) == m.dir.target
Owner(m)  == m.dir.sender

\* The map with one entry replaced or added.
Put(f, k, v) == [x \in DOMAIN f \cup {k} |-> IF x = k THEN v ELSE f[x]]

HasStatus(m, s) == m \in DOMAIN transfers /\ transfers[m].status = s

\* The rows that are inventory: the asset is somewhere between two homes.
Live(m) == transfers[m].status.kind \in {"Locked", "Minted", "Burned"}
\* The rows that are history.
Terminal(s) == s.kind \in {"Unlocked", "Active"}

----------------------------------------------------------------------------
(* ReplayNonceStore.                                                       *)

is_processed(m) == m.nonce <= processed_high_water[m.dir]

next_nonce(d) ==
  /\ outbound_nonces[d] < MaxNonce
  /\ outbound_nonces' = [outbound_nonces EXCEPT ![d] = @ + 1]

\* A mutant of mark_processed_at: the mark follows the last message.
mark_processed_reset(m) ==
  processed_high_water' = [processed_high_water EXCEPT ![m.dir] = 0]

mark_processed_at(m) ==
  /\ ~ is_processed(m)
  /\ processed_high_water' = [processed_high_water EXCEPT ![m.dir] = m.nonce]

----------------------------------------------------------------------------
(* BridgeState.                                                            *)

BridgeInit ==
  /\ asset_locations = [a \in {} |-> Active(a)]
  /\ transfers = [m \in {} |-> m]
  /\ expiry_queue = {}
  /\ settled_queue = {}
  /\ outbound_nonces = [d \in Direction |-> 0]
  /\ processed_high_water = [d \in Direction |-> -1]
  /\ chain_height = 1

register_asset(a, d) ==
  /\ a \notin DOMAIN asset_locations
  /\ asset_locations' = Put(asset_locations, a, Active(d))
  /\ UNCHANGED <<transfers, expiry_queue, settled_queue, outbound_nonces,
                 processed_high_water, chain_height>>

\* A mutant of require_asset_status: only the domain is compared.
require_asset_domain(a, s) ==
  a \in DOMAIN asset_locations /\ asset_locations[a].domain = s.domain

require_asset_status(a, s) ==
  a \in DOMAIN asset_locations /\ asset_locations[a] = s

\* The message the next lock in direction d would carry.
LockMessage(d) == [dir |-> d, nonce |-> outbound_nonces[d]]

\* A mutant of ExpiryEntry: the sweep is never told of the lock.
NoExpiryEntry(m, expiry) == {}

\* What lock pushes to the expiry queue.
ExpiryEntry(m, expiry) ==
  IF expiry > 0 THEN {[height |-> expiry, id |-> m]} ELSE {}

lock(d, a, recipient, amount, expiry) ==
  LET m == LockMessage(d)
  IN  /\ require_asset_status(a, Active(d.source))
      /\ next_nonce(d)
      /\ asset_locations' = Put(asset_locations, a, Locked(d.source))
      /\ transfers' = Put(transfers, m,
           [asset |-> a, recipient |-> recipient, amount |-> amount,
            expiry |-> expiry, status |-> Locked(d.source)])
      /\ expiry_queue' = expiry_queue \cup ExpiryEntry(m, expiry)
      /\ UNCHANGED <<settled_queue, processed_high_water, chain_height>>

\* What mint checks before it changes anything.
CanMint(m) ==
  /\ m \in DOMAIN transfers
  /\ ~ is_processed(m)
  /\ transfers[m].status = Locked(Source(m))

mint(m) ==
  /\ CanMint(m)
  /\ mark_processed_at(m)
  /\ transfers' = [transfers EXCEPT ![m].status = Minted(Target(m))]
  /\ asset_locations' =
       Put(asset_locations, transfers[m].asset, Minted(Target(m)))
  /\ UNCHANGED <<expiry_queue, settled_queue, outbound_nonces, chain_height>>

\* The burn message goes back from the target to the source; it takes its
\* nonce from the same counter as a lock in that direction would.
BurnDirection(m) ==
  [source |-> Target(m), target |-> Source(m), sender |-> transfers[m].recipient]

BurnMessage(m) ==
  [dir |-> BurnDirection(m), nonce |-> outbound_nonces[BurnDirection(m)]]

burn_with_event(m, d) ==
  /\ HasStatus(m, Minted(d))
  /\ next_nonce(BurnDirection(m))
  /\ transfers' = [transfers EXCEPT ![m].status = Burned(d)]
  /\ asset_locations' = Put(asset_locations, transfers[m].asset, Burned(d))
  /\ UNCHANGED <<expiry_queue, settled_queue, processed_high_water,
                 chain_height>>

\* What unlock checks: d is the domain the burn message came from.
CanUnlock(m, d) ==
  /\ HasStatus(m, Burned(Target(m)))
  /\ Target(m) = d

\* A mutant of mark_settled: the row never reaches the settled queue.
mark_nothing(S) == {}

\* The settled-queue entries of the rows in S, at the current height.
mark_settled(S) == [height : {chain_height}, id : S]

unlock(m, d) ==
  /\ CanUnlock(m, d)
  /\ transfers' = [transfers EXCEPT ![m].status = Unlocked(Source(m))]
  /\ asset_locations' =
       Put(asset_locations, transfers[m].asset, Active(Source(m)))
  /\ settled_queue' = settled_queue \cup mark_settled({m})
  /\ UNCHANGED <<expiry_queue, outbound_nonces, processed_high_water,
                 chain_height>>

\* The ids whose queue height has come.
Due(queue, h) == {q.id : q \in {e \in queue : e.height <= h}}
NotDue(queue, h) == {e \in queue : e.height > h}

\* A mutant of Released: whatever is due is released, minted or not.
ReleasedAnyway == Due(expiry_queue, chain_height) \cap DOMAIN transfers

\* A mutant of Released: a lock a later nonce overtook is taken for minted.
ReleasedUnprocessed ==
  {m \in Due(expiry_queue, chain_height) \cap DOMAIN transfers :
     transfers[m].status.kind = "Locked" /\ ~ is_processed(m)}

\* The locks the sweep returns to their owners: due and still Locked.
Released ==
  {m \in Due(expiry_queue, chain_height) \cap DOMAIN transfers :
     transfers[m].status.kind = "Locked"}

\* The rows once the due locks are Active again.
RowsAfterRelease ==
  [m \in DOMAIN transfers |->
     IF m \in Released
     THEN [transfers[m] EXCEPT !.status = Active(transfers[m].status.domain)]
     ELSE transfers[m]]

\* A mutant of cutoff: the retention is forgotten.
cutoff_now == chain_height

\* drop_settled_rows: u64::saturating_sub stops the cutoff at 0.
cutoff == IF chain_height > Retention THEN chain_height - Retention ELSE 0

\* The rows past their retention; the queue is a hint, the status the fact.
DroppedRows(queue) ==
  {m \in Due(queue, cutoff) \cap DOMAIN transfers :
     Terminal(RowsAfterRelease[m].status)}

\* The sweep at the end of a block: release first, drop second.
sweep_expired_locks ==
  LET settled == settled_queue \cup mark_settled(Released)
      kept    == DOMAIN transfers \ DroppedRows(settled)
  IN  /\ expiry_queue' = NotDue(expiry_queue, chain_height)
      /\ asset_locations' =
           [a \in DOMAIN asset_locations |->
              IF \E m \in Released : transfers[m].asset = a
              THEN Active(transfers[CHOOSE m \in Released :
                                      transfers[m].asset = a].status.domain)
              ELSE asset_locations[a]]
      /\ settled_queue' = NotDue(settled, cutoff)
      /\ transfers' = [m \in kept |-> RowsAfterRelease[m]]
      /\ UNCHANGED <<outbound_nonces, processed_high_water>>

\* A committed block sweeps at its own index and lengthens the chain.
CommitBlock ==
  /\ chain_height < MaxHeight
  /\ sweep_expired_locks
  /\ chain_height' = chain_height + 1

----------------------------------------------------------------------------
BridgeNext ==
  \/ \E a \in Assets, d \in Domains : register_asset(a, d)
  \/ \E d \in Direction, a \in Assets, r \in Recipients, x \in Amounts,
        e \in Expiries : lock(d, a, r, x, e)
  \/ \E m \in DOMAIN transfers : mint(m)
  \/ \E m \in DOMAIN transfers, d \in Domains : burn_with_event(m, d)
  \/ \E m \in DOMAIN transfers, d \in Domains : unlock(m, d)
  \/ CommitBlock

BridgeSpec == BridgeInit /\ [][BridgeNext]_bridgeVars

----------------------------------------------------------------------------
(* Properties.                                                             *)

\* The type of the bridge's state.
BridgeTypeOK ==
  /\ DOMAIN asset_locations \subseteq Assets
  /\ asset_locations \in [DOMAIN asset_locations -> BridgeStatus]
  /\ DOMAIN transfers \subseteq MessageId
  /\ transfers \in [DOMAIN transfers -> BridgeTransfer]
  /\ expiry_queue \subseteq QueueEntry
  /\ settled_queue \subseteq QueueEntry
  /\ outbound_nonces \in [Direction -> 0..MaxNonce]
  /\ processed_high_water \in [Direction -> Int]
  /\ chain_height \in Nat

\* One asset, one place: at most one live row holds an asset, the asset's
\* location is that row's status, and with no live row the asset is Active.
\* lock, mint, burn, unlock and the sweep each write the row and the location
\* separately, and an asset that passed through many rows keeps them all until
\* the retention drops them.
AssetInOnePlace ==
  /\ \A m, n \in DOMAIN transfers :
       Live(m) /\ Live(n) /\ transfers[m].asset = transfers[n].asset => m = n
  /\ \A m \in DOMAIN transfers :
       /\ transfers[m].asset \in DOMAIN asset_locations
       /\ Live(m) => asset_locations[transfers[m].asset] = transfers[m].status
  /\ \A a \in DOMAIN asset_locations :
       asset_locations[a].kind # "Active" =>
         \E m \in DOMAIN transfers : Live(m) /\ transfers[m].asset = a

\* No row is forgotten by the queues: a lock with an expiry that is still
\* Locked is in the expiry queue at that height, so the sweep will reach it;
\* a settled row is in the settled queue, so the retention will reach it; and
\* only settled rows are there, once each, so nothing live is ever due for
\* dropping.
QueuesCoverRows ==
  /\ \A m \in DOMAIN transfers :
       /\ transfers[m].status.kind = "Locked" /\ transfers[m].expiry > 0 =>
            [height |-> transfers[m].expiry, id |-> m] \in expiry_queue
       /\ Terminal(transfers[m].status) =>
            \E h \in 0..chain_height : [height |-> h, id |-> m] \in settled_queue
  /\ \A q \in settled_queue :
       /\ q.id \in DOMAIN transfers /\ Terminal(transfers[q.id].status)
       /\ \A p \in settled_queue : p.id = q.id => p = q

\* A message is minted at most once and never out of nonce order: the mark is
\* below the issued nonces, and a row that was minted has its nonce at or below
\* the mark, also after it settled.  (That the mark never falls is
\* ReplayMarkRises.)
ReplayMarkCovers ==
  /\ \A d \in Direction : processed_high_water[d] < outbound_nonces[d]
  /\ \A m \in DOMAIN transfers :
       /\ m.nonce < outbound_nonces[m.dir]
       /\ transfers[m].status.kind \in {"Minted", "Burned", "Unlocked"} =>
            is_processed(m)

\* The mark never moves back (action property over mark_processed_at).
ReplayMarkRises ==
  [][\A d \in Direction : processed_high_water'[d] >= processed_high_water[d]]_bridgeVars

\* Inventory is never dropped and history is kept for Retention blocks: a row
\* leaves the table only when it is terminal and settled that long ago.
DropsOnlyOldHistory ==
  [][\A m \in DOMAIN transfers \ DOMAIN transfers' :
       \E q \in settled_queue :
         /\ q.id = m /\ q.height + Retention <= chain_height
         /\ Terminal(transfers[m].status)]_bridgeVars
============================================================================
