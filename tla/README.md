# A verification project for Budlum

Budlum is a settlement layer in Rust: it runs its own chain, finalizes checkpoints
with BLS and post-quantum signatures, and moves value between consensus domains over
a lock / mint / burn / unlock bridge. This directory models the parts of it that
carry value and finality in TLA+, checks them with TLC on small instances and proves
their main safety properties with TLAPS for every value of the constants.

Paths below start at `src/`, the repository's root; the node's crate is `src/src/`.
`PROJECT.json` lists runs, mutants, findings, hazards and theorems, and maps every
definition to the lines it models.

## 1. Inventory

| Part | State | Operations | Interacts with | What is hard | What makes it correct |
| --- | --- | --- | --- | --- | --- |
| Bridge state machine (`cross_domain/bridge.rs`, `nonce.rs`) | asset locations, transfer rows, expiry and settled queues, nonces, replay marks | `register_asset`, `lock`, `mint`, `burn_with_event`, `unlock`, `sweep_expired_locks` | called by the blockchain and the executor | one fact kept in several tables; nonces that overtake; rows dropped by age | an asset is in one place; nothing is minted twice; no row is forgotten |
| Bridge settlement (`chain/blockchain.rs`, `execution/executor.rs`, `cross_domain/relayer.rs`, `core/account.rs`) | balances, messages, relay queue and ledger, fee parameters | operator calls, `submit_relay_proof`, `RelayerResult` transactions, the sweep at the end of a block | bridge, governance, relayers | three mint paths and a sweep race for a row; steps that fail after another has changed state | a lock is paid once; value is accounted for; a lock resolves |
| Checkpoint finality (`chain/blockchain.rs`, `chain/finality.rs`, `consensus/qc.rs`, `chain/snapshot.rs`) | finalized height and hash, blob cache and store, waiting certificates, certificate store, snapshots | `handle_finality_cert`, `import_qc_blob`, `handle_qc_fault_proof`, `try_reorg`, block import and production, restart | network, fork choice, relayer | messages in any order; evidence that outlives its chain; restart | what is final is on the chain, rests on current evidence, and is not replaced |
| Vote aggregation and voting loop (`chain/finality.rs`, `chain/chain_actor.rs`, `network/node.rs`) | prevotes, precommits, equivocation records, vote marks in memory and in the vote-history file | `handle_prevote`, `handle_precommit`, the periodic loop, `try_produce_cert` | gossip, finality, slashing | votes before the quorum, crash between publishing and saving, a reorganisation under an open round | conflicting certificates name a third of the stake; an honest validator signs once; only offenders are reported |
| Block store (`storage/db.rs`, `storage/pruning.rs`) | blocks, height index, LAST, canonical height, in-progress marker, bridge state and its copies | `commit_durable_batch`, `recover_interrupted_commit`, `load_chain`, `delete_block`, pruning, repair | blockchain, startup | crashes between writes; one key with two meanings; a reorganisation that deletes before it writes | a restart finds what was committed |
| Synchronisation (`network/node.rs`, `chain/chain_actor.rs`) | the round in progress, messages in flight, blocks being added | header and block requests, answers, timeout sweep, import, `try_reorg` | peers, blockchain | late answers, blocks of one's own between two of an answer, suffixes against whole chains | a node that is behind catches up; no gap, no replaced block |
| Role registry, staking and slashing (`registry/*`, `core/account.rs`, `execution/executor.rs`) | validators, registrations, unbonding queue, missed epochs, slashing history | stake, unstake, bond, unbond, withdraw, five slashing paths, epoch close | executor, evidence, governance, voting loop | two copies of a stake; a slash between unbonding and withdrawal | nobody is paid more than he put in; a punishment stands |
| Mempool (`mempool/pool.rs`, `chain/blockchain.rs`) | the pool under three indexes, a byte count, stored rows | admission, replacement, eviction, expiry, production, import, reorganisation, restore | executor, store | four limits; stored rows that outlive their transaction; fee order against nonce order | indexes agree; only the outbid lose their place; the producer takes all it can |
| Relayer worker (`relayer/worker.rs`) | cursor file, pending-result file, requests settled in the block under the cursor | the loop over finalized blocks, adapters, submission, reaping, resubmission | chain actor, foreign chains | an action that cannot be undone, between two writes; results the chain loses | nothing is forgotten, nothing is sent twice before its result is final, results land |
| Storage deals (`domain/storage_deal.rs`, `chain/blockchain.rs`, `chain/chain_actor.rs`) | deals, challenges and their results, repair tickets, cooldowns, fees and bonds in escrow, the epoch each deal is paid through | open and accept a deal, challenge, answer, prune, the maintenance after every block | chain actor, accounts, blocks | deadlines against late answers; several challenges or maturing deals in one sweep; tickets matched by deal id | a bond is settled once and payments are covered; a lost slot stays ticketed; no term's end loses an object |
| Executor, fee market, governance | accounts, base fee, proposals | transactions, votes | everything | parameter changes between two steps | value and nonces are conserved |
| Domains, external intake, proof market, cold wallets, AI escrow | registries and escrows | registration, commitments, auctions, deadlines | settlement headers | deadlines against late answers | each deposit ends in one hand |
| Networking, storage coding, RPC, cryptography, zkVM | | | | | not protocol state, or a dependency; see `PROJECT.json` |

All state of `Blockchain` is owned by one chain actor that handles one message at a
time (`chain/chain_actor.rs`), so a handler is atomic against other handlers;
interleaving happens between handlers, between the transactions of a block, between
node and worker, and across a crash.

## 2. Modules

### Bridge

- `BridgeState` is the bridge's own state machine. Variables carry the field names;
  a message id is the quadruple of direction, sender and nonce that `next_nonce`
  makes unique. `sweep_expired_locks` is the whole sweep, with the release of due
  locks first and the dropping of settled rows second, as in the code.
- `AssetCustody` is the abstract promise: an asset has one home, is in one place, and
  moves only along lock, mint, burn, unlock, or back home. `BridgeCustody` maps the
  bridge to it: the live row that holds an asset says where it is.
- `BridgeSettlement` extends `BridgeState` with balances, messages, the relay queue
  and ledger, the fee and the block structure. An operator call is one step; a block
  opens, runs transactions and commits. `lock_bridge_transfer` includes the debit and
  the publication, and the case where the publication is refused after the debit.
  `submit_relay_proof` is four actions: mint and unlock, each accepted or refused by
  the bridge after the relay was already taken off the queue. The history variable
  `ledger` records what a transfer took and paid; nothing reads it but the properties.
- `MCNodeParts` (the tables alone, called in any order) and `MCBridgeSettlement` are the
  instances; `BridgeProofs` holds the proofs about all three, with the lemmas on sums of
  `SumTheorems`.

### Finality

- `CheckpointFinality` is one node: its chain, the finalized block, blobs in memory
  and on disk, waiting and stored certificates, and what its snapshots say. A block's
  hash is the sequence of labels up to it, so equal hashes mean equal histories.
  `ValidatorsAfter` gives the validators and keys a chain has bonded and
  `is_better_chain` the fork choice; both are parameters, so the theorems hold for
  every engine. Certificates and blobs are the ones validators of the node's set can
  have signed of the node's own blocks at the time they are offered; anything else is
  refused without a change. `slashed` holds validators slashed by a fault proof, the
  only slash outside a block.
- `VoteAggregation` is the round before: every honest validator's node with its chain,
  its aggregator, the marks of the voting loop in memory and on disk, and the votes and
  certificates of all of them. A signed vote may reach any node at any time, again or
  never. Publishing a vote and saving its mark are two steps, between which the node
  may crash; `forgetful` remembers who lost a mark that way. Faulty validators have
  signed everything from the start, and `Sent` says which of it may reach which node:
  the proofs hold for any choice. `StakeOf` is a measure on sets of validators.
- `MCCheckpointFinality` (run through `MCNodeParts`) and `MCVoteAggregation` are the
  instances; `FinalityProofs`, `VoteProofs` the proofs.

Choices in `CheckpointFinality` a reader should know: the heights belong to one
epoch, where the code reads the live validator set; the node has storage whose writes
succeed, and keeps every block (archive mode); it is not on mainnet, which refuses
unsigned snapshots at startup. `handle_finality_cert` also rescans the blob for
faults (`maybe_apply_detected_qc_faults`); having just verified, it has none.
Candidates of `try_reorg` are chains from genesis, which is how its unit tests call
it; the synchronisation code hands it suffixes, which it refuses (hazard list).

### Chain, network and workers

- `ChainStore` is the block store under one node. A handler changes memory and queues
  its atomic writes in the order of the code; a crash cuts the queue anywhere, a failed
  write ends or skips it as the code does. A block is its path from genesis. `committed`
  and `scars` are history: what was durably committed, and what happened to the store
  beyond whole commits (a reorganisation cut short, a lost index entry, pruning).
- `ChainSync` is the sync round between nodes: one action for each message sent, for
  each arm that handles one, for the failure event and for the timeout sweep. The blocks
  of an answer are added one by one, and the node may produce one of its own in between.
  `is_better_chain` is the one of the engines whose score is the length.
- `Staking` is the account state of one chain with the registry: a validator's stake
  twice, the bonds of the other roles once. One action per transaction and operator
  call, one per slashing path, and `CloseEpoch` for the block that ends an epoch
  (governance, epoch counter, unbonding, jail release, then liveness, in that order).
- `RelayerWorker` is the worker with the chain reduced to where its result transactions
  are. Every call to the chain actor or to an adapter is a step of its own, and `pc`
  says which comes next. `sent` counts broadcasts.
- `Mempool` is the pool with its indexes, and everything in the node that changes it.
  Nonces and base fee are functions of the chain. A refused transaction may change the
  pool (section 6). A loop of `remove_transaction` is one operator, `remove_all`, and the
  walks over `by_fee` of the two evictions say which transactions they end up with; the
  loops whose steps depend on one another (a new pool filled row by row, the producer's
  rounds) are functions of the step number.
- `StorageDeals` is the storage market for one coded object. The registry's methods and
  the accounting are operators from books to books; an action is one command of the
  chain actor, and a block runs all of `run_storage_maintenance` in the order of the
  code: rewards, automatic challenges, misses, expiries, the repair band, free slots,
  overdue tickets, the sweep of filled ones. Prices are the shard's; a proof is present
  or not, which is all the code looks at today.
- `StorageProofs` holds the proofs about `ChainStore` and `StorageDeals`, `LedgerProofs`
  those about `Staking` and `Mempool`, `SyncProofs` and `RelayerProofs` the others. The
  specifications of `Mempool` and `StorageDeals` are called `PoolSpec` and `DealSpec`, so
  that each shares a proof module and a run with another one. Each `MC...` module is an
  instance for TLC. `MCLedger` and `MCNodeParts` put parts that share no variable into one
  run (section 3).

Definitions whose comment calls them mutants are deliberately wrong variants. Each is
used to see that the property it is paired with in `PROJECT.json` can fail.

## 3. Runs

| Run | Instance | Shows |
| --- | --- | --- |
| `bridge_settlement` | 1 asset, a user and a relayer, minimum fees 1 and 3 on an amount of 3, 4 blocks | single payment, value accounting, relay against refund (395,566 states) |
| `bridge_overtaking` | 2 assets, one sender, 3 blocks, fair blocks | every lock resolves; an overtaken lock is refunded in full |
| `node_parts` | finality: 2 kinds of block, 3 validators of stake 2, 2, 1, checkpoints every 2 blocks, snapshots every 3, tip 4, reorganisation depth 2, one cached blob, two waiting certificates (79,905 states). Storage: 2 operators with one bond each, 2 shards of which one restores the object, a client who pays twice, 3 deals, terms of 1 and 2 epochs, automatic challenges in every epoch and one requested, 3 epochs, one pruning (203,100 states). Bridge tables: 2 assets, 2 domains, 1 account, 3 nonces per direction, 5 blocks, retention 1 (102,865 states) | the six finality properties; bonds settled once, gaps ticketed, expiry keeps the object; custody, queues, replay marks and retention, and the refinement of `AssetCustody` (385,868 states) |
| `votes` | 2 honest validators of stake 2, 4 faulty ones of stake 3 that vote for one hash before one node and for the other before the other, one checkpoint, any two of crash, failed save and reorganisation | one signature per height and round, sound reports, accountable certificates (396,856 states) |
| `vote_epochs` | 4 honest validators, an epoch of 5 intervals, fair delivery | violated: prevotes never lead to precommits (section 6) |
| `chain_store` | 2 branches, height 3, one reorganisation, two faults, snapshot and pruning at every block | what was committed survives, recovery takes nothing whole, bridge state of the restored tip, the node comes back (891,276 states; the inductive invariant of section 4 was also checked with height 2, three reorganisations and four faults, 3,479,264 states) |
| `chain_sync` | 2 producers up to heights 3 and 1, answers of at most two blocks, one lost message, timeout or round nobody needed | rounds are served, no gap, a node that is behind catches up unless it forked (88,077 states) |
| `fork_resolution` | 2 producers up to heights 5 and 2, the code's limits of 500 headers and 9 blocks, nothing lost, fair rounds | violated: a fork is never resolved (section 6) |
| `ledger` | stake: accounts with 4 and 2, one bond role beside validator and AI operator, minimum 2, one epoch close, unbonding and jail of one epoch (562,120 states). Pool: 2 senders, 5 transactions, a pool of 3 with 6 bytes, 2 per sender, 2 blocks, one reorganisation, one restart (35,199 states). | value is only lost where it says, the two stakes agree, punishment is final; indexes and limits agree, only the outbid lose their place, the producer takes all it can (597,318 states) |
| `liveness_penalty` | one account, an absence reported at once, jail of one epoch, two epoch closes | violated: a punishment for absence does not end (section 6) |
| `relayer_worker` | 2 requests of one block, one of them with a bridge message and two results, one crash, one loss | nothing forgotten, no blind resend, results land (392,005 states) |
| `pool_refusal` | the pool of `ledger` | violated: a refused transaction costs another its place (section 6) |

`ledger` and `node_parts` explore several parts in one run. The parts share no variable
and no property speaks of two of them, so a joint behaviour is an interleaving of theirs
and shows nothing that one part alone does not: a part moves only while the others are in
their initial states, and the states are those of the parts added up.

Bounds. `MaxNonce`, `MaxHeight`, `MaxTip`, `MaxEpoch`, `MaxFaults`, `MaxMishaps`,
`MaxRestarts`, `MaxReorgs`, `MaxDeals`, `MaxChallenges`, `MaxPrunes` and `MaxCopies` end
counters; the other constants are small
values of real parameters. They are enough for the interesting cases:

- Bridge: two nonces let one overtake another, a retention of 1 lets rows be settled,
  kept and dropped within the chain, a fee of 3 outgrows an amount of 3.
- Finality: with a tip of 4 there are two checkpoints, a snapshot height between them,
  forks above and below the first checkpoint, an eviction from the blob cache and one
  from the waiting queue, and a block that changes a validator's key.
- Votes: a node does not count its own vote, so four faulty validators are the least that
  can certify one hash at one node and the other at the other; with them conflicting
  certificates are reached, also with a forgetful validator among the signers. Two mishaps
  let a restart come before or after a reorganisation, the case `load_vote_history` is
  there for: a validator that kept its marks meets another hash at the same height, and
  one that lost them signs it. A faulty validator is two-faced between nodes and not
  before one node, so the reports that are reached are of forgetful validators; the proof
  has no such limit.
- Store: three heights give a reorganisation with blocks kept, replaced and added; two
  faults let a crash hit the recovery of another.
- Sync: an answer of two blocks is added one by one with a block of the node's own in
  between, and with a third block above it a node needs another round; an early fork of
  the two producers and one that happens between two blocks of an answer both occur. For
  `fork_resolution` an answer is longer than the chain it meets.
- Staking: one account can hold a stake and a bond or two bonds of one role, replace
  one, and bond below the minimum; the epoch close finds every combination of jailed,
  absent, unbonding and voted-out. An epoch has one close to be slashed before and after.
- Relayer: a pass can find one request settled, the other pending. Without liveness the
  run was also made with two results of each request and four nonces (4,408,117 states),
  with liveness with three nonces (710,182 states).
- Mempool: transactions of sizes 1 to 5 fill the pool by count, by bytes and both; one
  replaces another, a later nonce pays more than an earlier one. A third sender and a
  sixth transaction were tried once (188,637 states).
- Storage: a fee of half a unit per epoch is rounded up, so a term of two epochs has an
  epoch that pays nothing; a requested and an automatic challenge are open together; two
  deals mature in one sweep with the object at its floor; a shard nobody placed, a filled
  ticket due for the sweep and a short bond all occur. With two shards the repair band
  never has two to look at, which is what makes the symmetry of shards sound.

Deadlock is not checked where a bound ends all activity (the height of the chain, the
epochs, the faults); `node_parts` (but for the bridge tables at their last height) and
`relayer_worker` check it. Domains, assets,
operators, shards and the faulty validators are symmetric in the runs without liveness:
no definition tells them apart. In `votes` so are the two sides, a node and the hash it is
shown.

Fairness.

- `BridgeSettlement!FairSpec`: blocks keep being opened and committed, as the producer
  loop does without any condition the bridge could falsify. No relayer, operator or user
  has to do anything.
- `VoteAggregation!FairSpec`: every node's tick runs, its saves finish, and gossip
  delivers what was signed. It is used only for the violated property, which fails
  although everything arrives.
- `ChainStore!FairSpec`: the writes of a handler are carried out and a node that is down
  is started. Nothing says that it is not down again: the bound on faults does.
- `ChainSync!FairSpec`: blocks of an answer are added; `sync_if_behind`, which every
  status message of a peer calls, is strongly fair, since another round may be open at
  any moment; messages of a round arrive again and again if sent again and again.
- `RelayerWorker!FairSpec`: the loop and the adapters answer; the pool takes a result if
  it is offered again and again (the worker does so every five seconds); some block
  takes a result if blocks could again and again. The last is strong because one result
  may replace another of its nonce, which keeps disabling each single one.

`Staking`, `Mempool` and `StorageDeals` have no fairness: nothing in them has to happen
(an answer may never come, a ticket may find no taker).

## 4. Proofs

`BridgeProofs`: the inductive invariant is the types with `AssetInOnePlace`,
`QueuesCoverRows` and `ReplayMarkCovers` together (an asset is in one place only because
settled rows are not live, which the queues and marks must agree on) with two
strengthenings, that settled heights are positive and that a `Locked` row is locked at
its message's source. From it follow the three invariants and the action properties
`ReplayMarkRises` and `DropsOnlyOldHistory`.

The refinement, `BridgeSpec => ImplementsCustody`, is in the same module. Since the live
row of an asset is unique, the mapping's choice is that row; each action changes the
mapping at one asset, the sweep at the released ones.

So is `BridgeSettlement`: every step of the node is a bridge step or leaves the bridge
alone, so the bridge's invariant holds there. `PaidOutOnce` needs to know what the
ledger of a transfer is for each status of its row, and that a transfer without a row
and a nonce not yet issued has an empty ledger (`LedgerAgrees`).
`RecordedRelayLeftQueue` needs that every queued relay was published under a nonce
already issued. `RefundedLockNotRelayable` ties the expiry of a queued relay to the
expiry of its row: the sweep acts on a height the relay's deadline has then passed.
`ValueAccounted` is a sum over accounts, over locked rows and over ledgers at once; one
step per action shows which terms move by how much, and the sweep, which refunds any
number of rows, is grouped by owner (`SumByOwner`).

`SumTheorems`: what `SumFunctionOnSet` does when an element is added, changed, moved or
split off, for any finite set. The community module defines it by a fold; the facts are
proved from that definition by taking a smallest counterexample, since induction schemes
cannot be instantiated here. The same detour gives the lemmas on loops: `RunExists` says
that a step function has a table of its iterations, `TableStays` that what every step
keeps holds at the end, and `CountUp` is induction with the predicate given as a set of
naturals, which needs no operator parameter.

`FinalityProofs`: `FinalityInv` is `TypeOK`, `FinalizedOnChain`,
`EvidenceMatchesChain`, `CacheCoherent` and `PendingAwaitsBlob`. None is inductive
alone: what becomes final on a blob's arrival comes from the queue, what a fault proof
leaves final from the stored certificates, and what a restart restores from the
snapshots, so each must be about the present chain. A reorganisation at f keeps the
blocks below f and every row that stays is below f; that is the lemma `ReorgMoves`.
The action properties `FinalizedNeverReplaced` and `WithdrawnBlobNotFinal` follow
step by step.

`VoteProofs`: `IInv` adds to `SignsOnce` and `ReportsSound` that a precommit of an open
aggregator's validator is for the aggregator's hash, that the mark in memory covers
every prevote of a validator that is not forgetful, that what an aggregator counted and
saw was signed, and that a certificate carries a quorum of signed precommits.
`AccountableSafety` is then arithmetic on the measure `StakeOf`: two quorums of more
than two thirds overlap in more than a third, and a signer of both signed two hashes. It
holds for every set of validators and every stake.

`StorageProofs`, the store: `StoreInv` says, for every handler, what the writes it still has to make
can be and what the store holds before each of them. It comes in three strengths: the
copies of the bridge state agree with LAST whatever happened; as long as no
reorganisation was cut short and no chain lost (`Sound`), nothing is indexed at or above
an open marker and every height up to LAST has its copy; as long as nothing happened but
lost index entries (`Exact`), the blocks are those of one branch, and LAST is the last
committed one. `CommittedSurvives`, `RecoveryTakesNothing` and `BridgeOfRestoredTip`
follow. The queue of `try_reorg` (deletions, then a marker and a batch for each block,
then LAST) is described by `Deleting`, `Rewriting` and `Storing`, and `ForkProperties`
says that the two chains agree below the fork and that the fork is a height of the new
one. The attempt also corrected a property: that a restart always finds a copy of the
bridge state is false when a reorganisation was cut short. A block whose deletion failed
stays behind, recovery drops the copy of its height, a reorganisation onto it is cut,
`--repair-db` indexes it, and a later recovery makes it the tip. It takes four faults
and four reorganisations; a directed TLC run reaches it. `BridgeOfRestoredTip` is stated
accordingly.

`SyncProofs`: `SyncInv` says of every message in flight that what a node asked for, and
what it is sent, are consecutive blocks that begin no higher than the block after its
tip (true when the message was made, and still true because chains only grow), the same
of the blocks being added, and that exactly one message or batch serves an open round,
which is why late answers find none. `NoGap` and `RoundIsServed` follow from it, and
`ChainsOnlyGrow` step by step. That no node ever leaves its branch is also why
`ForksResolve` fails.

`LedgerProofs`, staking: `StakingInv` is the types and `MirrorInStep` with two strengthenings: a
counter of missed epochs never exceeds the epochs closed, and a slashed registration of
a validator has a cause, its stake's slash or a report on record. The two action
properties follow action by action. `PunishmentIsFinal` leaves out validators reported
absent, whose punishment is meant to end. `ValueOnlyLost` rests on sums over the unbonding
queue and the bond roles. `TypeOK` holds every queued amount to
an epoch still to come, which needs an unbonding period of at least one epoch: with a
period of zero an amount would be queued for the epoch already reached and wait for the
next one to be paid.
`RegistryParams::validate` (`registry/params.rs`) refuses zero.

`LedgerProofs`, the pool: `PoolInv` says that the whole pool record is a function of a
set of transactions (`PoolOf`: indexes and byte count computed from it) and that this set
fits the limits (`Fits`: no two of a sender and nonce, count, bytes, quota). The proof is
then about sets: removing transactions from `PoolOf(S)` gives `PoolOf` of the rest
(`RemovedPool`), inserting gives `PoolOf` of the union if the slot is free
(`InsertedPool`), and `AddedPool` says what one call of `add_transaction` can lead to,
through both evictions and the replacement. `EvictedRun` shows that the bytes freed by
the cheapest candidates suffice, with the sums above. `PoolConsistent` follows for every
step, the restore and the rebuilding of a reorganisation included, which are runs of
`add_transaction` from the empty pool (`FilledFits`). `OutbidOnly` is read off
`AddedPool`. For `ProducerTakesAll`, a round that adds nothing leaves nothing valid
(`RoundTakes`), and since every other round adds one of at most `MaxPerBlock`
transactions, the last is such a round (`CollectedAll`).

`StorageProofs`, the storage market: `StorageInv` is about the books alone, so that it
can be carried through the loops inside one block as well as from step to step. Besides
the types it says that a deal is paid through an epoch of its term (`PaidInTerm`), that
challenges name deals and results name challenges that exist (`Linked`), that ticket
numbers are below the next one (`TicketsNumbered`), that a deal
has exactly one lost challenge if it is slashed and none otherwise (`Judged`), and that
balances with what active deals are still due are at most the supply. Each loop of
`run_storage_maintenance` has a lemma for its body and one for the loop (`PayStep` and
`PayLoop`, and so on), which keep the invariant and a relation between the books before
and after (`Follows`: deals and tickets stay, a deal that ended has a ticket). The
rewards are covered because `total_fee` of a sum of epochs is what the ticks pay however
they are rounded (`Owed` is a difference of totals). `ExpiryKeepsObject` rests on
`ExpiryKeepsK`: a deal ends by its term only when its shard has another holder or more shards
than the floor are live. The invariant had to be stated for the books in the middle of a block,
where misses are finalized and expiries are not yet.

`RelayerProofs`: `RelayerInv` says for every `pc` how the two files stand to the memory
(they agree but for entries a reap has released and not yet written), that a request in
hand is in the pending file before its action is sent and was not sent before unless its
result is final (`Acting`), and that every request of the block above the cursor is
still to be attempted or accounted for (`InBlock`), so that the cursor may move.
`NothingForgotten` and `NoBlindResend` follow.

Assumptions are the named `ASSUME`s only: naturals where the code has unsigned
integers, recipients and relayers that are accounts, a fee below the whole amount (the
code's fee is in parts of a million), finitely many domains, accounts, bond roles, operators and shards, an
unbonding period of at least one epoch, validators with an order on their addresses,
stake that adds up; in the pool a finite set of possible transactions with distinct
hashes and a size of at least one byte; in the storage market a threshold between one
and the number of shards, terms and windows that end after they begin, and positive
intervals. TLC evaluates them on its instances.

Only model-checked: the liveness properties `LockResolves`, `OvertakenLockRefunded`,
`ComesBack`, `CatchesUpOrForks` and `ResultsLand`, since fairness is outside the prover's
reach. The violated properties are not theorems. Every invariant, action property and
refinement that a passing run checks is also a theorem. The type invariants of
`BridgeState`, `CheckpointFinality`, `VoteAggregation` and `RelayerWorker`, and
`ReplayMarkRises`, `RecordedRelayLeftQueue` and `ChainsOnlyGrow`, are theorems and not
part of a run.

## 5. Not modelled

Cryptography is assumed sound: a signature verifies under the key that made it, hashes
do not collide. Failing disk writes that the code only logs, V1 snapshots, blob
expiry by epoch, mainnet startup checks, and the replay of blocks into account state
are left out of the finality module; domain registration checks, event proofs and
transaction fees out of the bridge, where they only refuse a call. Of the newer modules: `ChainStore` leaves out the rows of registries and messages saved
beside the blocks; `ChainSync` snapshot synchronisation, peer scores and `NewTip`, which
no code sends; `Staking` fees, the verification of evidence, parameter changes and the
length limit of the slashing history; `RelayerWorker` failed writes to its files, an
unreadable cursor and the budget of failed lookups; `Mempool` balances, transfers whose
required fee grows with the amount, and contract budgets; `StorageDeals` operator classes
and self-hosting policies, demand-adjusted targets, placement advice, coding audits, view
grants, `renew_deal` (called by tests only), the actor's commands to issue and finalize
challenges (which no caller sends), and restarts and reorganisations. The parts listed as not
modelled in `PROJECT.json` have no module: storage coding, rendering, cryptography, RPC
and the virtual machine are data transformations or input and output, without protocol
state that TLC could explore; the others are planned (section 7).

## 6. Where the code and the repository's own words differ

Checked by runs that expect the violation:

1. `vote_epochs`. `docs/SPECIFICATION.md`: "When prevote quorum (2/3 stake) is detected,
   validators automatically sign and broadcast precommits". The loop's prevotes carry the
   epoch counted in checkpoint intervals, the aggregator expects it counted in epochs and
   refuses them. With `EpochLen = 1` the property holds.
2. `fork_resolution`. `consensus/pos.rs`: "honest nodes converge on the same tip
   regardless of the order in which the two tips arrived", and `network/node.rs` opens a
   round "to resolve fork". The answer is handed to `try_reorg` as the slice it is, which
   `try_reorg` compares from genesis and refuses as a fork at genesis. The node on the
   shorter branch asks again and again and stays on it.
3. `liveness_penalty`. `registry/params.rs` says of a liveness offence that "Making that
   permanent punishes an outage the way it punishes abandonment, so the penalty carries a
   term", `tests/liveness_consensus.rs` that the permanent ban was repaired, and
   `docs/ARCHITECTURE.md` draws "Jailed --> Active". The penalty sets `slashed` along with
   the term, `advance_epoch` makes only validators active that are not slashed, and
   nothing clears the flag: the term ends and the validator stays out.
4. `pool_refusal`. `mempool/pool.rs`: "a refusal leaves the pool untouched", "A refused
   admission leaves the pool exactly as it was". A newcomer refused for its bytes has
   already evicted a transaction for its slot.

Met while modelling, and part of the models' behaviour; the properties are stated so
that they hold beside these:

5. Bridge. The operator's unlock credits nobody, and a relayed unlock whose amount the
   minimum fee has outgrown unlocks first and fails to pay after, where
   `docs/ARCHITECTURE.md` draws "bridge_state.unlock -> refund owner". A burn debits
   nobody and a relayed unlock credits without looking at the headroom, so one transfer
   that goes out and back is paid twice, beyond the supply cap.
6. Finality. A restart takes the finalized height from the newest snapshot, or from 0,
   so it can move back ("Finalized height never moves backwards", `relayer/worker.rs`);
   a snapshot taken before a fault proof still says the withdrawn height is final. A
   signature that was verified becomes a fault when its signer changes keys within the
   epoch. A fault proof slashes the live state outside any block.
7. Voting. A vote is published before its mark is saved (`network/node.rs`, the
   finality arm); a crash in between with a reorganisation makes a validator sign twice
   (`forgetful`).
8. Store. `try_reorg` deletes the abandoned blocks before the first new one is
   committed: a crash in between leaves LAST pointing at nothing and a restart begins an
   empty chain ("cut reorg", "lost chain"). The bridge state it reloads is the abandoned
   branch's. Pruning deletes from height 1, `load_chain` stops at the gap, and startup
   refuses the chain ("pruned"). The integrity audit looks only up to the canonical
   height, a key that finality and the repair set lower than the tip.
9. Staking. A report of the voting loop and a liveness report cut the registry's copy of
   a stake only; the validator keeps its stake and can take it out. `slashed` is never
   reset, so the end of a jail term reactivates nobody, whatever it was for. Stake in the unbonding queue
   escapes a slash (`docs/ARCHITECTURE.md` says it does not). A slash of a validator
   without a registration skips its other roles, and a later stake opens a fresh
   registration. A second bond of a role replaces the first, and a bond below the
   minimum is taken and not kept. Admission asks an `Unstake` for its amount in the
   liquid balance.
10. Relayer. "The external action runs at most once per request": `resubmit_lost` does
   not add to `settled`, which is also lost at a restart, so a block still held under
   the cursor is relayed again once a result of it is final and reaped. A result that a
   block takes between the question for its receipt and the one for the mempool is
   signed again, and the copy of a bridged request, which no block can execute, holds
   the nonce until it expires (`Wedged`). Results for Ethereum are always refused by
   the executor.
11. Mempool. Stored rows are removed only when a block
   takes the transaction, so replaced, evicted and expired ones come back at a restart
   with a new time to live, and can fill a sender's quota. A reorganisation rebuilds the
   pool under the default limits instead of the network's, resets all ages, and does not
   bring back the transactions of the abandoned blocks. A base fee below 8 never moves.
   The producer looks only at the best paid `MAX_TRANSACTIONS_PER_BLOCK`, which stale
   nonces may fill until they expire.
12. Storage. "Every resolved challenge refunds" the opener's bond (`chain/blockchain.rs`),
   but `refund_opener_bond` is called only when the opening is refused. The acceptance
   of a ticket is "refunded on refusal, exactly like the original open"; when the bond is
   short the fee stays taken (`AcceptShortOfBond`). A slash burns the bond from the
   operator's liquid balance although the bond was debited when the deal opened. A wrong
   answer opens no ticket. A ticket for a shard that was never placed carries deal id 0,
   so deal 0 gets no ticket while it stands ("not a lookup key for this cause"). A deal
   held past its term gets a ticket while it is live, which the comment F-16 of
   `chain/chain_actor.rs` rules out, so one slot can be paid twice. Challenges against
   ended deals are never resolved and count towards the operator's limit. Automatic
   challenges carry a bond of 1 and are refused for ranges over 1 KiB. A pruned deal's
   bond is not returned, and its slot is ticketed again.

## 7. Plan

Done: bridge, finality, votes, store, synchronisation, staking, relayer worker, mempool,
storage deals; and the proofs of all their safety properties.
Next, in order of importance:

1. Votes and certificates composed with `CheckpointFinality`; the store under it.
2. Governance proposals, domain registry with freezes, proof market and cold wallets, AI escrow.
3. Snapshot synchronisation, peer bans and the gossip de-duplication cache.
