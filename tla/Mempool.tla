------------------------------ MODULE Mempool ------------------------------
(***************************************************************************)
(* The transaction pool (src/src/mempool/pool.rs) and the ways in which    *)
(* the node changes it (src/src/chain/blockchain.rs): admission, blocks    *)
(* produced and imported, reorganisations, expiry, and the rows from which *)
(* a restart fills the pool again.                                         *)
(*                                                                         *)
(* The pool keeps its transactions under three indexes and a byte count,   *)
(* each updated by its own statement, and has four limits, each with its   *)
(* own way of making room.  The chain is kept as its blocks; nonces and    *)
(* the base fee are functions of it.                                       *)
(*                                                                         *)
(* Left out: balances (every sender can pay), transfers whose required fee *)
(* grows with their amount, contract-call budgets, signatures, and rows    *)
(* that cannot be written or decoded.                                      *)
(***************************************************************************)
EXTENDS Integers, FiniteSets, FiniteSetsExt, Sequences, Functions

CONSTANTS
    Txs,          \* the transactions: [hash, from, nonce, fee, size]
    Network,      \* the network's mempool configuration
    Default,      \* MempoolConfig::default()
    MaxPerBlock,  \* MAX_TRANSACTIONS_PER_BLOCK
    Target,       \* the transactions of a block that leave the base fee alone
    MaxBaseFee,
    ReorgKeep,    \* the transactions of the pool that a reorganisation looks at
    GenesisFee,   \* the base fee the chain starts from
    MaxHeight,    \* bound: blocks after genesis
    MaxReorgs,    \* bound
    MaxRestarts   \* bound

Limits == [max_size : Nat, max_per_sender : Nat, min_fee : Nat,
           rbf_bump_percent : Nat, max_pool_bytes : Nat]

ASSUME MempoolAssumption ==
    /\ IsFiniteSet(Txs)
    /\ \A tx \in Txs : {tx.hash, tx.nonce, tx.fee} \subseteq Nat /\ tx.size \in Nat \ {0}
    /\ \A t, u \in Txs : t.hash = u.hash => t = u
    /\ {Network, Default} \subseteq Limits
    /\ {MaxPerBlock, Target, MaxBaseFee, ReorgKeep, GenesisFee, MaxHeight,
        MaxReorgs, MaxRestarts} \subseteq Nat

VARIABLES
    chain,     \* the blocks after genesis, each a set of transactions
    pool,
    config,    \* the configuration in force
    aged,      \* pooled transactions older than the time to live
    rows,      \* the MEMPOOL: rows of the store
    reorgs,
    restarts

poolVars == <<chain, pool, config, aged, rows, reorgs, restarts>>

-----------------------------------------------------------------------------
(* The chain *)

Included(c) == UNION Range(c)

account_nonce(c, s) == Cardinality({tx \in Included(c) : tx.from = s})

adjust_base_fee(fee, block) ==
    CASE Cardinality(block) > Target -> Min({fee + fee \div 8, MaxBaseFee})
      [] Cardinality(block) < Target -> Max({fee - fee \div 8, 1})
      [] OTHER -> fee

base_fee(c) ==
    LET fee[k \in 0..Len(c)] ==
           IF k = 0 THEN GenesisFee ELSE adjust_base_fee(fee[k - 1], c[k])
    IN  fee[Len(c)]

\* validate_transaction in the state after the chain c and the transactions
\* of the next block that have been applied so far.
Valid(tx, c, applied) ==
    /\ tx.fee >= base_fee(c)
    /\ tx.nonce = account_nonce(c, tx.from)
                    + Cardinality({t \in applied : t.from = tx.from})

\* A block that some producer may add to c.
Blocks(c) ==
    {b \in SUBSET Txs :
        /\ Cardinality(b) <= MaxPerBlock
        /\ \A tx \in b : Valid(tx, c, {t \in b : t.nonce < tx.nonce})}

-----------------------------------------------------------------------------
(* The pool *)

EmptyPool == [transactions |-> {}, by_sender |-> {}, by_fee |-> {}, resident_bytes |-> 0]

Monus(a, b) == IF a > b THEN a - b ELSE 0

bytes(txs) == SumFunction([t \in txs |-> t.size])

\* remove_transaction for each of txs, all of them in the pool.
remove_all(p, txs) ==
    [transactions   |-> p.transactions \ txs,
     by_sender      |-> {e \in p.by_sender :
                           \A t \in txs : e.from # t.from \/ e.nonce # t.nonce},
     by_fee         |-> p.by_fee \ {[fee |-> t.fee, hash |-> t.hash] : t \in txs},
     resident_bytes |-> Monus(p.resident_bytes, bytes(txs))]

insert(p, tx) ==
    [transactions   |-> p.transactions \union {tx},
     by_sender      |-> {e \in p.by_sender : e.from # tx.from \/ e.nonce # tx.nonce}
                          \union {[from |-> tx.from, nonce |-> tx.nonce, hash |-> tx.hash]},
     by_fee         |-> p.by_fee \union {[fee |-> tx.fee, hash |-> tx.hash]},
     resident_bytes |-> p.resident_bytes + tx.size]

\* find_tx_by_sender_nonce: a set of at most one.
find_tx_by_sender_nonce(p, tx) ==
    {t \in p.transactions :
        [from |-> tx.from, nonce |-> tx.nonce, hash |-> t.hash] \in p.by_sender}

\* The order of by_fee, lowest fee first, then the smallest hash.
Cheaper(t, u) == t.fee < u.fee \/ (t.fee = u.fee /\ t.hash < u.hash)

\* Mutant: whoever is cheapest goes, whatever the newcomer pays.
Candidates_any_fee(p, tx) == {t \in p.transactions : t.from # tx.from}

\* The transactions that tx may push out.
Candidates(p, tx) == {t \in p.transactions : t.from # tx.from /\ t.fee < tx.fee}

\* evict_lowest_fee: the victims, none if there is no candidate.
evict_lowest_fee(p, tx) ==
    {t \in Candidates(p, tx) : \A u \in Candidates(p, tx) \ {t} : Cheaper(t, u)}

\* evict_until_bytes_fit: the candidates whose predecessors in by_fee do not
\* free enough, none if all of them together do not.
evict_until_bytes_fit(p, tx, needed) ==
    LET candidates == Candidates(p, tx)
    IN  {t \in candidates :
            /\ bytes({u \in candidates : Cheaper(u, t)}) < needed
            /\ needed <= bytes(candidates)}

min_new_fee(tx, cfg) ==
    tx.fee + Max({1, (tx.fee * cfg.rbf_bump_percent + 99) \div 100})

sender_count(p, s) == Cardinality({e \in p.by_sender : e.from = s})

\* The checks that come before any eviction.
Admissible(p, cfg, tx) ==
    LET existing == find_tx_by_sender_nonce(p, tx) IN
    /\ tx \notin p.transactions
    /\ tx.fee >= cfg.min_fee
    /\ \A old \in existing : tx.fee >= min_new_fee(old, cfg)
    /\ existing = {} => sender_count(p, tx.from) < cfg.max_per_sender

FullByCount(p, cfg, tx) ==
    /\ find_tx_by_sender_nonce(p, tx) = {}
    /\ Cardinality(p.transactions) >= cfg.max_size

\* The bytes that must be freed before tx fits.
Excess(p, cfg, tx) ==
    LET freed == bytes(find_tx_by_sender_nonce(p, tx))
    IN  Monus(Monus(p.resident_bytes, freed) + tx.size, cfg.max_pool_bytes)

\* Mutant: the replaced transaction is removed after the newcomer is in.
Replaced_late(p, tx) == remove_all(insert(p, tx), find_tx_by_sender_nonce(p, tx))

Replaced(p, tx) == insert(remove_all(p, find_tx_by_sender_nonce(p, tx)), tx)

\* add_transaction: the pool afterwards.  A transaction refused for its bytes
\* leaves behind the eviction that its count had required.
add_transaction(p, cfg, tx) ==
    LET evicted == IF FullByCount(p, cfg, tx) THEN evict_lowest_fee(p, tx) ELSE {}
        room    == remove_all(p, evicted)
        needed  == Excess(room, cfg, tx)
        victims == IF needed = 0 THEN {} ELSE evict_until_bytes_fit(room, tx, needed)
    IN  IF ~Admissible(p, cfg, tx) \/ (FullByCount(p, cfg, tx) /\ evicted = {}) THEN p
        ELSE IF needed > 0 /\ victims = {} THEN room
        ELSE Replaced(remove_all(room, victims), tx)

\* The transactions of a set in the order that a relation puts them in.
Sorted(txs, before) ==
    [i \in 1..Cardinality(txs) |->
        CHOOSE t \in txs : Cardinality({u \in txs : <<u, t>> \in before}) = i - 1]

\* Highest fee first, then the smallest hash; and by hash alone.
Dearer == {e \in Txs \X Txs :
              e[1].fee > e[2].fee \/ (e[1].fee = e[2].fee /\ e[1].hash < e[2].hash)}
HashOrder == {e \in Txs \X Txs : e[1].hash < e[2].hash}

get_sorted_transactions(p, limit) ==
    LET sorted == Sorted(p.transactions, Dearer)
    IN  SubSeq(sorted, 1, Min({limit, Len(sorted)}))

\* A new pool, filled in the order of the sequence.
Filled(cfg, txs) ==
    LET filled[k \in 0..Len(txs)] ==
           IF k = 0 THEN EmptyPool ELSE add_transaction(filled[k - 1], cfg, txs[k])
    IN  filled[Len(txs)]

-----------------------------------------------------------------------------
(* The node *)

\* projected_sender_state: the first nonce that the sender's pooled
\* transactions leave open; the nonce of tx itself counts as open.
projected_nonce(tx) ==
    LET open(k) == k = tx.nonce
                     \/ ~\E e \in pool.by_sender : e.from = tx.from /\ e.nonce = k
        from == account_nonce(chain, tx.from)
    IN  Min({k \in from..(from + Cardinality(pool.by_sender)) : open(k)})

\* Blockchain::add_transaction.  A refusal may still change the pool.
submit(tx) ==
    /\ tx.nonce = projected_nonce(tx)
    /\ tx.fee >= base_fee(chain)
    /\ pool' = add_transaction(pool, config, tx)
    /\ aged' = aged \cap pool'.transactions
    /\ rows' = IF tx \in pool'.transactions THEN rows \union {tx} ELSE rows
    /\ UNCHANGED <<chain, config, reorgs, restarts>>

\* One round of collect_block_transactions over the pending transactions.
Round(taken, pending) ==
    LET passed[k \in 0..Len(pending)] ==
           IF k = 0 THEN taken
           ELSE passed[k - 1] \union
                   {tx \in {pending[k]} \ passed[k - 1] : Valid(tx, chain, passed[k - 1])}
    IN  passed[Len(pending)]

\* Mutant: one round over the pool, highest fee first.
collect_block_transactions_once(p) ==
    Round({}, get_sorted_transactions(p, MaxPerBlock))

\* Rounds until one of them adds nothing; every other one adds a transaction.
collect_block_transactions(p) ==
    LET pending == get_sorted_transactions(p, MaxPerBlock)
        rounds[k \in 0..MaxPerBlock] ==
           IF k = 0 THEN {} ELSE Round(rounds[k - 1], pending)
    IN  rounds[MaxPerBlock]

\* The end of produce_block and of validate_and_add_block.
Commit(block) ==
    /\ chain' = Append(chain, block)
    /\ pool' = remove_all(pool, block \cap pool.transactions)
    /\ aged' = aged \ block
    /\ rows' = rows \ block
    /\ config' = [config EXCEPT !.min_fee = base_fee(chain')]
    /\ UNCHANGED <<reorgs, restarts>>

produce_block ==
    /\ Len(chain) < MaxHeight
    /\ Commit(collect_block_transactions(pool))

validate_and_add_block(block) == Commit(block)

\* try_reorg: the pool is built again under the default configuration from its
\* best transactions; those of the abandoned blocks do not come back.
try_reorg(fork, branch) ==
    /\ chain' = SubSeq(chain, 1, fork) \o branch
    /\ LET best == Range(get_sorted_transactions(pool, ReorgKeep))
       IN  pool' = Filled(Default, Sorted(best \ Included(chain'), Dearer))
    /\ config' = [Default EXCEPT !.min_fee = base_fee(chain')]
    /\ aged' = {}
    /\ reorgs' = reorgs + 1
    /\ UNCHANGED <<rows, restarts>>

\* Longer than ours, different from it right after the fork.
Reorg ==
    \E fork \in 0..(Len(chain) - 1) :
       /\ reorgs < MaxReorgs
       /\ Len(chain) < fork + 2 /\ fork + 2 <= MaxHeight
       /\ \E b \in Blocks(SubSeq(chain, 1, fork)) \ {chain[fork + 1]} :
             \E c \in Blocks(Append(SubSeq(chain, 1, fork), b)) : try_reorg(fork, <<b, c>>)

\* The time to live of everything in the pool runs out.
time_passes ==
    /\ aged # pool.transactions
    /\ aged' = pool.transactions
    /\ UNCHANGED <<chain, pool, config, rows, reorgs, restarts>>

cleanup_expired ==
    /\ aged # {}
    /\ pool' = remove_all(pool, aged)
    /\ aged' = {}
    /\ UNCHANGED <<chain, config, rows, reorgs, restarts>>

\* new_with_genesis: every row is put into a new pool, in the order of the
\* hashes, without a look at the chain.
Restart(c) ==
    /\ restarts < MaxRestarts
    /\ restarts' = restarts + 1
    /\ chain' = c
    /\ pool' = Filled(Network, Sorted(rows, HashOrder))
    /\ config' = Network
    /\ aged' = {}
    /\ UNCHANGED <<rows, reorgs>>

restart == Restart(chain)

\* The node stops between the durable commit of a block and the removal of
\* its rows.
crash_in_commit(block) == Restart(Append(chain, block))

PoolInit ==
    /\ chain = <<>>
    /\ pool = EmptyPool
    /\ config = Network
    /\ aged = {}
    /\ rows = {}
    /\ reorgs = 0 /\ restarts = 0

PoolNext ==
    \/ \E tx \in Txs : submit(tx)
    \/ produce_block
    \/ /\ Len(chain) < MaxHeight
       /\ \E block \in Blocks(chain) : validate_and_add_block(block) \/ crash_in_commit(block)
    \/ Reorg
    \/ time_passes
    \/ cleanup_expired
    \/ restart

PoolSpec == PoolInit /\ [][PoolNext]_poolVars

-----------------------------------------------------------------------------
(* Properties *)

\* The three indexes hold the same transactions, one for each sender and
\* nonce, the byte count is exact, and the limits of the configuration in
\* force hold, whatever was replaced, evicted, expired or restored.
PoolConsistent ==
    LET held == pool.transactions IN
    /\ held \subseteq Txs /\ rows \subseteq Txs /\ aged \subseteq held
    /\ pool.by_sender = {[from |-> t.from, nonce |-> t.nonce, hash |-> t.hash] : t \in held}
    /\ \A e, f \in pool.by_sender : e.from = f.from /\ e.nonce = f.nonce => e = f
    /\ pool.by_fee = {[fee |-> t.fee, hash |-> t.hash] : t \in held}
    /\ pool.resident_bytes = bytes(held)
    /\ pool.resident_bytes <= config.max_pool_bytes
    /\ Cardinality(held) <= config.max_size
    /\ \A t \in held : sender_count(pool, t.from) <= config.max_per_sender
    /\ config \in Limits

\* A transaction loses its place to a newcomer only when it is replaced at a
\* higher fee by its own sender, or is outbid by another one, and nothing
\* cheaper that could have gone stays.
OutbidOnly ==
    [][\A tx \in Txs :
         LET held == pool.transactions
             gone == held \ pool'.transactions
             stay == held \cap pool'.transactions
             same(t) == t.from = tx.from /\ t.nonce = tx.nonce
         IN  gone # {} /\ submit(tx) =>
             /\ \A t \in gone : t.fee < tx.fee /\ (t.from = tx.from => same(t))
             /\ \A t \in gone : ~same(t) =>
                   \A u \in stay : u.from # tx.from => Cheaper(t, u)
      ]_poolVars

\* "A refused admission leaves the pool exactly as it was" (pool.rs).  The
\* eviction that the count limit asks for is done before the bytes are looked
\* at, and a refusal for the bytes does not undo it.
RefusalChangesNothing ==
    [][\A tx \in Txs :
         submit(tx) /\ tx \notin pool'.transactions => pool' = pool]_poolVars

\* The producer leaves nothing behind that it could have taken: when its
\* rounds end, none of the transactions it looked at is valid after the block,
\* in whatever order fees put a sender's nonces.
ProducerTakesAll ==
    [][Len(chain') > Len(chain) /\ produce_block =>
         \A tx \in Range(get_sorted_transactions(pool, MaxPerBlock)) \cap pool'.transactions :
            ~Valid(tx, chain, chain'[Len(chain')])
      ]_poolVars
=============================================================================
