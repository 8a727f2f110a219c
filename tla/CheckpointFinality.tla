------------------------- MODULE CheckpointFinality -------------------------
(***************************************************************************)
(* What one node believes to be final, and what that belief rests on: the  *)
(* finality half of src/src/chain/blockchain.rs with the certificate and   *)
(* QC-blob checks of src/src/chain/finality.rs and src/src/consensus/qc.rs.*)
(*                                                                         *)
(* Certificates and blobs arrive from the network in any order, may be     *)
(* repeated or never come, and meet block import, reorganisations, fault   *)
(* proofs and restarts.  Every handler runs to its end inside the chain    *)
(* actor (src/src/chain/chain_actor.rs), so each is one action.  All       *)
(* heights belong to one epoch, whose validator set is read from the live  *)
(* state.  The node has block storage and a PruningManager in archive mode,*)
(* and is not on mainnet (which refuses unsigned startup snapshots).       *)
(*                                                                         *)
(* A block is named by its label and its ancestors: the hash of the block  *)
(* at height h is the sequence of the labels of blocks 1..h, so two blocks *)
(* have one hash exactly when they have one history, and the genesis hash  *)
(* is the empty sequence.                                                  *)
(***************************************************************************)
EXTENDS Integers, Sequences, FiniteSets

CONSTANTS
    Labels,              \* block contents a height can have
    is_better_chain(_, _), \* ConsensusEngine::is_better_chain(current, candidate)
    ValidatorsAfter(_),  \* the bonded, keyed validators after a chain: validator -> PQ key
    Keys,                \* PQ public keys
    Stake,               \* the stake of each validator
    Interval,            \* finality_checkpoint_interval
    SnapshotInterval,    \* PruningManager::snapshot_interval
    MAX_REORG_DEPTH,     \* consensus/mod.rs
    max_qc_blobs,        \* blobs kept in memory
    max_pending_certs,   \* certificates kept waiting for their blob
    MaxTip               \* bound on the chain's height

VARIABLES
    chain,                  \* labels of blocks 1..tip
    slashed,                \* validators slashed by a fault proof, outside any block
    finalized_height,
    finalized_hash,
    verified_qc_blobs,      \* in memory: height -> blob
    pending_finality_certs, \* in memory: height -> certificates waiting for a blob
    qc_store,               \* on disk: height -> blob
    cert_store,             \* on disk: height -> certificate
    snapshots               \* on disk: height -> what StateSnapshotV2 says of finality

vars == <<chain, slashed, finalized_height, finalized_hash, verified_qc_blobs,
          pending_finality_certs, qc_store, cert_store, snapshots>>

Heights == 0 .. MaxTip
Chains == UNION {[1 .. n -> Labels] : n \in Heights}
Validators == DOMAIN Stake
ValidatorSets == UNION {[S -> Keys] : S \in SUBSET Validators}

ASSUME ParametersAssumption ==
    /\ MaxTip \in Nat
    /\ Interval \in Nat \ {0}
    /\ SnapshotInterval \in Nat \ {0}
    /\ MAX_REORG_DEPTH \in Nat
    /\ max_qc_blobs \in Nat \ {0}
    /\ max_pending_certs \in Nat \ {0}

(* Validators are addresses, which the set is sorted by. *)
ASSUME ValidatorsAssumption ==
    /\ Validators \subseteq Nat
    /\ \A c \in Chains : ValidatorsAfter(c) \in ValidatorSets

-----------------------------------------------------------------------------
(* Blocks and partial functions *)

BlockHash(c, h) == [i \in 1 .. h |-> c[i]]
Genesis == <<>>

Drop(f, S) == [k \in DOMAIN f \ S |-> f[k]]
Store(f, k, x) == [j \in DOMAIN f \cup {k} |-> IF j = k THEN x ELSE f[j]]
Lowest(S) == CHOOSE k \in S : \A j \in S : k <= j
Highest(S) == CHOOSE k \in S : \A j \in S : j <= k

is_checkpoint_height(h) == h > 0 /\ h % Interval = 0

-----------------------------------------------------------------------------
(* The validator set of the current epoch, sorted by address *)

SetAfter(c, s) == [v \in DOMAIN ValidatorsAfter(c) \ s |-> ValidatorsAfter(c)[v]]
validator_set == SetAfter(chain, slashed)

validator_index(set, v) == Cardinality({w \in DOMAIN set : w < v})

SumStake[S \in SUBSET Validators] ==
    IF S = {} THEN 0
    ELSE LET v == CHOOSE v \in S : TRUE IN Stake[v] + SumStake[S \ {v}]

quorum_stake(set) == (SumStake[DOMAIN set] * 2) \div 3 + 1
quorum_count(set) == (Cardinality(DOMAIN set) * 2 + 2) \div 3

(* FinalityCert::verify: the set is the one the node has, and the bitmap   *)
(* carries the stake quorum and the count quorum.                          *)
cert_verifies(cert, set) ==
    /\ cert.set = set
    /\ cert.signers \subseteq DOMAIN set
    /\ SumStake[cert.signers] >= quorum_stake(set)
    /\ Cardinality(cert.signers) >= quorum_count(set)

(* The PQ signature of v: it binds v's index in the set and v's key. *)
Attestation(set, v) == [index |-> validator_index(set, v), key |-> set[v]]

(* QcBlob::verify_against_snapshot: every entry names the validator that   *)
(* sits at its index and verifies under that validator's key.              *)
blob_verifies(blob, set) ==
    \A v \in DOMAIN blob.entries :
        v \in DOMAIN set /\ Attestation(set, v) = blob.entries[v]

covers(blob, signers) == signers \subseteq DOMAIN blob.entries

-----------------------------------------------------------------------------
(* The pending queue: queue_pending_finality_cert *)

Bucket(h) ==
    IF h \in DOMAIN pending_finality_certs THEN pending_finality_certs[h] ELSE <<>>

PendingCount(q) ==
    Cardinality(UNION {{<<h, i>> : i \in DOMAIN q[h]} : h \in DOMAIN q})

(* The eviction loop: it runs at most once, since one certificate was added. *)
EvictOldest(q) ==
    LET h == Lowest(DOMAIN q)
    IN  IF PendingCount(q) <= max_pending_certs THEN q
        ELSE IF Len(q[h]) = 1 THEN Drop(q, {h})
        ELSE Store(q, h, Tail(q[h]))

Queued(cert) ==
    LET bucket == Bucket(cert.height)
        known == \E i \in DOMAIN bucket : bucket[i] = cert
    IN  IF known THEN pending_finality_certs
        ELSE EvictOldest(Store(pending_finality_certs, cert.height, Append(bucket, cert)))

-----------------------------------------------------------------------------
(* Block import and production.  Only imported blocks are snapshotted. *)

SnapshotNow ==
    [finalized_height |-> finalized_height, finalized_hash |-> finalized_hash,
     slashed |-> slashed]

ExtendChain(l) ==
    /\ Len(chain) < MaxTip
    /\ chain' = Append(chain, l)
    /\ UNCHANGED <<slashed, finalized_height, finalized_hash, verified_qc_blobs,
                   pending_finality_certs, qc_store, cert_store>>

produce_block(l) ==
    /\ ExtendChain(l)
    /\ UNCHANGED snapshots

validate_and_add_block(l) ==
    /\ ExtendChain(l)
    /\ snapshots' = IF Len(chain') % SnapshotInterval = 0
                    THEN Store(snapshots, Len(chain'), SnapshotNow)
                    ELSE snapshots

-----------------------------------------------------------------------------
(* Certificates and blobs *)

(* The checks of handle_finality_cert that come before the blob is asked for. *)
cert_acceptable(cert) ==
    /\ cert.height > finalized_height
    /\ is_checkpoint_height(cert.height)
    /\ cert.height <= Len(chain)
    /\ cert.hash = BlockHash(chain, cert.height)
    /\ cert_verifies(cert, validator_set)

(* get_qc_blob: memory first, then disk. *)
HasBlob(h) == h \in DOMAIN verified_qc_blobs \cup DOMAIN qc_store
get_qc_blob(h) ==
    IF h \in DOMAIN verified_qc_blobs THEN verified_qc_blobs[h] ELSE qc_store[h]

BlobSupports(blob, cert) ==
    /\ blob_verifies(blob, validator_set)
    /\ covers(blob, cert.signers)

Finalize(cert) ==
    /\ finalized_height' = cert.height
    /\ finalized_hash' = cert.hash
    /\ cert_store' = Store(cert_store, cert.height, cert)

handle_finality_cert(cert) ==
    /\ cert_acceptable(cert)
    /\ \/ /\ ~HasBlob(cert.height)
          /\ pending_finality_certs' = Queued(cert)
          /\ UNCHANGED <<finalized_height, finalized_hash, cert_store>>
       \/ /\ HasBlob(cert.height)
          /\ BlobSupports(get_qc_blob(cert.height), cert)
          /\ Finalize(cert)
          /\ UNCHANGED pending_finality_certs
    /\ UNCHANGED <<chain, slashed, verified_qc_blobs, qc_store, snapshots>>

(* prune_verified_qc_blobs: one blob was inserted, so at most one goes. *)
PruneBlobs(f) ==
    IF Cardinality(DOMAIN f) > max_qc_blobs THEN Drop(f, {Lowest(DOMAIN f)}) ELSE f

(* process_pending_finality_certs after the blob of height h is in: the    *)
(* first certificate of the bucket that passes is final, the later ones    *)
(* are at or below the finalized height, the refused ones are gone.        *)
Passing(h, blob) ==
    {i \in DOMAIN Bucket(h) :
        cert_acceptable(Bucket(h)[i]) /\ BlobSupports(blob, Bucket(h)[i])}

(* Mutant: a bucket in which nothing passed is put back. *)
process_pending_requeue(h, blob) ==
    IF Passing(h, blob) # {}
    THEN /\ pending_finality_certs' = Drop(pending_finality_certs, {h})
         /\ Finalize(Bucket(h)[Lowest(Passing(h, blob))])
    ELSE UNCHANGED <<pending_finality_certs, finalized_height, finalized_hash, cert_store>>

process_pending_finality_certs(h, blob) ==
    /\ pending_finality_certs' = Drop(pending_finality_certs, {h})
    /\ IF Passing(h, blob) # {}
       THEN Finalize(Bucket(h)[Lowest(Passing(h, blob))])
       ELSE UNCHANGED <<finalized_height, finalized_hash, cert_store>>

import_qc_blob(h, blob) ==
    /\ is_checkpoint_height(h)
    /\ h <= Len(chain)
    /\ blob.hash = BlockHash(chain, h)
    /\ blob_verifies(blob, validator_set)
    /\ Cardinality(DOMAIN blob.entries) >= quorum_count(validator_set)
    /\ verified_qc_blobs' = PruneBlobs(Store(verified_qc_blobs, h, blob))
    /\ qc_store' = Store(qc_store, h, blob)
    /\ process_pending_finality_certs(h, blob)
    /\ UNCHANGED <<chain, slashed, snapshots>>

-----------------------------------------------------------------------------
(* Fault proofs *)

(* QcFaultProof::verify_against_blob: the entry of v is in the blob, v still *)
(* sits at the entry's index, and the entry does not verify under v's key.   *)
fault_proof_accepted(h, v) ==
    /\ HasBlob(h)
    /\ v \in DOMAIN get_qc_blob(h).entries \cap DOMAIN validator_set
    /\ LET entry == get_qc_blob(h).entries[v]
       IN  /\ entry.index = validator_index(validator_set, v)
           /\ entry.key # validator_set[v]

(* What is final when only the certificates in store are left. *)
RederiveFinality(store) ==
    IF DOMAIN store = {}
    THEN finalized_height' = 0 /\ finalized_hash' = Genesis
    ELSE /\ finalized_height' = Highest(DOMAIN store)
         /\ finalized_hash' = store[Highest(DOMAIN store)].hash

(* Mutants: the cached blobs stay; the stored certificates stay. *)
invalidate_disk_only(h) ==
    /\ UNCHANGED verified_qc_blobs
    /\ qc_store' = Drop(qc_store, h .. MaxTip)
    /\ cert_store' = Drop(cert_store, h .. MaxTip)
    /\ RederiveFinality(cert_store')
invalidate_blobs_only(h) ==
    /\ verified_qc_blobs' = Drop(verified_qc_blobs, h .. MaxTip)
    /\ qc_store' = Drop(qc_store, h .. MaxTip)
    /\ UNCHANGED cert_store
    /\ RederiveFinality(cert_store)

(* invalidate_finality_from_height: everything from h up goes, then the    *)
(* highest certificate still stored says what is final.  The code visits   *)
(* the checkpoint heights up to the tip, the only ones that have rows.     *)
invalidate_finality_from_height(h) ==
    /\ verified_qc_blobs' = Drop(verified_qc_blobs, h .. MaxTip)
    /\ qc_store' = Drop(qc_store, h .. MaxTip)
    /\ cert_store' = Drop(cert_store, h .. MaxTip)
    /\ RederiveFinality(cert_store')

apply_qc_fault_verdict(h, v) ==
    /\ slashed' = slashed \cup {v}
    /\ invalidate_finality_from_height(h)

handle_qc_fault_proof(h, v) ==
    /\ fault_proof_accepted(h, v)
    /\ apply_qc_fault_verdict(h, v)
    /\ UNCHANGED <<chain, pending_finality_certs, snapshots>>

-----------------------------------------------------------------------------
(* Reorganisation *)

(* f is the first height at which the two chains do not have one block. *)
find_fork_point(c, d, f) ==
    /\ f \in 1 .. (Len(c) + 1)
    /\ f <= Len(d) + 1
    /\ \A i \in 1 .. (f - 1) : c[i] = d[i]
    /\ (f <= Len(c) /\ f <= Len(d)) => c[f] # d[f]

(* Mutant: the fork point alone is compared, and may be the final block. *)
RespectsFinalityAlmost(new, f) == f >= finalized_height

(* What try_reorg asks of a candidate that forks at f. *)
RespectsFinality(new, f) ==
    /\ f > finalized_height
    /\ finalized_height <= Len(new)
    /\ BlockHash(new, finalized_height) = finalized_hash

(* Mutant: the fork point's own row stays. *)
WithoutAbandonedTail(rows, f) == Drop(rows, (f + 1) .. Len(chain))

(* Rows of the abandoned heights, removed from memory or by delete_block. *)
WithoutAbandoned(rows, f) == Drop(rows, f .. Len(chain))

(* Mutant: snapshots of abandoned heights stay loadable. *)
quarantine_nothing(h) == snapshots

quarantine_snapshots_above_height(h) == Drop(snapshots, (h + 1) .. MaxTip)

(* Every stored row of an abandoned height goes with its block, snapshots  *)
(* of abandoned heights are quarantined, and the account state, with any   *)
(* slash no block records, is rebuilt from genesis.                        *)
try_reorg(new, f) ==
    /\ is_better_chain(chain, new)
    /\ new # chain
    /\ find_fork_point(chain, new, f)
    /\ Len(chain) + 1 - f <= MAX_REORG_DEPTH
    /\ RespectsFinality(new, f)
    /\ chain' = new
    /\ slashed' = {}
    /\ verified_qc_blobs' = WithoutAbandoned(verified_qc_blobs, f)
    /\ qc_store' = WithoutAbandoned(qc_store, f)
    /\ cert_store' = WithoutAbandoned(cert_store, f)
    /\ snapshots' = quarantine_snapshots_above_height(f - 1)
    /\ pending_finality_certs' = <<>>
    /\ UNCHANGED <<finalized_height, finalized_hash>>

-----------------------------------------------------------------------------
(* Blockchain::new_with_genesis on a node that ran before: the newest      *)
(* snapshot says what is final and who was slashed; stored certificates    *)
(* are not read.                                                           *)

Restored ==
    IF DOMAIN snapshots = {}
    THEN [finalized_height |-> 0, finalized_hash |-> Genesis, slashed |-> {}]
    ELSE snapshots[Highest(DOMAIN snapshots)]

new_with_genesis ==
    /\ finalized_height' = Restored.finalized_height
    /\ finalized_hash' = Restored.finalized_hash
    /\ slashed' = Restored.slashed
    /\ verified_qc_blobs' = <<>>
    /\ pending_finality_certs' = <<>>
    /\ UNCHANGED <<chain, qc_store, cert_store, snapshots>>

-----------------------------------------------------------------------------
(* Inputs: what validators of the current set can have signed of the       *)
(* node's own blocks.  Anything else is refused and changes nothing.       *)

CertFrom(h, signers) ==
    [height |-> h, hash |-> BlockHash(chain, h), signers |-> signers,
     set |-> validator_set]
BlobFrom(h, signers) ==
    [hash |-> BlockHash(chain, h),
     entries |-> [v \in signers |-> Attestation(validator_set, v)]]

Init ==
    /\ chain = Genesis
    /\ slashed = {}
    /\ finalized_height = 0
    /\ finalized_hash = Genesis
    /\ verified_qc_blobs = <<>>
    /\ pending_finality_certs = <<>>
    /\ qc_store = <<>>
    /\ cert_store = <<>>
    /\ snapshots = <<>>

Handlers ==
    \/ \E l \in Labels : produce_block(l)
    \/ \E l \in Labels : validate_and_add_block(l)
    \/ \E h \in 1 .. Len(chain), signers \in SUBSET DOMAIN validator_set :
            handle_finality_cert(CertFrom(h, signers))
    \/ \E h \in 1 .. Len(chain), signers \in SUBSET DOMAIN validator_set :
            import_qc_blob(h, BlobFrom(h, signers))
    \/ \E h \in 1 .. Len(chain), v \in Validators : handle_qc_fault_proof(h, v)
    \/ \E new \in Chains, f \in 1 .. (MaxTip + 1) : try_reorg(new, f)

Next == Handlers \/ new_with_genesis

Spec == Init /\ [][Next]_vars

-----------------------------------------------------------------------------
(* Properties *)

Certs == [height : Heights, hash : Chains, signers : SUBSET Validators,
          set : ValidatorSets]
BlobOK(b) == b.hash \in Chains /\ DOMAIN b.entries \subseteq Validators
SnapshotRows == [finalized_height : Heights, finalized_hash : Chains,
                 slashed : SUBSET Validators]

(* Every variable has its type; heights that hold rows are checkpoints of  *)
(* the interval, and the queue holds no empty bucket.                      *)
TypeOK ==
    /\ chain \in Chains
    /\ slashed \subseteq Validators
    /\ finalized_height \in Heights
    /\ finalized_hash \in Chains
    /\ DOMAIN verified_qc_blobs \cup DOMAIN qc_store \cup DOMAIN cert_store
         \cup DOMAIN pending_finality_certs \subseteq {h \in Heights : is_checkpoint_height(h)}
    /\ DOMAIN snapshots \subseteq Heights
    /\ \A h \in DOMAIN verified_qc_blobs : BlobOK(verified_qc_blobs[h])
    /\ \A h \in DOMAIN qc_store : BlobOK(qc_store[h])
    /\ \A h \in DOMAIN cert_store : cert_store[h] \in Certs
    /\ \A h \in DOMAIN snapshots : snapshots[h] \in SnapshotRows
    /\ \A h \in DOMAIN pending_finality_certs :
            pending_finality_certs[h] \in Seq(Certs) /\ pending_finality_certs[h] # <<>>

(* The block the node calls final is a block of its own chain, whatever    *)
(* mix of reorganisations, fault proofs and restarts came before: nothing  *)
(* in handle_finality_cert, invalidate_finality_from_height, try_reorg or  *)
(* the startup code checks the pair against the chain afterwards.          *)
FinalizedOnChain ==
    /\ finalized_height <= Len(chain)
    /\ finalized_hash = BlockHash(chain, finalized_height)

OnChain(h, hash) == h <= Len(chain) /\ hash = BlockHash(chain, h)

(* Every attestation the node keeps is about its present chain.            *)
(* handle_finality_cert never compares the hash of the blob with the hash  *)
(* of the certificate, so this is what makes a stored blob support the     *)
(* right block, and what makes re-derived or restored finality point at    *)
(* the present chain.                                                      *)
EvidenceMatchesChain ==
    /\ \A h \in DOMAIN verified_qc_blobs : OnChain(h, verified_qc_blobs[h].hash)
    /\ \A h \in DOMAIN qc_store : OnChain(h, qc_store[h].hash)
    /\ \A h \in DOMAIN cert_store :
            cert_store[h].height = h /\ OnChain(h, cert_store[h].hash)
    /\ \A h \in DOMAIN pending_finality_certs :
            \A i \in DOMAIN pending_finality_certs[h] :
                LET cert == pending_finality_certs[h][i]
                IN  cert.height = h /\ OnChain(h, cert.hash)
    /\ \A s \in DOMAIN snapshots :
            /\ snapshots[s].finalized_height <= s
            /\ s <= Len(chain)
            /\ OnChain(snapshots[s].finalized_height, snapshots[s].finalized_hash)

(* The blob cache never answers differently from the store: get_qc_blob    *)
(* reads memory first, so a stale cached blob would shadow the stored one. *)
CacheCoherent ==
    \A h \in DOMAIN verified_qc_blobs :
        h \in DOMAIN qc_store /\ qc_store[h] = verified_qc_blobs[h]

(* No lost wake-up: a certificate waits in the queue only while its blob   *)
(* is missing, through eviction, reorganisation, fault proof and restart.  *)
PendingAwaitsBlob == \A h \in DOMAIN pending_finality_certs : ~HasBlob(h)

(* No step replaces the block that is final when the step begins: import   *)
(* only extends, and try_reorg forks above the finalized height.           *)
FinalizedNeverReplaced ==
    [][ /\ finalized_height <= Len(chain')
        /\ BlockHash(chain', finalized_height) = finalized_hash ]_vars

(* A height whose stored blob is withdrawn, by a fault proof at or below   *)
(* it or by a reorganisation, is not final afterwards.                     *)
WithdrawnBlobNotFinal ==
    [][ \A h \in DOMAIN qc_store \ DOMAIN qc_store' : finalized_height' < h ]_vars
=============================================================================
