--------------------------- MODULE FinalityProofs ---------------------------
(***************************************************************************)
(* Proofs about CheckpointFinality: the invariant that every piece of      *)
(* evidence a node keeps is about its present chain, and what follows for  *)
(* the block it calls final.                                               *)
(***************************************************************************)
EXTENDS CheckpointFinality, WellFoundedInduction, SequenceTheorems,
        TLAPS

FinalityInv ==
    /\ TypeOK
    /\ FinalizedOnChain
    /\ EvidenceMatchesChain
    /\ CacheCoherent
    /\ PendingAwaitsBlob

-----------------------------------------------------------------------------
(* Helpers *)

(* The least-number principle. *)
LEMMA LeastNatural ==
    ASSUME NEW S \in SUBSET Nat, S # {}
    PROVE  \E x \in S : \A y \in S : x <= y
<1>1. \A x, y \in Nat : y < x => <<y, x>> \in OpToRel(<, Nat)
    BY DEF OpToRel
<1>2. IsWellFoundedOn(OpToRel(<, Nat), Nat)
    BY NatLessThanWellFounded
<1>3. PICK x \in S : \A y \in S : ~(<<y, x>> \in OpToRel(<, Nat))
    BY <1>2, WFMin, Zenon
<1>4. \A y \in S : ~(y < x)
    BY <1>1, <1>3, Zenon
<1>5. \A y \in S : x <= y
    BY <1>4
<1>. QED  BY <1>5

(* A set of naturals that is not empty has a lowest member. *)
LEMMA LowestIn ==
    ASSUME NEW S \in SUBSET Nat, S # {}
    PROVE  Lowest(S) \in S
<1>1. PICK x \in S : \A y \in S : x <= y
    BY LeastNatural
<1>. QED  BY <1>1 DEF Lowest

(* A bounded set of naturals that is not empty has a highest member. *)
LEMMA HighestIn ==
    ASSUME NEW n \in Nat, NEW S \in SUBSET (0 .. n), S # {}
    PROVE  /\ Highest(S) \in S
           /\ \A j \in S : j <= Highest(S)
<1>. DEFINE T == {k \in 0 .. n : n - k \in S}
<1>1. T \in SUBSET Nat /\ T # {}
  <2>1. PICK k \in 0 .. n : k \in S
    OBVIOUS
  <2>2. n - k \in 0 .. n /\ n - (n - k) \in S
    BY <2>1
  <2>3. n - k \in T
    BY <2>2
  <2>4. T \subseteq 0 .. n
    OBVIOUS
  <2>5. T # {}
    BY <2>3
  <2>6. T \in SUBSET Nat
    BY <2>4
  <2>. QED  BY <2>5, <2>6
<1>2. PICK t \in T : \A u \in T : t <= u
    BY <1>1, LeastNatural
<1>3. t \in 0 .. n
    BY <1>2
<1>4. \A j \in S : j <= n - t
  <2>. TAKE j \in S
  <2>1. n - j \in 0 .. n /\ n - (n - j) = j
    OBVIOUS
  <2>2. n - j \in T
    BY <2>1
  <2>. QED  BY <2>2, <1>2, <1>3, SMTT(20)
<1>5. n - t \in S
    BY <1>2
<1>. QED  BY <1>4, <1>5 DEF Highest

(* What the length of a chain is, and that its prefixes are chains. *)
LEMMA ChainLength ==
    ASSUME NEW c \in Chains
    PROVE  /\ Len(c) \in 0 .. MaxTip
           /\ c \in [1 .. Len(c) -> Labels]
           /\ c \in Seq(Labels)
<1>1. PICK n \in Heights : c \in [1 .. n -> Labels]
    BY DEF Chains
<1>2. n \in Nat /\ n <= MaxTip
    BY <1>1, ParametersAssumption DEF Heights
<1>3. c \in Seq(Labels)
    BY <1>1, <1>2
<1>4. Len(c) = n
    BY <1>1, <1>2, <1>3
<1>. QED  BY <1>1, <1>2, <1>3, <1>4

(* A prefix of a chain is a chain. *)
LEMMA PrefixIsChain ==
    ASSUME NEW c \in Chains, NEW h \in Nat, h <= Len(c)
    PROVE  BlockHash(c, h) \in Chains
<1>1. Len(c) \in 0 .. MaxTip /\ c \in [1 .. Len(c) -> Labels]
    BY ChainLength
<1>2. h \in Heights
    BY <1>1, ParametersAssumption DEF Heights
<1>3. BlockHash(c, h) \in [1 .. h -> Labels]
    BY <1>1, <1>2 DEF BlockHash
<1>. QED  BY <1>2, <1>3 DEF Chains

(* The genesis hash is a chain of no blocks, and every chain begins there. *)
LEMMA GenesisIsChain ==
    /\ Genesis \in Chains
    /\ Len(Genesis) = 0
    /\ \A c : BlockHash(c, 0) = Genesis
<1>1. 0 \in Heights
    BY ParametersAssumption DEF Heights
<1>2. \A c : BlockHash(c, 0) = Genesis
    BY DEF BlockHash, Genesis
<1>3. Genesis \in [1 .. 0 -> Labels]
    BY DEF Genesis
<1>4. Len(Genesis) = 0
    BY DEF Genesis
<1>. QED  BY <1>1, <1>2, <1>3, <1>4 DEF Chains

(* Two chains with the same blocks below f. *)
Agree(c, d, f) ==
    /\ c \in Chains /\ d \in Chains
    /\ f \in Nat \ {0}
    /\ f <= Len(c) + 1
    /\ f <= Len(d) + 1
    /\ \A i \in 1 .. (f - 1) : c[i] = d[i]

(* Chains that agree below f have the same block hashes below f. *)
LEMMA AgreeBelow ==
    ASSUME NEW c, NEW d, NEW f, Agree(c, d, f), NEW h \in Nat, h < f
    PROVE  h <= Len(d) /\ BlockHash(d, h) = BlockHash(c, h)
<1>1. Len(c) \in Nat /\ Len(d) \in Nat
    BY ChainLength, ParametersAssumption DEF Agree
<1>2. h <= Len(d)
    BY <1>1 DEF Agree
<1>3. \A i \in 1 .. h : d[i] = c[i]
    BY DEF Agree
<1>. QED  BY <1>2, <1>3 DEF BlockHash

(* Appending a block changes nothing at or below the old tip. *)
LEMMA AppendAgrees ==
    ASSUME NEW c \in Chains, NEW l \in Labels, Len(c) < MaxTip
    PROVE  /\ Agree(c, Append(c, l), Len(c) + 1)
           /\ Len(Append(c, l)) = Len(c) + 1
<1>1. Len(c) \in Nat /\ c \in Seq(Labels) /\ c \in [1 .. Len(c) -> Labels]
    BY ChainLength, ParametersAssumption
<1>2. /\ Append(c, l) \in Seq(Labels)
      /\ Len(Append(c, l)) = Len(c) + 1
      /\ \A i \in 1 .. Len(c) : Append(c, l)[i] = c[i]
    BY <1>1
<1>4. Append(c, l) \in [1 .. (Len(c) + 1) -> Labels]
    BY <1>2, LenProperties
<1>3. Len(c) + 1 \in Heights
    BY <1>1, ParametersAssumption DEF Heights
<1>. QED  BY <1>1, <1>2, <1>3, <1>4 DEF Agree, Chains

-----------------------------------------------------------------------------
(* A step that keeps the blocks below f keeps what is said of them. *)

Moved(c, d, f) ==
    \A hash : \A h \in Nat :
        (h < f /\ h <= Len(c) /\ hash = BlockHash(c, h))
            => (h <= Len(d) /\ hash = BlockHash(d, h))

(* Statements about blocks below f carry over from one chain to the other. *)
LEMMA AgreeMoves ==
    ASSUME NEW c, NEW d, NEW f, Agree(c, d, f)
    PROVE  Moved(c, d, f)
BY AgreeBelow DEF Moved

(* A node that starts from genesis satisfies the invariant. *)
LEMMA InitInv == Init => FinalityInv
<1>. SUFFICES ASSUME Init PROVE FinalityInv
    OBVIOUS
<1>1. 0 \in Heights
    BY ParametersAssumption DEF Heights
<1>2. TypeOK
    BY <1>1, GenesisIsChain DEF Init, TypeOK
<1>3. FinalizedOnChain
    BY GenesisIsChain DEF Init, FinalizedOnChain
<1>4. EvidenceMatchesChain /\ CacheCoherent /\ PendingAwaitsBlob
    BY DEF Init, EvidenceMatchesChain, CacheCoherent, PendingAwaitsBlob
<1>. QED  BY <1>2, <1>3, <1>4 DEF FinalityInv

(* Importing or producing a block. *)
LEMMA ExtendInv ==
    ASSUME FinalityInv, NEW l \in Labels, ExtendChain(l),
           \/ snapshots' = snapshots
           \/ snapshots' = Store(snapshots, Len(chain'), SnapshotNow)
    PROVE  FinalityInv'
<1>1. chain \in Chains /\ Len(chain) \in Nat /\ Len(chain) < MaxTip
    BY ChainLength, ParametersAssumption DEF FinalityInv, TypeOK, ExtendChain
<1>2. Agree(chain, chain', Len(chain) + 1) /\ Len(chain') = Len(chain) + 1
    BY <1>1, AppendAgrees DEF ExtendChain
<1>3. Moved(chain, chain', Len(chain) + 1)
    BY <1>2, AgreeMoves
<1>4. \A hash : \A h \in Nat :
        OnChain(h, hash) => h <= Len(chain') /\ hash = BlockHash(chain', h)
    BY <1>1, <1>3 DEF Moved, OnChain
<1>5. chain' \in Chains /\ Len(chain') \in Heights
    BY <1>1, <1>2, ParametersAssumption DEF Agree, Heights
<1>6. SnapshotNow \in SnapshotRows /\ SnapshotNow.finalized_height = finalized_height
      /\ SnapshotNow.finalized_hash = finalized_hash
    BY DEF FinalityInv, TypeOK, SnapshotNow, SnapshotRows
<1>7. /\ DOMAIN snapshots' \subseteq DOMAIN snapshots \cup {Len(chain')}
      /\ \A s \in DOMAIN snapshots' :
            \/ s \in DOMAIN snapshots /\ snapshots'[s] = snapshots[s]
            \/ s = Len(chain') /\ snapshots'[s] = SnapshotNow
    BY DEF Store
<1>8. TypeOK'
    BY <1>5, <1>6, <1>7 DEF FinalityInv, TypeOK, ExtendChain
<1>9. FinalizedOnChain'
  <2>1. finalized_height \in Nat /\ OnChain(finalized_height, finalized_hash)
    BY ParametersAssumption DEF FinalityInv, TypeOK, FinalizedOnChain, OnChain, Heights
  <2>. QED  BY <2>1, <1>4 DEF ExtendChain, FinalizedOnChain
<1>10. EvidenceMatchesChain'
  <2>0. /\ \A h \in Heights : h \in Nat
        /\ \A h \in DOMAIN verified_qc_blobs : h \in Heights
        /\ \A h \in DOMAIN qc_store : h \in Heights
        /\ \A h \in DOMAIN cert_store : h \in Heights
        /\ \A h \in DOMAIN pending_finality_certs : h \in Heights
        /\ \A h \in DOMAIN snapshots :
                h \in Heights /\ snapshots[h].finalized_height \in Heights
    BY DEF FinalityInv, TypeOK, Heights, SnapshotRows
  <2>1. \A h \in DOMAIN verified_qc_blobs' : OnChain(h, verified_qc_blobs[h].hash)'
    BY <1>4, <2>0 DEF FinalityInv, EvidenceMatchesChain, ExtendChain, OnChain
  <2>2. \A h \in DOMAIN qc_store' : OnChain(h, qc_store[h].hash)'
    BY <1>4, <2>0 DEF FinalityInv, EvidenceMatchesChain, ExtendChain, OnChain
  <2>3. \A h \in DOMAIN cert_store' :
            (cert_store[h].height = h /\ OnChain(h, cert_store[h].hash))'
    BY <1>4, <2>0 DEF FinalityInv, EvidenceMatchesChain, ExtendChain, OnChain
  <2>4. \A h \in DOMAIN pending_finality_certs' :
            \A i \in DOMAIN pending_finality_certs'[h] :
                /\ pending_finality_certs'[h][i].height = h
                /\ OnChain(h, pending_finality_certs[h][i].hash)'
    BY <1>4, <2>0 DEF FinalityInv, EvidenceMatchesChain, ExtendChain, OnChain
  <2>5. \A s \in DOMAIN snapshots' :
            /\ snapshots'[s].finalized_height <= s
            /\ s <= Len(chain')
            /\ OnChain(snapshots[s].finalized_height, snapshots[s].finalized_hash)'
    <3>. TAKE s \in DOMAIN snapshots'
    <3>1. CASE s \in DOMAIN snapshots /\ snapshots'[s] = snapshots[s]
      BY <3>1, <1>1, <1>2, <1>4, <2>0
         DEF FinalityInv, EvidenceMatchesChain, OnChain
    <3>2. CASE s = Len(chain') /\ snapshots'[s] = SnapshotNow
      BY <3>2, <1>1, <1>2, <1>6, <1>9 DEF FinalityInv, FinalizedOnChain, ExtendChain, OnChain
    <3>. QED  BY <3>1, <3>2, <1>7
  <2>. QED  BY <2>1, <2>2, <2>3, <2>4, <2>5 DEF EvidenceMatchesChain
<1>11. (CacheCoherent /\ PendingAwaitsBlob)'
    BY DEF FinalityInv, CacheCoherent, PendingAwaitsBlob, HasBlob, ExtendChain
<1>. QED  BY <1>8, <1>9, <1>10, <1>11 DEF FinalityInv

-----------------------------------------------------------------------------
(* The queue of certificates that wait for their blob. *)

GoodCert(cert, h) ==
    /\ cert \in Certs
    /\ cert.height = h
    /\ OnChain(h, cert.hash)

GoodBucket(b, h) ==
    /\ b \in Seq(Certs)
    /\ b # <<>>
    /\ \A i \in DOMAIN b : GoodCert(b[i], h)

GoodQueue(q) ==
    \A h \in DOMAIN q : h \in Heights /\ is_checkpoint_height(h) /\ GoodBucket(q[h], h)

(* The invariant makes every waiting certificate a good one. *)
LEMMA QueueIsGood == FinalityInv => GoodQueue(pending_finality_certs)
<1>. SUFFICES ASSUME FinalityInv, NEW h \in DOMAIN pending_finality_certs
              PROVE  /\ h \in Heights
                     /\ is_checkpoint_height(h)
                     /\ GoodBucket(pending_finality_certs[h], h)
    BY DEF GoodQueue
<1>1. /\ h \in Heights /\ is_checkpoint_height(h)
      /\ pending_finality_certs[h] \in Seq(Certs)
      /\ pending_finality_certs[h] # <<>>
    BY DEF FinalityInv, TypeOK
<1>2. \A i \in DOMAIN pending_finality_certs[h] :
        pending_finality_certs[h][i] \in Certs
    BY <1>1, LenProperties, ElementOfSeq
<1>3. \A i \in DOMAIN pending_finality_certs[h] :
        GoodCert(pending_finality_certs[h][i], h)
    BY <1>2 DEF FinalityInv, EvidenceMatchesChain, GoodCert
<1>. QED  BY <1>1, <1>3 DEF GoodBucket

(* Evicting the oldest certificate of a bucket leaves a good bucket. *)
LEMMA TailIsGood ==
    ASSUME NEW h, NEW b, GoodBucket(b, h), Len(b) # 1
    PROVE  GoodBucket(Tail(b), h)
<1>1. /\ b \in Seq(Certs) /\ b # <<>> /\ Len(b) \in Nat \ {0}
      /\ DOMAIN b = 1 .. Len(b)
    BY EmptySeq, LenProperties DEF GoodBucket
<1>2. /\ Tail(b) \in Seq(Certs)
      /\ Len(Tail(b)) = Len(b) - 1
      /\ \A i \in 1 .. Len(Tail(b)) : Tail(b)[i] = b[i + 1]
    BY <1>1, HeadTailProperties
<1>3. DOMAIN Tail(b) = 1 .. (Len(b) - 1)
    BY <1>2, LenProperties
<1>4. Tail(b) # <<>>
  <2>1. Len(Tail(b)) # 0
    BY <1>1, <1>2
  <2>2. Len(<<>>) = 0
    OBVIOUS
  <2>. QED  BY <2>1, <2>2, Zenon
<1>5. \A i \in DOMAIN Tail(b) : GoodCert(Tail(b)[i], h)
  <2>. TAKE i \in DOMAIN Tail(b)
  <2>1. i + 1 \in DOMAIN b /\ Tail(b)[i] = b[i + 1]
    BY <1>1, <1>2, <1>3
  <2>. QED  BY <2>1 DEF GoodBucket
<1>. QED  BY <1>2, <1>4, <1>5 DEF GoodBucket

(* Adding a good certificate to a bucket leaves a good bucket. *)
LEMMA AppendIsGood ==
    ASSUME NEW h, NEW b \in Seq(Certs), \A i \in DOMAIN b : GoodCert(b[i], h),
           NEW cert, GoodCert(cert, h)
    PROVE  GoodBucket(Append(b, cert), h)
<1>1. cert \in Certs
    BY DEF GoodCert
<1>2. /\ Append(b, cert) \in Seq(Certs)
      /\ Len(Append(b, cert)) = Len(b) + 1
      /\ \A i \in 1 .. Len(b) : Append(b, cert)[i] = b[i]
      /\ Append(b, cert)[Len(b) + 1] = cert
      /\ Len(b) \in Nat
      /\ DOMAIN b = 1 .. Len(b)
    BY <1>1, LenProperties
<1>3. DOMAIN Append(b, cert) = 1 .. (Len(b) + 1)
    BY <1>2, LenProperties
<1>4. Append(b, cert) # <<>>
    BY <1>2, EmptySeq
<1>5. \A i \in DOMAIN Append(b, cert) : GoodCert(Append(b, cert)[i], h)
  <2>. TAKE i \in DOMAIN Append(b, cert)
  <2>1. CASE i \in 1 .. Len(b)
    BY <2>1, <1>2
  <2>2. CASE i = Len(b) + 1
    BY <2>2, <1>2
  <2>. QED  BY <2>1, <2>2, <1>2, <1>3
<1>. QED  BY <1>2, <1>4, <1>5 DEF GoodBucket

(* Setting one bucket keeps the queue good. *)
LEMMA PutIsGood ==
    ASSUME NEW q, GoodQueue(q), NEW h \in Heights, is_checkpoint_height(h),
           NEW b, GoodBucket(b, h)
    PROVE  GoodQueue(Store(q, h, b)) /\ DOMAIN Store(q, h, b) = DOMAIN q \cup {h}
BY DEF Store, GoodQueue

(* Removing buckets keeps the queue good. *)
LEMMA DropIsGood ==
    ASSUME NEW q, GoodQueue(q), NEW S
    PROVE  GoodQueue(Drop(q, S)) /\ DOMAIN Drop(q, S) = DOMAIN q \ S
BY DEF Drop, GoodQueue

(* The eviction keeps the queue good and adds no height. *)
LEMMA EvictIsGood ==
    ASSUME NEW q, GoodQueue(q), DOMAIN q # {}
    PROVE  GoodQueue(EvictOldest(q)) /\ DOMAIN EvictOldest(q) \subseteq DOMAIN q
<1>. DEFINE h == Lowest(DOMAIN q)
<1>1. DOMAIN q \in SUBSET Nat
    BY DEF GoodQueue, Heights
<1>2. h \in DOMAIN q
    BY <1>1, LowestIn
<1>3. CASE PendingCount(q) <= max_pending_certs
    BY <1>3 DEF EvictOldest
<1>4. CASE ~(PendingCount(q) <= max_pending_certs) /\ Len(q[h]) = 1
  <2>1. EvictOldest(q) = Drop(q, {h})
    BY <1>4 DEF EvictOldest
  <2>2. GoodQueue(Drop(q, {h})) /\ DOMAIN Drop(q, {h}) = DOMAIN q \ {h}
    BY DropIsGood
  <2>. QED  BY <2>1, <2>2
<1>5. CASE ~(PendingCount(q) <= max_pending_certs) /\ Len(q[h]) # 1
  <2>1. EvictOldest(q) = Store(q, h, Tail(q[h]))
    BY <1>5 DEF EvictOldest
  <2>2. GoodBucket(Tail(q[h]), h)
    BY <1>2, <1>5, TailIsGood DEF GoodQueue
  <2>3. h \in Heights /\ is_checkpoint_height(h)
    BY <1>2 DEF GoodQueue
  <2>4. GoodQueue(Store(q, h, Tail(q[h])))
        /\ DOMAIN Store(q, h, Tail(q[h])) = DOMAIN q \cup {h}
    BY <2>2, <2>3, PutIsGood
  <2>. QED  BY <1>2, <2>1, <2>4
<1>. QED  BY <1>3, <1>4, <1>5

(* queue_pending_finality_cert keeps the queue good and adds at most one height. *)
LEMMA QueuedIsGood ==
    ASSUME FinalityInv, NEW cert, NEW h \in Heights, is_checkpoint_height(h),
           GoodCert(cert, h)
    PROVE  /\ GoodQueue(Queued(cert))
           /\ DOMAIN Queued(cert) \subseteq DOMAIN pending_finality_certs \cup {h}
<1>. DEFINE b == Bucket(h)
            q == Store(pending_finality_certs, h, Append(b, cert))
<1>1. GoodQueue(pending_finality_certs)
    BY QueueIsGood
<1>2. cert.height = h
    BY DEF GoodCert
<1>3. b \in Seq(Certs) /\ \A i \in DOMAIN b : GoodCert(b[i], h)
  <2>1. CASE h \in DOMAIN pending_finality_certs
    BY <2>1, <1>1 DEF Bucket, GoodQueue, GoodBucket
  <2>2. CASE h \notin DOMAIN pending_finality_certs
    BY <2>2, EmptySeq DEF Bucket
  <2>. QED  BY <2>1, <2>2
<1>4. GoodBucket(Append(b, cert), h)
    BY <1>3, AppendIsGood
<1>5. GoodQueue(q) /\ DOMAIN q = DOMAIN pending_finality_certs \cup {h}
  <2>. HIDE DEF b
  <2>. QED  BY <1>1, <1>4, PutIsGood
<1>6. \/ Queued(cert) = pending_finality_certs
      \/ Queued(cert) = EvictOldest(q)
    BY <1>2 DEF Queued
<1>7. GoodQueue(EvictOldest(q)) /\ DOMAIN EvictOldest(q) \subseteq DOMAIN q
  <2>. HIDE DEF q
  <2>. QED  BY <1>5, EvictIsGood
<1>. QED  BY <1>1, <1>5, <1>6, <1>7

-----------------------------------------------------------------------------
(* The invariant, table by table. *)

GoodFinal(h, hash) == h \in Heights /\ hash \in Chains /\ OnChain(h, hash)
GoodBlobs(m) ==
    \A h \in DOMAIN m : /\ h \in Heights /\ is_checkpoint_height(h)
                        /\ BlobOK(m[h])
                        /\ OnChain(h, m[h].hash)
GoodCerts(m) ==
    \A h \in DOMAIN m : h \in Heights /\ is_checkpoint_height(h) /\ GoodCert(m[h], h)
GoodSnapshot(s, r) ==
    /\ s \in Heights
    /\ s <= Len(chain)
    /\ r \in SnapshotRows
    /\ r.finalized_height <= s
    /\ OnChain(r.finalized_height, r.finalized_hash)
GoodSnapshots(m) == \A s \in DOMAIN m : GoodSnapshot(s, m[s])

(* The invariant gives what each table promises. *)
LEMMA InvTables ==
    ASSUME FinalityInv
    PROVE  /\ chain \in Chains
           /\ slashed \subseteq Validators
           /\ GoodFinal(finalized_height, finalized_hash)
           /\ GoodBlobs(verified_qc_blobs)
           /\ GoodBlobs(qc_store)
           /\ GoodCerts(cert_store)
           /\ GoodQueue(pending_finality_certs)
           /\ GoodSnapshots(snapshots)
<1>1. GoodFinal(finalized_height, finalized_hash)
    BY DEF FinalityInv, TypeOK, FinalizedOnChain, OnChain, GoodFinal
<1>2. GoodBlobs(verified_qc_blobs)
    BY DEF FinalityInv, TypeOK, EvidenceMatchesChain, GoodBlobs
<1>3. GoodBlobs(qc_store)
    BY DEF FinalityInv, TypeOK, EvidenceMatchesChain, GoodBlobs
<1>4. GoodCerts(cert_store)
    BY DEF FinalityInv, TypeOK, EvidenceMatchesChain, GoodCerts, GoodCert
<1>5. GoodSnapshots(snapshots)
    BY DEF FinalityInv, TypeOK, EvidenceMatchesChain, GoodSnapshots, GoodSnapshot
<1>. QED  BY <1>1, <1>2, <1>3, <1>4, <1>5, QueueIsGood DEF FinalityInv, TypeOK

(* What each table promises, with the chain unchanged, gives the invariant. *)
LEMMA TablesInv ==
    ASSUME chain' = chain, chain \in Chains, slashed' \subseteq Validators,
           GoodFinal(finalized_height', finalized_hash'),
           GoodBlobs(verified_qc_blobs'),
           GoodBlobs(qc_store'),
           GoodCerts(cert_store'),
           GoodQueue(pending_finality_certs'),
           GoodSnapshots(snapshots'),
           CacheCoherent', PendingAwaitsBlob'
    PROVE  FinalityInv'
<1>1. TypeOK'
    BY DEF TypeOK, GoodFinal, GoodBlobs, GoodCerts, GoodCert, GoodQueue, GoodBucket,
           GoodSnapshots, GoodSnapshot
<1>2. FinalizedOnChain'
    BY DEF FinalizedOnChain, GoodFinal, OnChain
<1>3. EvidenceMatchesChain'
    BY DEF EvidenceMatchesChain, GoodBlobs, GoodCerts, GoodCert, GoodQueue, GoodBucket,
           GoodSnapshots, GoodSnapshot, OnChain
<1>. QED  BY <1>1, <1>2, <1>3 DEF FinalityInv

(* Removing blobs keeps the others good. *)
LEMMA DropKeepsBlobs ==
    ASSUME NEW m, GoodBlobs(m), NEW S
    PROVE  GoodBlobs(Drop(m, S)) /\ DOMAIN Drop(m, S) = DOMAIN m \ S
BY DEF GoodBlobs, Drop

(* Storing a good blob keeps the table good. *)
LEMMA PutKeepsBlobs ==
    ASSUME NEW m, GoodBlobs(m), NEW h \in Heights, is_checkpoint_height(h),
           NEW blob, BlobOK(blob), OnChain(h, blob.hash)
    PROVE  GoodBlobs(Store(m, h, blob))
BY DEF GoodBlobs, Store

(* Removing certificates keeps the others good. *)
LEMMA DropKeepsCerts ==
    ASSUME NEW m, GoodCerts(m), NEW S
    PROVE  GoodCerts(Drop(m, S)) /\ DOMAIN Drop(m, S) = DOMAIN m \ S
BY DEF GoodCerts, Drop

(* Finalizing a good certificate leaves good finality and a good store. *)
LEMMA FinalizeIsGood ==
    ASSUME NEW h \in Heights, is_checkpoint_height(h), NEW cert, GoodCert(cert, h),
           GoodCerts(cert_store), Finalize(cert)
    PROVE  GoodFinal(finalized_height', finalized_hash') /\ GoodCerts(cert_store')
<1>1. cert.height = h /\ cert \in Certs /\ OnChain(h, cert.hash)
    BY DEF GoodCert
<1>2. cert.hash \in Chains
    BY <1>1 DEF Certs
<1>3. GoodFinal(finalized_height', finalized_hash')
    BY <1>1, <1>2 DEF Finalize, GoodFinal
<1>4. cert_store' = Store(cert_store, h, cert)
    BY <1>1 DEF Finalize
<1>5. GoodCerts(cert_store')
    BY <1>4 DEF GoodCerts, Store
<1>. QED  BY <1>3, <1>5

-----------------------------------------------------------------------------
(* What validators sign *)

(* The validator set of a chain is a set of known validators with keys. *)
LEMMA SetIsASet ==
    ASSUME chain \in Chains
    PROVE  validator_set \in ValidatorSets /\ DOMAIN validator_set \subseteq Validators
<1>1. PICK S \in SUBSET Validators : ValidatorsAfter(chain) \in [S -> Keys]
    BY ValidatorsAssumption DEF ValidatorSets
<1>2. validator_set \in [S \ slashed -> Keys]
    BY <1>1 DEF validator_set, SetAfter
<1>3. S \ slashed \in SUBSET Validators
    OBVIOUS
<1>. QED  BY <1>2, <1>3 DEF ValidatorSets

(* A certificate of one of the node's own blocks is a good one. *)
LEMMA CertIsGood ==
    ASSUME chain \in Chains, NEW h \in 1 .. Len(chain),
           NEW signers \in SUBSET DOMAIN validator_set
    PROVE  h \in Heights /\ GoodCert(CertFrom(h, signers), h)
<1>1. Len(chain) \in 0 .. MaxTip
    BY ChainLength
<1>2. h \in Heights /\ h \in Nat /\ h <= Len(chain)
    BY <1>1, ParametersAssumption DEF Heights
<1>3. BlockHash(chain, h) \in Chains
    BY <1>2, PrefixIsChain
<1>4. validator_set \in ValidatorSets /\ signers \in SUBSET Validators
    BY SetIsASet
<1>. QED  BY <1>2, <1>3, <1>4 DEF CertFrom, Certs, GoodCert, OnChain

(* A blob of one of the node's own blocks is a good one. *)
LEMMA BlobIsGood ==
    ASSUME chain \in Chains, NEW h \in 1 .. Len(chain),
           NEW signers \in SUBSET DOMAIN validator_set
    PROVE  BlobOK(BlobFrom(h, signers)) /\ OnChain(h, BlobFrom(h, signers).hash)
<1>1. h \in Heights /\ GoodCert(CertFrom(h, signers), h)
    BY CertIsGood
<1>2. BlockHash(chain, h) \in Chains /\ h <= Len(chain)
    BY <1>1 DEF GoodCert, CertFrom, Certs, OnChain
<1>3. signers \subseteq Validators
    BY SetIsASet
<1>. QED  BY <1>2, <1>3 DEF BlobFrom, BlobOK, OnChain

-----------------------------------------------------------------------------
(* One lemma per handler. *)

(* A certificate that is queued or that makes its block final. *)
LEMMA CertInv ==
    ASSUME FinalityInv, NEW h \in 1 .. Len(chain),
           NEW signers \in SUBSET DOMAIN validator_set,
           handle_finality_cert(CertFrom(h, signers))
    PROVE  FinalityInv'
<1>. DEFINE cert == CertFrom(h, signers)
<1>1. /\ chain \in Chains
      /\ slashed \subseteq Validators
      /\ GoodFinal(finalized_height, finalized_hash)
      /\ GoodBlobs(verified_qc_blobs)
      /\ GoodBlobs(qc_store)
      /\ GoodCerts(cert_store)
      /\ GoodQueue(pending_finality_certs)
      /\ GoodSnapshots(snapshots)
    BY InvTables
<1>2. h \in Heights /\ GoodCert(cert, h)
    BY <1>1, CertIsGood
<1>3. cert.height = h
    BY <1>2 DEF GoodCert
<1>4. is_checkpoint_height(h)
    BY <1>3 DEF handle_finality_cert, cert_acceptable
<1>5. /\ chain' = chain
      /\ slashed' = slashed
      /\ verified_qc_blobs' = verified_qc_blobs
      /\ qc_store' = qc_store
      /\ snapshots' = snapshots
    BY DEF handle_finality_cert
<1>6. CacheCoherent'
    BY <1>5 DEF FinalityInv, CacheCoherent
<1>7. CASE ~HasBlob(h) /\ pending_finality_certs' = Queued(cert)
           /\ UNCHANGED <<finalized_height, finalized_hash, cert_store>>
  <2>1. /\ GoodQueue(pending_finality_certs')
        /\ DOMAIN pending_finality_certs' \subseteq DOMAIN pending_finality_certs \cup {h}
    BY <1>2, <1>4, <1>7, QueuedIsGood
  <2>2. PendingAwaitsBlob'
    BY <2>1, <1>5, <1>7 DEF FinalityInv, PendingAwaitsBlob, HasBlob
  <2>. QED  BY <1>1, <1>5, <1>6, <1>7, <2>1, <2>2, TablesInv
<1>8. CASE Finalize(cert) /\ UNCHANGED pending_finality_certs
  <2>1. GoodFinal(finalized_height', finalized_hash') /\ GoodCerts(cert_store')
    BY <1>1, <1>2, <1>4, <1>8, FinalizeIsGood
  <2>2. PendingAwaitsBlob'
    BY <1>5, <1>8 DEF FinalityInv, PendingAwaitsBlob, HasBlob
  <2>. QED  BY <1>1, <1>5, <1>6, <1>8, <2>1, <2>2, TablesInv
<1>. QED  BY <1>3, <1>7, <1>8 DEF handle_finality_cert

(* The certificate the queue yields when a blob arrives is a good one. *)
LEMMA PassingIsGood ==
    ASSUME FinalityInv, NEW h, NEW blob, Passing(h, blob) # {}
    PROVE  /\ h \in Heights /\ is_checkpoint_height(h)
           /\ GoodCert(Bucket(h)[Lowest(Passing(h, blob))], h)
<1>. DEFINE i == Lowest(Passing(h, blob))
<1>1. GoodQueue(pending_finality_certs)
    BY QueueIsGood
<1>2. h \in DOMAIN pending_finality_certs
    BY DEF Passing, Bucket
<1>3. Bucket(h) = pending_finality_certs[h] /\ GoodBucket(Bucket(h), h)
    BY <1>1, <1>2 DEF Bucket, GoodQueue
<1>4. DOMAIN Bucket(h) \subseteq Nat
  <2>1. Bucket(h) \in Seq(Certs)
    BY <1>3 DEF GoodBucket
  <2>2. DOMAIN Bucket(h) = 1 .. Len(Bucket(h)) /\ Len(Bucket(h)) \in Nat
    BY <2>1, LenProperties
  <2>. QED  BY <2>2
<1>5. i \in Passing(h, blob)
  <2>1. Passing(h, blob) \in SUBSET Nat
    BY <1>4 DEF Passing
  <2>. QED  BY <2>1, LowestIn
<1>6. i \in DOMAIN Bucket(h)
    BY <1>5 DEF Passing
<1>. QED  BY <1>1, <1>2, <1>3, <1>6 DEF GoodQueue, GoodBucket

(* The blob cache after an insertion. *)
LEMMA PruneKeepsBlobs ==
    ASSUME NEW m, GoodBlobs(m)
    PROVE  /\ GoodBlobs(PruneBlobs(m))
           /\ DOMAIN PruneBlobs(m) \subseteq DOMAIN m
           /\ \A h \in DOMAIN PruneBlobs(m) : PruneBlobs(m)[h] = m[h]
<1>1. CASE PruneBlobs(m) = m
    BY <1>1
<1>2. CASE PruneBlobs(m) = Drop(m, {Lowest(DOMAIN m)})
  <2>. DEFINE S == {Lowest(DOMAIN m)}
  <2>1. GoodBlobs(Drop(m, S)) /\ DOMAIN Drop(m, S) = DOMAIN m \ S
    BY DropKeepsBlobs
  <2>2. \A h \in DOMAIN Drop(m, S) : Drop(m, S)[h] = m[h]
    BY DEF Drop
  <2>. QED  BY <1>2, <2>1, <2>2
<1>. QED  BY <1>1, <1>2 DEF PruneBlobs

(* A blob that is kept, with the certificates that waited for it. *)
LEMMA BlobInv ==
    ASSUME FinalityInv, NEW h \in 1 .. Len(chain),
           NEW signers \in SUBSET DOMAIN validator_set,
           import_qc_blob(h, BlobFrom(h, signers))
    PROVE  FinalityInv'
<1>. DEFINE blob == BlobFrom(h, signers)
            added == Store(verified_qc_blobs, h, blob)
<1>1. /\ chain \in Chains
      /\ slashed \subseteq Validators
      /\ GoodFinal(finalized_height, finalized_hash)
      /\ GoodBlobs(verified_qc_blobs)
      /\ GoodBlobs(qc_store)
      /\ GoodCerts(cert_store)
      /\ GoodQueue(pending_finality_certs)
      /\ GoodSnapshots(snapshots)
    BY InvTables
<1>2. BlobOK(blob) /\ OnChain(h, blob.hash)
    BY <1>1, BlobIsGood
<1>3. h \in Heights /\ is_checkpoint_height(h)
    BY <1>1, CertIsGood DEF import_qc_blob
<1>4. /\ chain' = chain /\ slashed' = slashed /\ snapshots' = snapshots
      /\ verified_qc_blobs' = PruneBlobs(added)
      /\ qc_store' = Store(qc_store, h, blob)
      /\ process_pending_finality_certs(h, blob)
    BY DEF import_qc_blob
<1>. HIDE DEF blob
<1>5. GoodBlobs(qc_store') /\ GoodBlobs(added)
  <2>1. GoodBlobs(Store(qc_store, h, blob))
    BY <1>1, <1>2, <1>3, PutKeepsBlobs
  <2>2. GoodBlobs(Store(verified_qc_blobs, h, blob))
    BY <1>1, <1>2, <1>3, PutKeepsBlobs
  <2>. QED  BY <2>1, <2>2, <1>4
<1>6. /\ DOMAIN added = DOMAIN verified_qc_blobs \cup {h}
      /\ added[h] = blob
      /\ \A j \in DOMAIN verified_qc_blobs : j # h => added[j] = verified_qc_blobs[j]
    BY DEF Store
<1>7. /\ DOMAIN qc_store' = DOMAIN qc_store \cup {h}
      /\ qc_store'[h] = blob
      /\ \A j \in DOMAIN qc_store : j # h => qc_store'[j] = qc_store[j]
    BY <1>4 DEF Store
<1>. HIDE DEF added
<1>8. /\ GoodBlobs(verified_qc_blobs')
      /\ DOMAIN verified_qc_blobs' \subseteq DOMAIN added
      /\ \A j \in DOMAIN verified_qc_blobs' : verified_qc_blobs'[j] = added[j]
    BY <1>4, <1>5, PruneKeepsBlobs
<1>9. CacheCoherent'
    BY <1>6, <1>7, <1>8 DEF FinalityInv, CacheCoherent
<1>10. /\ GoodQueue(pending_finality_certs')
       /\ DOMAIN pending_finality_certs' = DOMAIN pending_finality_certs \ {h}
  <2>1. pending_finality_certs' = Drop(pending_finality_certs, {h})
    BY <1>4 DEF process_pending_finality_certs
  <2>. QED  BY <2>1, <1>1, DropIsGood
<1>11. PendingAwaitsBlob'
    BY <1>6, <1>7, <1>8, <1>10 DEF FinalityInv, PendingAwaitsBlob, HasBlob
<1>12. GoodFinal(finalized_height', finalized_hash') /\ GoodCerts(cert_store')
  <2>1. CASE Passing(h, blob) # {}
    <3>1. GoodCert(Bucket(h)[Lowest(Passing(h, blob))], h)
      BY <2>1, PassingIsGood
    <3>2. Finalize(Bucket(h)[Lowest(Passing(h, blob))])
      BY <2>1, <1>4 DEF process_pending_finality_certs
    <3>. QED  BY <3>1, <3>2, <1>1, <1>3, FinalizeIsGood
  <2>2. CASE Passing(h, blob) = {}
    <3>1. UNCHANGED <<finalized_height, finalized_hash, cert_store>>
      BY <2>2, <1>4 DEF process_pending_finality_certs
    <3>. QED  BY <3>1, <1>1
  <2>. QED  BY <2>1, <2>2
<1>. QED  BY <1>1, <1>4, <1>5, <1>8, <1>9, <1>10, <1>11, <1>12, TablesInv

(* Finality re-derived from good certificates is good, and one of theirs. *)
LEMMA RederiveIsGood ==
    ASSUME chain \in Chains, NEW store, GoodCerts(store), RederiveFinality(store)
    PROVE  /\ GoodFinal(finalized_height', finalized_hash')
           /\ finalized_height' \in DOMAIN store \cup {0}
<1>1. CASE DOMAIN store = {}
  <2>1. finalized_height' = 0 /\ finalized_hash' = Genesis
    BY <1>1 DEF RederiveFinality
  <2>2. 0 \in Heights /\ 0 <= Len(chain)
    BY ChainLength, ParametersAssumption DEF Heights
  <2>. QED  BY <2>1, <2>2, GenesisIsChain DEF GoodFinal, OnChain
<1>2. CASE DOMAIN store # {}
  <2>. DEFINE top == Highest(DOMAIN store)
  <2>1. DOMAIN store \in SUBSET (0 .. MaxTip)
    BY DEF GoodCerts, Heights
  <2>2. top \in DOMAIN store
    BY <1>2, <2>1, HighestIn, ParametersAssumption
  <2>3. finalized_height' = top /\ finalized_hash' = store[top].hash
    BY <1>2 DEF RederiveFinality
  <2>4. top \in Heights /\ store[top] \in Certs /\ OnChain(top, store[top].hash)
    BY <2>2 DEF GoodCerts, GoodCert
  <2>5. store[top].hash \in Chains
    BY <2>4 DEF Certs
  <2>. QED  BY <2>2, <2>3, <2>4, <2>5 DEF GoodFinal
<1>. QED  BY <1>1, <1>2

(* A fault proof that slashes and takes finality back. *)
LEMMA FaultInv ==
    ASSUME FinalityInv, NEW h \in 1 .. Len(chain), NEW v \in Validators,
           handle_qc_fault_proof(h, v)
    PROVE  FinalityInv'
<1>1. /\ chain \in Chains
      /\ slashed \subseteq Validators
      /\ GoodBlobs(verified_qc_blobs)
      /\ GoodBlobs(qc_store)
      /\ GoodCerts(cert_store)
      /\ GoodQueue(pending_finality_certs)
      /\ GoodSnapshots(snapshots)
    BY InvTables
<1>2. /\ chain' = chain
      /\ slashed' = slashed \cup {v}
      /\ pending_finality_certs' = pending_finality_certs
      /\ snapshots' = snapshots
      /\ verified_qc_blobs' = Drop(verified_qc_blobs, h .. MaxTip)
      /\ qc_store' = Drop(qc_store, h .. MaxTip)
      /\ cert_store' = Drop(cert_store, h .. MaxTip)
      /\ RederiveFinality(cert_store')
    BY DEF handle_qc_fault_proof, apply_qc_fault_verdict,
         invalidate_finality_from_height
<1>3. GoodBlobs(verified_qc_blobs')
      /\ DOMAIN verified_qc_blobs' = DOMAIN verified_qc_blobs \ (h .. MaxTip)
    BY <1>1, <1>2, DropKeepsBlobs
<1>4. GoodBlobs(qc_store') /\ DOMAIN qc_store' = DOMAIN qc_store \ (h .. MaxTip)
    BY <1>1, <1>2, DropKeepsBlobs
<1>5. GoodCerts(cert_store')
    BY <1>1, <1>2, DropKeepsCerts
<1>6. GoodFinal(finalized_height', finalized_hash')
    BY <1>1, <1>2, <1>5, RederiveIsGood
<1>7. CacheCoherent'
    BY <1>2 DEF FinalityInv, CacheCoherent, Drop
<1>8. PendingAwaitsBlob'
    BY <1>2, <1>3, <1>4 DEF FinalityInv, PendingAwaitsBlob, HasBlob
<1>. QED  BY <1>1, <1>2, <1>3, <1>4, <1>5, <1>6, <1>7, <1>8, TablesInv

(* A restart: what the newest snapshot restores is still on the chain. *)
LEMMA RestartInv ==
    ASSUME FinalityInv, new_with_genesis
    PROVE  FinalityInv'
<1>1. /\ chain \in Chains
      /\ GoodBlobs(qc_store)
      /\ GoodCerts(cert_store)
      /\ GoodSnapshots(snapshots)
    BY InvTables
<1>2. /\ chain' = chain
      /\ qc_store' = qc_store
      /\ cert_store' = cert_store
      /\ snapshots' = snapshots
      /\ finalized_height' = Restored.finalized_height
      /\ finalized_hash' = Restored.finalized_hash
      /\ slashed' = Restored.slashed
      /\ verified_qc_blobs' = <<>>
      /\ pending_finality_certs' = <<>>
    BY DEF new_with_genesis
<1>3. GoodFinal(Restored.finalized_height, Restored.finalized_hash)
      /\ Restored.slashed \subseteq Validators
  <2>1. CASE DOMAIN snapshots = {}
    <3>1. /\ Restored.finalized_height = 0 /\ Restored.finalized_hash = Genesis
          /\ Restored.slashed = {}
      BY <2>1 DEF Restored
    <3>2. 0 \in Heights /\ 0 <= Len(chain)
      BY <1>1, ChainLength, ParametersAssumption DEF Heights
    <3>. QED  BY <3>1, <3>2, GenesisIsChain DEF GoodFinal, OnChain
  <2>2. CASE DOMAIN snapshots # {}
    <3>. DEFINE top == Highest(DOMAIN snapshots)
    <3>1. DOMAIN snapshots \in SUBSET (0 .. MaxTip)
      BY <1>1 DEF GoodSnapshots, GoodSnapshot, Heights
    <3>2. top \in DOMAIN snapshots
      BY <2>2, <3>1, HighestIn, ParametersAssumption
    <3>3. Restored = snapshots[top]
      BY <2>2 DEF Restored
    <3>4. GoodSnapshot(top, Restored)
      BY <1>1, <3>2, <3>3 DEF GoodSnapshots
    <3>. QED  BY <3>4 DEF GoodSnapshot, SnapshotRows, GoodFinal
  <2>. QED  BY <2>1, <2>2
<1>4. DOMAIN verified_qc_blobs' = {} /\ DOMAIN pending_finality_certs' = {}
    BY <1>2
<1>5. GoodBlobs(verified_qc_blobs') /\ GoodQueue(pending_finality_certs')
    BY <1>4 DEF GoodBlobs, GoodQueue
<1>6. CacheCoherent' /\ PendingAwaitsBlob'
    BY <1>4 DEF CacheCoherent, PendingAwaitsBlob
<1>. QED  BY <1>1, <1>2, <1>3, <1>5, <1>6, TablesInv

(* What a reorganisation at f changes, and what it leaves alone below f. *)
LEMMA ReorgMoves ==
    ASSUME FinalityInv, NEW new \in Chains, NEW f \in 1 .. (MaxTip + 1),
           try_reorg(new, f)
    PROVE  /\ chain' = new /\ chain' \in Chains
           /\ f \in Nat /\ f - 1 <= Len(chain')
           /\ finalized_height \in Nat /\ finalized_height < f
           /\ \A hash : \A h \in Nat : (h < f /\ OnChain(h, hash)) => OnChain(h, hash)'
<1>1. chain \in Chains /\ Len(chain) \in Nat /\ Len(new) \in Nat /\ f \in Nat \ {0}
    BY ChainLength, ParametersAssumption DEF FinalityInv, TypeOK
<1>2. /\ f <= Len(chain) + 1
      /\ f <= Len(new) + 1
      /\ \A i \in 1 .. (f - 1) : chain[i] = new[i]
    BY <1>1 DEF try_reorg, find_fork_point
<1>3. Agree(chain, new, f)
    BY <1>1, <1>2 DEF Agree
<1>4. Moved(chain, new, f)
    BY <1>3, AgreeMoves
<1>5. chain' = new
    BY DEF try_reorg
<1>6. finalized_height \in Nat /\ finalized_height < f
    BY <1>1, ParametersAssumption
       DEF try_reorg, RespectsFinality, FinalityInv, TypeOK, Heights
<1>7. \A hash : \A h \in Nat : (h < f /\ OnChain(h, hash)) => OnChain(h, hash)'
    BY <1>4, <1>5 DEF Moved, OnChain
<1>. QED  BY <1>1, <1>2, <1>5, <1>6, <1>7

(* A reorganisation: the rows that stay are below the fork. *)
LEMMA ReorgInv ==
    ASSUME FinalityInv, NEW new \in Chains, NEW f \in 1 .. (MaxTip + 1),
           try_reorg(new, f)
    PROVE  FinalityInv'
<1>1. /\ chain \in Chains
      /\ GoodFinal(finalized_height, finalized_hash)
      /\ GoodBlobs(verified_qc_blobs)
      /\ GoodBlobs(qc_store)
      /\ GoodCerts(cert_store)
      /\ GoodSnapshots(snapshots)
    BY InvTables
<1>2. /\ chain' = new /\ chain' \in Chains
      /\ f \in Nat /\ f - 1 <= Len(chain')
      /\ finalized_height \in Nat /\ finalized_height < f
      /\ \A hash : \A h \in Nat : (h < f /\ OnChain(h, hash)) => OnChain(h, hash)'
    BY ReorgMoves
<1>3. /\ slashed' = {}
      /\ verified_qc_blobs' = Drop(verified_qc_blobs, f .. Len(chain))
      /\ qc_store' = Drop(qc_store, f .. Len(chain))
      /\ cert_store' = Drop(cert_store, f .. Len(chain))
      /\ snapshots' = Drop(snapshots, (f - 1 + 1) .. MaxTip)
      /\ pending_finality_certs' = <<>>
      /\ finalized_height' = finalized_height
      /\ finalized_hash' = finalized_hash
    BY DEF try_reorg, WithoutAbandoned, quarantine_snapshots_above_height
<1>4. Len(chain) \in Nat /\ Len(chain') \in Nat
    BY <1>1, <1>2, ChainLength, ParametersAssumption
<1>5. \A h \in Heights : h \in Nat /\ h <= MaxTip
    BY ParametersAssumption DEF Heights
<1>6. \A h \in DOMAIN verified_qc_blobs' :
        /\ h \in DOMAIN verified_qc_blobs
        /\ h \in Heights /\ is_checkpoint_height(h)
        /\ verified_qc_blobs'[h] = verified_qc_blobs[h]
        /\ BlobOK(verified_qc_blobs'[h])
        /\ OnChain(h, verified_qc_blobs[h].hash)'
  <2>. TAKE h \in DOMAIN verified_qc_blobs'
  <2>1. /\ h \in DOMAIN verified_qc_blobs /\ h \notin f .. Len(chain)
        /\ verified_qc_blobs'[h] = verified_qc_blobs[h]
    BY <1>3 DEF Drop
  <2>2. /\ h \in Heights /\ is_checkpoint_height(h) /\ BlobOK(verified_qc_blobs[h])
        /\ OnChain(h, verified_qc_blobs[h].hash)
    BY <1>1, <2>1 DEF GoodBlobs
  <2>3. h \in Nat /\ h < f
    BY <1>2, <1>4, <1>5, <2>1, <2>2 DEF OnChain
  <2>4. OnChain(h, verified_qc_blobs'[h].hash)
    BY <2>1, <2>2
  <2>5. OnChain(h, verified_qc_blobs[h].hash)'
    BY <1>2, <2>3, <2>4 DEF OnChain
  <2>. QED  BY <2>1, <2>2, <2>5
<1>7. \A h \in DOMAIN qc_store' :
        /\ h \in DOMAIN qc_store
        /\ h \in Heights /\ is_checkpoint_height(h)
        /\ qc_store'[h] = qc_store[h]
        /\ BlobOK(qc_store'[h])
        /\ OnChain(h, qc_store[h].hash)'
  <2>. TAKE h \in DOMAIN qc_store'
  <2>1. /\ h \in DOMAIN qc_store /\ h \notin f .. Len(chain)
        /\ qc_store'[h] = qc_store[h]
    BY <1>3 DEF Drop
  <2>2. /\ h \in Heights /\ is_checkpoint_height(h) /\ BlobOK(qc_store[h])
        /\ OnChain(h, qc_store[h].hash)
    BY <1>1, <2>1 DEF GoodBlobs
  <2>3. h \in Nat /\ h < f
    BY <1>2, <1>4, <1>5, <2>1, <2>2 DEF OnChain
  <2>4. OnChain(h, qc_store[h].hash)'
    BY <1>2, <2>1, <2>2, <2>3 DEF OnChain
  <2>. QED  BY <2>1, <2>2, <2>4
<1>8. \A h \in DOMAIN cert_store' :
        /\ h \in Heights /\ is_checkpoint_height(h)
        /\ cert_store'[h] \in Certs
        /\ cert_store'[h].height = h
        /\ OnChain(h, cert_store[h].hash)'
  <2>. TAKE h \in DOMAIN cert_store'
  <2>1. /\ h \in DOMAIN cert_store /\ h \notin f .. Len(chain)
        /\ cert_store'[h] = cert_store[h]
    BY <1>3 DEF Drop
  <2>2. /\ h \in Heights /\ is_checkpoint_height(h)
        /\ cert_store[h] \in Certs /\ cert_store[h].height = h
        /\ OnChain(h, cert_store[h].hash)
    BY <1>1, <2>1 DEF GoodCerts, GoodCert
  <2>3. h \in Nat /\ h < f
    BY <1>2, <1>4, <1>5, <2>1, <2>2 DEF OnChain
  <2>4. OnChain(h, cert_store[h].hash)'
    BY <1>2, <2>1, <2>2, <2>3 DEF OnChain
  <2>. QED  BY <2>1, <2>2, <2>4
<1>9. \A s \in DOMAIN snapshots' :
        /\ s \in Heights
        /\ snapshots'[s] \in SnapshotRows
        /\ snapshots'[s].finalized_height <= s
        /\ s <= Len(chain')
        /\ OnChain(snapshots[s].finalized_height, snapshots[s].finalized_hash)'
  <2>. TAKE s \in DOMAIN snapshots'
  <2>1. /\ s \in DOMAIN snapshots /\ s \notin (f - 1 + 1) .. MaxTip
        /\ snapshots'[s] = snapshots[s]
    BY <1>3 DEF Drop
  <2>2. /\ s \in Heights /\ snapshots[s] \in SnapshotRows
        /\ snapshots[s].finalized_height <= s
        /\ OnChain(snapshots[s].finalized_height, snapshots[s].finalized_hash)
    BY <1>1, <2>1 DEF GoodSnapshots, GoodSnapshot
  <2>3. s \in Nat /\ s < f
    BY <1>2, <1>5, <2>1, <2>2, ParametersAssumption
  <2>4. snapshots[s].finalized_height \in Nat /\ snapshots[s].finalized_height < f
    BY <1>2, <1>5, <2>2, <2>3 DEF SnapshotRows
  <2>5. OnChain(snapshots[s].finalized_height, snapshots[s].finalized_hash)'
    BY <1>2, <2>1, <2>2, <2>4 DEF OnChain
  <2>6. s <= Len(chain')
    BY <1>2, <1>4, <2>3
  <2>. QED  BY <2>1, <2>2, <2>5, <2>6
<1>10. OnChain(finalized_height, finalized_hash)'
    BY <1>1, <1>2, <1>3 DEF GoodFinal, OnChain
<1>11. DOMAIN pending_finality_certs' = {}
    BY <1>3
<1>12. TypeOK'
    BY <1>1, <1>2, <1>3, <1>6, <1>7, <1>8, <1>9, <1>11 DEF TypeOK, GoodFinal
<1>13. FinalizedOnChain'
    BY <1>10 DEF FinalizedOnChain, OnChain
<1>14. EvidenceMatchesChain'
    BY <1>6, <1>7, <1>8, <1>9, <1>11 DEF EvidenceMatchesChain
<1>15. CacheCoherent'
    BY <1>3 DEF FinalityInv, CacheCoherent, Drop
<1>16. PendingAwaitsBlob'
    BY <1>11 DEF PendingAwaitsBlob
<1>. QED  BY <1>12, <1>13, <1>14, <1>15, <1>16 DEF FinalityInv

(* Every step keeps the invariant. *)
LEMMA NextInv == FinalityInv /\ [Next]_vars => FinalityInv'
<1>. SUFFICES ASSUME FinalityInv, [Next]_vars PROVE FinalityInv'
    OBVIOUS
<1>1. CASE \E l \in Labels : produce_block(l)
    BY <1>1, ExtendInv DEF produce_block
<1>2. CASE \E l \in Labels : validate_and_add_block(l)
    BY <1>2, ExtendInv DEF validate_and_add_block
<1>3. CASE \E h \in 1 .. Len(chain), signers \in SUBSET DOMAIN validator_set :
              handle_finality_cert(CertFrom(h, signers))
    BY <1>3, CertInv
<1>4. CASE \E h \in 1 .. Len(chain), signers \in SUBSET DOMAIN validator_set :
              import_qc_blob(h, BlobFrom(h, signers))
    BY <1>4, BlobInv
<1>5. CASE \E h \in 1 .. Len(chain), v \in Validators : handle_qc_fault_proof(h, v)
    BY <1>5, FaultInv
<1>6. CASE \E new \in Chains, f \in 1 .. (MaxTip + 1) : try_reorg(new, f)
    BY <1>6, ReorgInv
<1>7. CASE new_with_genesis
    BY <1>7, RestartInv
<1>8. CASE UNCHANGED vars
    BY <1>8 DEF vars, FinalityInv, TypeOK, FinalizedOnChain, EvidenceMatchesChain,
                OnChain, CacheCoherent, PendingAwaitsBlob, HasBlob
<1>. QED  BY <1>1, <1>2, <1>3, <1>4, <1>5, <1>6, <1>7, <1>8 DEF Next, Handlers

-----------------------------------------------------------------------------
(* Results *)

(* The inductive invariant holds along every behaviour of the node. *)
THEOREM FinalityInvariant == Spec => []FinalityInv
BY InitInv, NextInv, PTL DEF Spec

(* The node's finality state is well typed: rows only at checkpoint        *)
(* heights, and no empty bucket in the pending queue.                      *)
THEOREM FinalityTypeCorrect == Spec => []TypeOK
<1>1. FinalityInv => TypeOK
    BY DEF FinalityInv
<1>. QED  BY <1>1, FinalityInvariant, PTL

(* The block the node calls final is always a block of its own chain.      *)
THEOREM FinalIsOnChain == Spec => []FinalizedOnChain
<1>1. FinalityInv => FinalizedOnChain
    BY DEF FinalityInv
<1>. QED  BY <1>1, FinalityInvariant, PTL

(* Blobs, certificates, waiting certificates and snapshots are always      *)
(* about the present chain, so a blob looked up by height alone supports   *)
(* the certificate of the right block.                                     *)
THEOREM EvidenceIsCurrent == Spec => []EvidenceMatchesChain
<1>1. FinalityInv => EvidenceMatchesChain
    BY DEF FinalityInv
<1>. QED  BY <1>1, FinalityInvariant, PTL

(* The in-memory blob cache never disagrees with the store. *)
THEOREM CacheAgrees == Spec => []CacheCoherent
<1>1. FinalityInv => CacheCoherent
    BY DEF FinalityInv
<1>. QED  BY <1>1, FinalityInvariant, PTL

(* A certificate waits only while its blob is missing: no wake-up is lost. *)
THEOREM NoLostWakeUp == Spec => []PendingAwaitsBlob
<1>1. FinalityInv => PendingAwaitsBlob
    BY DEF FinalityInv
<1>. QED  BY <1>1, FinalityInvariant, PTL

(* No step of the node replaces the block that was final before it. *)
THEOREM FinalStays == Spec => FinalizedNeverReplaced
<1>. DEFINE Kept == /\ finalized_height <= Len(chain')
                    /\ BlockHash(chain', finalized_height) = finalized_hash
<1>1. ASSUME FinalityInv, [Next]_vars
      PROVE  Kept \/ UNCHANGED vars
  <2>1. GoodFinal(finalized_height, finalized_hash)
    BY <1>1, InvTables
  <2>2. CASE chain' = chain
    BY <2>1, <2>2 DEF GoodFinal, OnChain
  <2>3. CASE \E l \in Labels : ExtendChain(l)
    <3>1. PICK l \in Labels : ExtendChain(l)
      BY <2>3
    <3>2. chain \in Chains /\ chain' = Append(chain, l) /\ Len(chain) < MaxTip
      BY <1>1, <3>1 DEF ExtendChain, FinalityInv, TypeOK
    <3>3. Moved(chain, chain', Len(chain) + 1) /\ Len(chain) \in Nat
      BY <3>2, AppendAgrees, AgreeMoves, ChainLength
    <3>4. finalized_height \in Nat /\ OnChain(finalized_height, finalized_hash)
      BY <2>1, ParametersAssumption DEF GoodFinal, Heights
    <3>. QED  BY <3>3, <3>4 DEF Moved, OnChain
  <2>4. CASE \E new \in Chains, f \in 1 .. (MaxTip + 1) : try_reorg(new, f)
    BY <2>4 DEF try_reorg, RespectsFinality
  <2>. QED  BY <1>1, <2>2, <2>3, <2>4
            DEF Next, Handlers, produce_block, validate_and_add_block,
                handle_finality_cert, import_qc_blob, handle_qc_fault_proof,
                new_with_genesis
<1>. QED  BY <1>1, FinalityInvariant, PTL DEF Spec, FinalizedNeverReplaced

(* When a stored blob is withdrawn, finality has fallen below its height   *)
(* by the end of the same step: no height stays final without evidence.    *)
THEOREM WithdrawnNotFinal == Spec => WithdrawnBlobNotFinal
<1>. DEFINE Lowered == \A h \in DOMAIN qc_store \ DOMAIN qc_store' : finalized_height' < h
<1>1. ASSUME FinalityInv, [Next]_vars
      PROVE  Lowered \/ UNCHANGED vars
  <2>0. /\ chain \in Chains
        /\ GoodBlobs(qc_store)
        /\ GoodCerts(cert_store)
    BY <1>1, InvTables
  <2>1. CASE DOMAIN qc_store \subseteq DOMAIN qc_store'
    BY <2>1
  <2>2. CASE \E h \in 1 .. Len(chain), v \in Validators : handle_qc_fault_proof(h, v)
    <3>1. PICK h \in 1 .. Len(chain), v \in Validators : handle_qc_fault_proof(h, v)
      BY <2>2
    <3>2. /\ qc_store' = Drop(qc_store, h .. MaxTip)
          /\ cert_store' = Drop(cert_store, h .. MaxTip)
          /\ RederiveFinality(cert_store')
      BY <3>1 DEF handle_qc_fault_proof, apply_qc_fault_verdict,
         invalidate_finality_from_height
    <3>3. GoodCerts(cert_store') /\ DOMAIN cert_store' = DOMAIN cert_store \ (h .. MaxTip)
      BY <2>0, <3>2, DropKeepsCerts
    <3>4. finalized_height' \in DOMAIN cert_store' \cup {0}
      BY <2>0, <3>2, <3>3, RederiveIsGood
    <3>5. \A k \in DOMAIN cert_store : k \in 0 .. MaxTip
      BY <2>0 DEF GoodCerts, Heights
    <3>6. h \in Nat \ {0}
      BY <2>0, ChainLength, ParametersAssumption
    <3>7. finalized_height' < h /\ finalized_height' \in Nat
      BY <3>3, <3>4, <3>5, <3>6, ParametersAssumption
    <3>8. \A k \in DOMAIN qc_store \ DOMAIN qc_store' : k \in Nat /\ h <= k
      BY <3>2, <3>6 DEF Drop
    <3>. QED  BY <3>6, <3>7, <3>8
  <2>3. CASE \E new \in Chains, f \in 1 .. (MaxTip + 1) : try_reorg(new, f)
    <3>1. PICK new \in Chains, f \in 1 .. (MaxTip + 1) : try_reorg(new, f)
      BY <2>3
    <3>2. f \in Nat /\ finalized_height \in Nat /\ finalized_height < f
      BY <1>1, <3>1, ReorgMoves
    <3>3. /\ qc_store' = Drop(qc_store, f .. Len(chain))
          /\ finalized_height' = finalized_height
      BY <3>1 DEF try_reorg, WithoutAbandoned
    <3>4. Len(chain) \in Nat
      BY <2>0, ChainLength, ParametersAssumption
    <3>5. \A k \in DOMAIN qc_store \ DOMAIN qc_store' : k \in Nat /\ f <= k
      BY <3>2, <3>3, <3>4 DEF Drop
    <3>. QED  BY <3>2, <3>3, <3>5
  <2>4. CASE \E h \in 1 .. Len(chain), signers \in SUBSET DOMAIN validator_set :
                import_qc_blob(h, BlobFrom(h, signers))
    BY <2>4, <2>1 DEF import_qc_blob, Store
  <2>. QED  BY <1>1, <2>1, <2>2, <2>3, <2>4
            DEF Next, Handlers, produce_block, validate_and_add_block, ExtendChain,
                handle_finality_cert, new_with_genesis
<1>. QED  BY <1>1, FinalityInvariant, PTL DEF Spec, WithdrawnBlobNotFinal
=============================================================================
